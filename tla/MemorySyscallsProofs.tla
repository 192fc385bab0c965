------------------------ MODULE MemorySyscallsProofs ------------------------
(***************************************************************************)
(* Proofs about MemorySyscalls, for every page size, every size of the     *)
(* address space and all arguments: the region list stays well formed and  *)
(* owned through the system calls that combine several SoftMMU operations, *)
(* the break is backed by heap pages, and mmap, brk and mremap change      *)
(* exactly the bytes that they may change.                                 *)
(*                                                                         *)
(* The lemmas about single SoftMMU operations are in RegionsProofs.        *)
(***************************************************************************)
EXTENDS MemorySyscalls, RegionsProofs

-----------------------------------------------------------------------------
(* The copy loop of mremap.                                                *)

\* Byte i of the copy is the byte that the source holds i % d bytes in, where d is
\* the distance from the source to the destination: the loop reads back its own
\* output wherever the destination begins inside the source.
Source(old, dest, i) ==
  LET d == Distance(old, dest)
  IN  Wrap(old + IF d = 0 THEN i ELSE i % d)

LEMMA SourceBack ==
  ASSUME NEW old \in Addr, NEW dest \in Addr, NEW i \in Addr
  PROVE  LET back == Distance(dest, Wrap(old + i))
         IN  /\ Source(old, dest, i) \in Addr /\ back \in Addr
             /\ back < i => Source(old, dest, i) = Source(old, dest, back)
             /\ ~(back < i) => Source(old, dest, i) = Wrap(old + i)
             /\ \E k \in 0 .. i : Source(old, dest, i) = Wrap(old + k)
<1> DEFINE d == Distance(old, dest)
           back == Distance(dest, Wrap(old + i))
           j == IF d = 0 THEN i ELSE i % d
<1>0. /\ Space \in Nat /\ Space > 0 /\ old \in Nat /\ old < Space /\ dest \in Nat
      /\ dest < Space /\ i \in Nat /\ i < Space
  BY SpaceAssumption DEF Addr
<1>1. d \in Nat /\ d < Space
  BY <1>0 DEF Distance
<1>2. back = IF i < d THEN i - d + Space ELSE i - d
  BY <1>0 DEF Distance, Wrap
<1> HIDE DEF d, back
<1>3. d # 0 => i % d \in 0 .. d - 1 /\ (i < d => i % d = i)
  <2> SUFFICES ASSUME d # 0 PROVE i % d \in 0 .. d - 1 /\ (i < d => i % d = i)
    OBVIOUS
  <2>1. d \in Int /\ d > 0 /\ i \in Int
    BY <1>0, <1>1
  <2>2. i < d => i = 0 * d + i /\ i \in 0 .. d - 1
    BY <1>0, <1>1
  <2>3. i < d => i % d = i
    BY <2>1, <2>2, ModUnique
  <2> QED BY <2>1, <2>3, Quotient
<1>4. d # 0 /\ i >= d => i % d = (i - d) % d /\ i % d <= i
  <2> SUFFICES ASSUME d # 0, i >= d PROVE i % d = (i - d) % d /\ i % d <= i
    OBVIOUS
  <2> DEFINE q == i \div d
             m == i % d
  <2>1. d \in Int /\ d > 0 /\ i \in Int /\ i - d \in Int
    BY <1>0, <1>1
  <2>2. q \in Int /\ m \in 0 .. d - 1 /\ i = q * d + m
    BY <2>1, Quotient
  <2> HIDE DEF q, m
  <2>3. i - d = (q - 1) * d + m /\ q - 1 \in Int
    BY <2>1, <2>2
  <2>4. (i - d) % d = m
    BY <2>1, <2>2, <2>3, ModUnique
  <2> QED BY <1>0, <2>1, <2>2, <2>4 DEF m
<1>5. Source(old, dest, i) = Wrap(old + j)
  BY DEF Source, d
<1>6. j \in Nat /\ j < Space
  BY <1>0, <1>1, <1>3
<1>7. Source(old, dest, i) \in Addr
  BY <1>0, <1>5, <1>6 DEF Wrap, Addr
<1>8. back \in Addr
  BY <1>0, <1>1, <1>2 DEF Addr
<1>9. back < i => d # 0 /\ i >= d /\ back = i - d
  BY <1>0, <1>1, <1>2
<1>10. back < i => Source(old, dest, i) = Source(old, dest, back)
  BY <1>4, <1>9 DEF Source, d
<1>11. ~(back < i) => j = i
  BY <1>0, <1>1, <1>2, <1>3
<1>12. j \in 0 .. i
  BY <1>0, <1>1, <1>3, <1>4
<1> HIDE DEF j
<1> QED BY <1>5, <1>7, <1>8, <1>10, <1>11, <1>12 DEF back

\* What the copy loop writes.
LEMMA CopiedBytes ==
  ASSUME NEW regions, NEW old \in Addr, NEW dest \in Addr, NEW n \in Addr
  PROVE  Copied(regions, old, dest, n) =
           [i \in 0 .. n - 1 |-> CellAt(regions, Source(old, dest, i))]
<1> DEFINE back(i) == Distance(dest, Wrap(old + i))
           F(f) == [i \in 0 .. n - 1 |->
                      IF back(i) < i THEN f[back(i)] ELSE CellAt(regions, Wrap(old + i))]
           g == [i \in 0 .. n - 1 |-> CellAt(regions, Source(old, dest, i))]
           c == Copied(regions, old, dest, n)
<1>0. \A i \in 0 .. n - 1 : i \in Addr
  BY SpaceAssumption DEF Addr
<1>1. \A i \in 0 .. n - 1 :
         /\ back(i) < i => back(i) \in 0 .. n - 1
                             /\ Source(old, dest, i) = Source(old, dest, back(i))
         /\ ~(back(i) < i) => Source(old, dest, i) = Wrap(old + i)
  <2> SUFFICES ASSUME NEW i \in 0 .. n - 1
               PROVE  /\ back(i) < i => back(i) \in 0 .. n - 1
                             /\ Source(old, dest, i) = Source(old, dest, back(i))
                      /\ ~(back(i) < i) => Source(old, dest, i) = Wrap(old + i)
    OBVIOUS
  <2>1. i \in Addr
    BY <1>0
  <2>2. /\ back(i) \in Addr
        /\ back(i) < i => Source(old, dest, i) = Source(old, dest, back(i))
        /\ ~(back(i) < i) => Source(old, dest, i) = Wrap(old + i)
    BY <2>1, SourceBack
  <2> HIDE DEF back
  <2>3. back(i) < i => back(i) \in 0 .. n - 1
    BY <2>2, SpaceAssumption DEF Addr
  <2> QED BY <2>2, <2>3
<1>2. c = CHOOSE f : f = F(f)
  BY DEF Copied
<1> HIDE DEF back, c
<1>3. g = F(g)
  BY <1>1
<1>4. c = F(c)
  BY <1>2, <1>3
<1>5. \A i \in 0 .. n - 1 : c[i] = g[i]
  <2> DEFINE T == {i \in 0 .. n - 1 : c[i] # g[i]}
  <2> SUFFICES ASSUME T # {} PROVE FALSE
    OBVIOUS
  <2>1. T \in SUBSET Nat
    OBVIOUS
  <2> HIDE DEF T
  <2>2. PICK i \in T : \A k \in T : i <= k
    BY <2>1, Least
  <2>3. i \in 0 .. n - 1 /\ c[i] # g[i]
    BY DEF T
  <2>4. CASE back(i) < i
    <3>1. back(i) \in 0 .. n - 1 /\ back(i) \notin T
      BY <1>1, <2>2, <2>3, <2>4
    <3>2. c[back(i)] = g[back(i)]
      BY <3>1 DEF T
    <3>3. c[i] = c[back(i)] /\ g[i] = g[back(i)]
      BY <1>3, <1>4, <2>3, <2>4
    <3> QED BY <2>3, <3>2, <3>3
  <2>5. CASE ~(back(i) < i)
    BY <1>3, <1>4, <2>3, <2>5
  <2> QED BY <2>4, <2>5
<1>6. c = [i \in 0 .. n - 1 |-> c[i]]
  BY <1>4
<1>7. c = g
  BY <1>5, <1>6
<1> QED BY <1>7 DEF c

-----------------------------------------------------------------------------
(* Ranges of whole pages.                                                  *)

\* What the invariant says of the region list.
Good(regions) == Owned(regions) /\ Paged(regions)

LEMMA AlignedRange ==
  ASSUME NEW c \in Addr, NEW s \in Addr, Whole(c), Whole(s)
  PROVE  /\ page_align_down(c) = c /\ page_align_up(s) = s
         /\ \A regions : map_fails(regions, c, s) <=> MapFails(regions, c, s)
         /\ c + s < Space => /\ PageSpan(c, s) = c .. c + s - 1
                             /\ \A regions : ~range_aborts(regions, c, s)
<1>1. page_align_down(c) = c /\ page_align_up(s) = s
  BY DownWhole, UpWhole, SpaceAssumption DEF Addr
<1>2. c + s < Space => PageSpan(c, s) = c .. c + s - 1
  BY <1>1 DEF PageSpan, Span
<1>3. c + s < Space => \A regions : ~range_aborts(regions, c, s)
  <2>1. c + s < Space => ~(Wrap(c + s) < c)
    BY SpaceAssumption DEF Wrap, Addr
  <2> QED BY <1>1, <2>1 DEF range_aborts, SplitAborts
<1> QED BY <1>1, <1>2, <1>3 DEF map_fails

\* A range that could be mapped ends inside the address space.
LEMMA FitsBelowTop ==
  ASSUME NEW regions, NEW c \in Addr, NEW s \in Addr, ~MapFails(regions, c, s)
  PROVE  c + s < Space /\ s # 0
BY SpaceAssumption DEF MapFails, Wrap, Addr

LEMMA MapGood ==
  ASSUME NEW regions, Good(regions), NEW base \in Addr, NEW size \in Addr,
         NEW prot \in SUBSET Perm, NEW kind \in Kind, NEW file_offset \in Addr,
         ~map_fails(regions, base, size)
  PROVE  Good(map_region(regions, base, size, prot, kind, file_offset))
BY MapOwned, MapPaged DEF Good

LEMMA UnmapGood ==
  ASSUME NEW regions, Good(regions), NEW base \in Addr, NEW size \in Addr,
         ~range_aborts(regions, base, size)
  PROVE  Good(unmap(regions, base, size))
BY UnmapOwned, UnmapPaged DEF Good

LEMMA ProtectGood ==
  ASSUME NEW regions, Good(regions), NEW base \in Addr, NEW size \in Addr,
         NEW prot \in SUBSET Perm, ~range_aborts(regions, base, size)
  PROVE  Good(protect(regions, base, size, prot))
BY ProtectOwned, ProtectPaged DEF Good

LEMMA WriteGood ==
  ASSUME NEW regions, Good(regions), NEW address \in Addr, NEW n \in Addr,
         NEW bytes \in Strings(n)
  PROVE  Good(write_bytes(regions, address, n, bytes))
BY WriteOwned, AccessPaged DEF Good, Strings

LEMMA MarkGood ==
  ASSUME NEW regions, Good(regions), NEW address \in Addr, NEW n \in Addr,
         NEW initialized \in BOOLEAN
  PROVE  Good(mark_initialized(regions, address, n, initialized))
BY MarkOwned, AccessPaged DEF Good

LEMMA FileStrings == \A n : FileBytes(n) \in Strings(n)
BY MemoryArguments DEF FileBytes, Strings, Cell

\* The search for a free range tries page addresses only.
LEMMA SearchWhole ==
  ASSUME NEW regions, Good(regions), NEW next \in Addr, NEW size \in Addr,
         NEW c \in SearchStops(regions, next, size)
  PROVE  c \in Addr /\ Whole(c)
<1>1. c \in Addr
  BY SearchType DEF Good, Owned
<1>2. \E x \in Addr : c = page_align_up(x)
  BY OwnedRegion, EndValue DEF SearchStops, Good
<1> QED BY <1>1, <1>2, UpWhole

-----------------------------------------------------------------------------
(* mmap keeps the list well formed.                                        *)

LEMMA MmapGood ==
  ASSUME NEW regions, Good(regions), NEW c \in Addr, NEW s \in Addr, Whole(c), Whole(s),
         ~map_fails(regions, c, s), NEW prot \in SUBSET Perm,
         NEW source \in {"file", "anonymous"}, NEW uninitialized \in BOOLEAN,
         NEW rc \in ReadResults(s)
  PROVE  LET mapped == map_region(regions, c, s, ReadWrite, "mmap", 0)
         IN  /\ Good(mapped) /\ Good(UndoMmap(mapped, c, s))
             /\ ~(source = "file" /\ rc = -1) =>
                  Good(Populate(mapped, c, s, prot, source, uninitialized, rc))
<1> DEFINE mapped == map_region(regions, c, s, ReadWrite, "mmap", 0)
           filled == IF source = "file" THEN write_bytes(mapped, c, rc, FileBytes(rc))
                                        ELSE mapped
           marked == IF uninitialized THEN mark_initialized(filled, c, s, FALSE) ELSE filled
<1>0. \A r : ~range_aborts(r, c, s)
  BY AlignedRange, FitsBelowTop
<1>1. Good(mapped)
  <2>1. ReadWrite \in SUBSET Perm /\ "mmap" \in Kind /\ 0 \in Addr
    BY SpaceAssumption DEF ReadWrite, Perm, Kind, Addr
  <2> QED BY <2>1, MapGood
<1> HIDE DEF mapped
<1>2. Good(UndoMmap(mapped, c, s))
  BY <1>0, <1>1, UnmapGood DEF UndoMmap
<1>3. ASSUME ~(source = "file" /\ rc = -1)
      PROVE  Good(Populate(mapped, c, s, prot, source, uninitialized, rc))
  <2>1. Good(filled)
    <3>1. source = "file" => rc \in Addr
      BY <1>3, SpaceAssumption DEF ReadResults, Addr
    <3> QED BY <1>1, <3>1, WriteGood, FileStrings
  <2> HIDE DEF filled
  <2>2. Good(marked)
    BY <2>1, MarkGood
  <2> HIDE DEF marked
  <2>3. Good(protect(marked, c, s, prot))
    BY <1>0, <2>2, ProtectGood
  <2> QED BY <2>3 DEF Populate, marked, filled
<1> QED BY <1>1, <1>2, <1>3 DEF mapped

-----------------------------------------------------------------------------
(* mremap keeps the list well formed.                                      *)

LEMMA CellType ==
  ASSUME NEW regions, Owned(regions), NEW a \in Addr, Mapped(regions, a)
  PROVE  CellAt(regions, a) = FlatByte(regions, a).cell /\ CellAt(regions, a) \in Cell
<1>1. PICK r \in regions : Contains(r, a)
  BY DEF Mapped
<1>2. find_region(regions, a) = r /\ FlatByte(regions, a) = ByteIn(r, a)
  BY <1>1, FlatIn DEF Owned
<1>3. /\ r.base \in Nat /\ r.size \in Nat /\ Spans(r, a) /\ r.cells \in [0 .. r.size - 1 -> Cell]
      /\ a \in Nat
  BY <1>1, OwnedRegion, RegionFields, SpaceAssumption DEF Addr
<1>4. a - r.base \in 0 .. r.size - 1
  BY <1>3 DEF Spans
<1> QED BY <1>2, <1>3, <1>4 DEF CellAt, ByteIn

\* Readable bytes are mapped.
LEMMA ReadableMapped ==
  ASSUME NEW regions, NEW old, NEW n, ~read_fails(regions, old, n), NEW i \in 0 .. n - 1
  PROVE  Mapped(regions, Wrap(old + i))
BY DEF read_fails, Reached, Accessible, Mapped

LEMMA CopiedType ==
  ASSUME NEW regions, Owned(regions), NEW old \in Addr, NEW dest \in Addr, NEW n \in Addr,
         ~read_fails(regions, old, n)
  PROVE  /\ Copied(regions, old, dest, n) \in Strings(n)
         /\ \A i \in 0 .. n - 1 : Copied(regions, old, dest, n)[i]
                                    = CellAt(regions, Source(old, dest, i))
<1>1. ASSUME NEW i \in 0 .. n - 1 PROVE CellAt(regions, Source(old, dest, i)) \in Cell
  <2>1. i \in Addr /\ i \in Nat /\ n \in Nat
    BY SpaceAssumption DEF Addr
  <2>2. /\ Source(old, dest, i) \in Addr
        /\ \E k \in 0 .. i : Source(old, dest, i) = Wrap(old + k)
    BY <2>1, SourceBack
  <2>3. PICK k \in 0 .. i : Source(old, dest, i) = Wrap(old + k)
    BY <2>2
  <2>4. k \in 0 .. n - 1
    BY <2>1
  <2>5. Mapped(regions, Source(old, dest, i))
    BY <2>3, <2>4, ReadableMapped
  <2> QED BY <2>2, <2>5, CellType
<1> DEFINE g == [i \in 0 .. n - 1 |-> CellAt(regions, Source(old, dest, i))]
<1>2. g \in [0 .. n - 1 -> Cell]
  BY <1>1
<1>3. Copied(regions, old, dest, n) = g
  BY CopiedBytes
<1>4. \A i \in 0 .. n - 1 : g[i] = CellAt(regions, Source(old, dest, i))
  OBVIOUS
<1> HIDE DEF g
<1> QED BY <1>2, <1>3, <1>4 DEF Strings

\* The last address is never mapped, so a mapped range ends inside the address space.
LEMMA MappedRange ==
  ASSUME NEW regions, Owned(regions), NEW old \in Addr, NEW n \in Addr,
         is_mapped(regions, old, n), n # 0
  PROVE  old + n < Space /\ Mapped(regions, old)
<1>0. old \in Nat /\ n \in Nat /\ Space \in Nat /\ old < Space
  BY SpaceAssumption DEF Addr
<1>1. Mapped(regions, old)
  <2>1. Wrap(old + 0) = old /\ 0 \in 0 .. n - 1
    BY <1>0 DEF Wrap
  <2> QED BY <2>1 DEF is_mapped
<1>2. ~Mapped(regions, Space - 1)
  <2> SUFFICES ASSUME NEW r \in regions, Contains(r, Space - 1) PROVE FALSE
    BY DEF Mapped
  <2>1. r.base + r.size < Space /\ r.base \in Nat /\ r.size \in Nat /\ Spans(r, Space - 1)
    BY OwnedRegion
  <2> QED BY <1>0, <2>1 DEF Spans
<1>3. ASSUME old + n >= Space PROVE FALSE
  <2>1. (Space - 1) - old \in 0 .. n - 1
    BY <1>0, <1>3
  <2>2. Wrap(old + ((Space - 1) - old)) = Space - 1
    BY <1>0 DEF Wrap
  <2> QED BY <1>2, <2>1, <2>2 DEF is_mapped
<1> QED BY <1>0, <1>1, <1>3

LEMMA CopyGood ==
  ASSUME NEW mapped, Good(mapped), NEW old \in Addr, NEW old_size \in Addr,
         NEW dest \in Addr, NEW new_size \in Addr, Whole(old), Whole(old_size),
         old_size # 0 => old + old_size < Space,
         ~CopyFails(mapped, old, dest, Smaller(old_size, new_size))
  PROVE  LET n == Smaller(old_size, new_size)
             copied == write_bytes(mapped, dest, n, Copied(mapped, old, dest, n))
         IN  Good(copied) /\ ~range_aborts(copied, old, old_size)
               /\ Good(RemoveOld(copied, old, old_size, new_size))
<1> DEFINE n == Smaller(old_size, new_size)
           bytes == Copied(mapped, old, dest, n)
           copied == write_bytes(mapped, dest, n, bytes)
<1>1. n \in Addr
  BY DEF Smaller
<1>2. bytes \in Strings(n)
  BY <1>1, CopiedType DEF CopyFails, Good
<1> HIDE DEF n, bytes
<1>3. Good(copied)
  BY <1>1, <1>2, WriteGood
<1> HIDE DEF copied
<1>4. ~range_aborts(copied, old, old_size)
  <2>1. CASE old_size = 0
    BY <2>1 DEF range_aborts
  <2>2. CASE old_size # 0
    BY <2>2, AlignedRange
  <2> QED BY <2>1, <2>2
<1>5. Good(RemoveOld(copied, old, old_size, new_size))
  BY <1>3, <1>4, UnmapGood DEF RemoveOld
<1> QED BY <1>3, <1>4, <1>5 DEF n, bytes, copied

-----------------------------------------------------------------------------
(* The invariant.                                                          *)

\* The break is backed by the mapped heap pages because it has never been moved
\* past them without mapping more: the two facts are inductive as they stand.
IInv == TypeOK /\ BreakIsBackedBelowTop

LEMMA Arguments ==
  /\ Targets \subseteq Addr /\ OldAddresses \subseteq Addr /\ Sizes \subseteq Addr
  /\ Prots \subseteq SUBSET Perm /\ Requests \subseteq Addr /\ Stores \subseteq Addr
  /\ 0 \in Addr /\ 1 \in Addr /\ Space \in Nat /\ BrkStart \in Addr
  /\ ReadWrite \in SUBSET Perm /\ "simple" \in Kind /\ "mmap" \in Kind
<1>1. PICK k \in 2 .. Space : Space = k * PageSize
  BY SpaceAssumption
<1>2. 0 \in Addr /\ 1 \in Addr /\ Space \in Nat
  BY <1>1, SpaceAssumption DEF Addr
<1> QED BY <1>2, MemoryArguments DEF ReadWrite, Perm, Kind

\* The parts of the invariant that the memory calls and the heap calls can disturb.
MemoryGood == Good(m_regions) /\ m_next_allocation \in Addr

HeapGood ==
  /\ m_brk \in Addr /\ m_brk >= BrkStart
  /\ m_brk_region_end \in Addr /\ m_brk_region_end >= BrkStart
  /\ BreakIsBackedBelowTop

EndGood == ret \in -EINVAL .. Space - 1 /\ status \in {"running", "error", "aborted"}

LEMMA GoodState == IInv <=> MemoryGood /\ HeapGood /\ EndGood
BY DEF IInv, TypeOK, MemoryGood, HeapGood, EndGood, Good, Owned

LEMMA GoodNext == IInv' <=> MemoryGood' /\ HeapGood' /\ EndGood'
BY DEF IInv, TypeOK, MemoryGood, HeapGood, EndGood, Good, Owned

\* How a call may end.
LEMMA Ends ==
  /\ \A value \in -EINVAL .. Space - 1 : EndGood /\ Return(value) => EndGood'
  /\ \A errno \in {EBADF, ENOMEM, EFAULT, EEXIST, EINVAL} : EndGood /\ Error(errno) => EndGood'
  /\ \A how \in {"error", "aborted"} : IInv /\ Stop(how) => MemoryGood' /\ HeapGood' /\ EndGood'
  /\ MemoryGood /\ HeapGood /\ NoChange => MemoryGood' /\ HeapGood'
  /\ HeapGood /\ UNCHANGED heap => HeapGood'
<1>1. \A value \in -EINVAL .. Space - 1 : EndGood /\ Return(value) => EndGood'
  BY DEF EndGood, Return
<1>2. \A errno \in {EBADF, ENOMEM, EFAULT, EEXIST, EINVAL} : -errno \in -EINVAL .. Space - 1
  BY SpaceAssumption DEF EBADF, ENOMEM, EFAULT, EEXIST, EINVAL
<1>3. \A how \in {"error", "aborted"} : IInv /\ Stop(how) => MemoryGood' /\ HeapGood' /\ EndGood'
  BY GoodState
     DEF Stop, MemoryGood, HeapGood, EndGood, BreakIsBackedBelowTop, memory, heap
<1>4. MemoryGood /\ HeapGood /\ NoChange => MemoryGood' /\ HeapGood'
  BY DEF NoChange, MemoryGood, HeapGood, BreakIsBackedBelowTop, memory, heap
<1>5. HeapGood /\ UNCHANGED heap => HeapGood'
  BY DEF HeapGood, BreakIsBackedBelowTop, heap
<1> QED BY <1>1, <1>2, <1>3, <1>4, <1>5 DEF Error

LEMMA FinishMmapKeeps ==
  ASSUME IInv, NEW regions, Good(regions), NEW c \in Addr, NEW s \in Addr,
         Whole(c), Whole(s), ~map_fails(regions, c, s), NEW prot \in SUBSET Perm,
         NEW source \in {"file", "anonymous"}, NEW uninitialized \in BOOLEAN,
         NEW rc \in ReadResults(s),
         FinishMmap(map_region(regions, c, s, ReadWrite, "mmap", 0), c, s, prot, source,
                    uninitialized, rc)
  PROVE  Good(m_regions') /\ EndGood'
<1> DEFINE mapped == map_region(regions, c, s, ReadWrite, "mmap", 0)
<1>1. /\ Good(UndoMmap(mapped, c, s))
      /\ ~(source = "file" /\ rc = -1) =>
                  Good(Populate(mapped, c, s, prot, source, uninitialized, rc))
  BY MmapGood
<1>2. c \in -EINVAL .. Space - 1
  BY SpaceAssumption DEF Addr, EINVAL
<1> HIDE DEF mapped
<1>3. CASE source = "file" /\ rc = -1
  <2>1. Error(EBADF) /\ m_regions' = UndoMmap(mapped, c, s)
    BY <1>3 DEF FinishMmap, mapped
  <2> QED BY <1>1, <2>1, Ends, GoodState
<1>4. CASE ~(source = "file" /\ rc = -1)
  <2>1. Return(c) /\ m_regions' = Populate(mapped, c, s, prot, source, uninitialized, rc)
    BY <1>4 DEF FinishMmap, mapped
  <2> QED BY <1>1, <1>2, <1>4, <2>1, Ends, GoodState
<1> QED BY <1>3, <1>4

LEMMA MmapFixedKeeps ==
  ASSUME IInv, NEW addr \in Addr, NEW length \in Addr, NEW prot \in SUBSET Perm,
         NEW noreplace, NEW source \in {"file", "anonymous"}, NEW uninitialized \in BOOLEAN,
         NEW rc, MmapFixed(addr, length, prot, noreplace, source, uninitialized, rc)
  PROVE  MemoryGood' /\ HeapGood' /\ EndGood'
<1> DEFINE size == page_align_up(length)
           address == page_align_down(addr)
           cleared == unmap(m_regions, address, size)
           mapped == map_region(cleared, address, size, ReadWrite, "mmap", 0)
<1>1. /\ size \in Addr /\ Whole(size) /\ address \in Addr /\ Whole(address)
      /\ Good(m_regions) /\ HeapGood /\ MemoryGood /\ EndGood
  BY AlignedArguments, GoodState DEF MemoryGood
<1>2. \/ Error(EINVAL) /\ NoChange
      \/ Error(EEXIST) /\ NoChange
      \/ Stop("aborted")
      \/ Stop("error")
      \/ /\ rc \in ReadResults(size) /\ ~range_aborts(m_regions, address, size)
         /\ ~map_fails(cleared, address, size)
         /\ FinishMmap(mapped, address, size, prot, source, uninitialized, rc)
         /\ UNCHANGED <<m_next_allocation, heap>>
  BY Zenon DEF MmapFixed
<1> HIDE DEF size, address
<1>3. CASE /\ rc \in ReadResults(size) /\ ~range_aborts(m_regions, address, size)
           /\ ~map_fails(cleared, address, size)
           /\ FinishMmap(mapped, address, size, prot, source, uninitialized, rc)
           /\ UNCHANGED <<m_next_allocation, heap>>
  <2>1. Good(cleared)
    BY <1>1, <1>3, UnmapGood
  <2> HIDE DEF cleared
  <2>2. Good(m_regions') /\ EndGood'
    BY <1>1, <1>3, <2>1, FinishMmapKeeps
  <2> QED BY <1>1, <1>3, <2>2, Ends DEF MemoryGood
<1> QED BY <1>1, <1>2, <1>3, Ends

LEMMA MmapAnywhereKeeps ==
  ASSUME IInv, NEW length \in Addr, NEW prot \in SUBSET Perm,
         NEW source \in {"file", "anonymous"}, NEW uninitialized \in BOOLEAN,
         NEW rc, MmapAnywhere(length, prot, source, uninitialized, rc)
  PROVE  MemoryGood' /\ HeapGood' /\ EndGood'
<1> DEFINE size == page_align_up(length)
           mapped(c) == map_region(m_regions, c, size, ReadWrite, "mmap", 0)
<1>1. /\ size \in Addr /\ Whole(size) /\ m_next_allocation \in Addr
      /\ Good(m_regions) /\ HeapGood /\ MemoryGood /\ EndGood
  BY AlignedArguments, GoodState DEF MemoryGood
<1>2. \/ Error(EINVAL) /\ NoChange
      \/ Stop("error")
      \/ \E c \in SearchStops(m_regions, m_next_allocation, size) :
           /\ rc \in ReadResults(size) /\ ~map_fails(m_regions, c, size)
           /\ FinishMmap(mapped(c), c, size, prot, source, uninitialized, rc)
           /\ m_next_allocation' = Wrap(c + size)
           /\ UNCHANGED heap
  BY Zenon DEF MmapAnywhere
<1> HIDE DEF size
<1>3. ASSUME NEW c \in SearchStops(m_regions, m_next_allocation, size),
             rc \in ReadResults(size), ~map_fails(m_regions, c, size),
             FinishMmap(mapped(c), c, size, prot, source, uninitialized, rc),
             m_next_allocation' = Wrap(c + size),
             UNCHANGED heap
      PROVE  MemoryGood' /\ HeapGood' /\ EndGood'
  <2>1. c \in Addr /\ Whole(c)
    BY <1>1, SearchWhole
  <2>2. Good(m_regions') /\ EndGood'
    BY <1>1, <1>3, <2>1, FinishMmapKeeps
  <2>3. m_next_allocation' \in Addr
    BY <1>1, <1>3, <2>1, SpaceAssumption DEF Wrap, Addr
  <2> QED BY <1>1, <1>3, <2>2, <2>3, Ends DEF MemoryGood
<1> QED BY <1>1, <1>2, <1>3, Ends

LEMMA FinishMremapKeeps ==
  ASSUME IInv, NEW mapped, Good(mapped), NEW old \in Addr, NEW old_size \in Addr,
         NEW dest \in Addr, NEW new_size \in Addr, Whole(old), Whole(old_size),
         old_size # 0 => old + old_size < Space, NEW dont_unmap \in BOOLEAN,
         FinishMremap(mapped, old, old_size, dest, new_size, dont_unmap)
  PROVE  HeapGood' /\ EndGood' /\ Good(m_regions')
<1> DEFINE n == Smaller(old_size, new_size)
           copied == write_bytes(mapped, dest, n, Copied(mapped, old, dest, n))
<1>1. HeapGood /\ EndGood /\ MemoryGood
  BY GoodState
<1>2. dest \in -EINVAL .. Space - 1
  BY SpaceAssumption DEF Addr, EINVAL
<1>3. CASE CopyFails(mapped, old, dest, n)
  <2>1. Stop("error")
    BY <1>3 DEF FinishMremap
  <2> QED BY <2>1, Ends DEF MemoryGood
<1>4. CASE ~CopyFails(mapped, old, dest, n)
  <2>1. Good(copied) /\ Good(RemoveOld(copied, old, old_size, new_size))
    BY <1>4, CopyGood
  <2>2. /\ Return(dest) /\ UNCHANGED heap
        /\ m_regions' = IF dont_unmap THEN copied
                        ELSE RemoveOld(copied, old, old_size, new_size)
    BY <1>4 DEF FinishMremap
  <2> HIDE DEF copied, n
  <2>3. Good(m_regions')
    BY <2>1, <2>2
  <2> QED BY <1>1, <1>2, <2>2, <2>3, Ends
<1> QED BY <1>3, <1>4

\* The permissions of a new mapping are those of the region at the old address.
LEMMA OldProt ==
  ASSUME NEW regions, Owned(regions), NEW old \in Addr, Mapped(regions, old)
  PROVE  find_region(regions, old).prot \in SUBSET Perm
<1>1. PICK r \in regions : Contains(r, old)
  BY DEF Mapped
<1>2. find_region(regions, old) = r
  BY <1>1, FlatIn DEF Owned
<1> QED BY <1>2, OwnedRegion, RegionFields

LEMMA MoveFixedKeeps ==
  ASSUME IInv, NEW old \in Addr, NEW old_size \in Addr, NEW new_size \in Addr,
         Whole(old), Whole(old_size), Whole(new_size),
         old_size # 0 => old + old_size < Space,
         NEW dont_unmap \in BOOLEAN, NEW new_addr \in Addr,
         MoveFixed(old, old_size, new_size, dont_unmap, new_addr)
  PROVE  MemoryGood' /\ HeapGood' /\ EndGood'
<1> DEFINE dest == page_align_down(new_addr)
           cleared == unmap(m_regions, dest, new_size)
           prot == find_region(cleared, old).prot
           mapped == map_region(cleared, dest, new_size, prot, "mmap", 0)
<1>1. /\ dest \in Addr /\ Good(m_regions) /\ HeapGood /\ MemoryGood /\ EndGood
  BY AlignType, GoodState DEF MemoryGood
<1>2. \/ Error(EINVAL) /\ NoChange
      \/ Stop("aborted")
      \/ Stop("error")
      \/ /\ ~range_aborts(m_regions, dest, new_size)
         /\ \/ /\ Error(EFAULT) /\ m_regions' = cleared
               /\ UNCHANGED <<m_next_allocation, heap>>
            \/ /\ Mapped(cleared, old) /\ ~map_fails(cleared, dest, new_size)
               /\ FinishMremap(mapped, old, old_size, dest, new_size, dont_unmap)
               /\ UNCHANGED m_next_allocation
  BY Zenon DEF MoveFixed, ClearDestination
<1> HIDE DEF dest
<1>3. ASSUME ~range_aborts(m_regions, dest, new_size) PROVE Good(cleared)
  BY <1>1, <1>3, UnmapGood
<1>4. CASE /\ ~range_aborts(m_regions, dest, new_size)
           /\ Error(EFAULT) /\ m_regions' = cleared
           /\ UNCHANGED <<m_next_allocation, heap>>
  BY <1>1, <1>3, <1>4, Ends DEF MemoryGood
<1>5. CASE /\ ~range_aborts(m_regions, dest, new_size)
           /\ Mapped(cleared, old) /\ ~map_fails(cleared, dest, new_size)
           /\ FinishMremap(mapped, old, old_size, dest, new_size, dont_unmap)
           /\ UNCHANGED m_next_allocation
  <2>1. Good(cleared)
    BY <1>3, <1>5
  <2> HIDE DEF cleared
  <2>2. prot \in SUBSET Perm
    BY <1>5, <2>1, OldProt DEF Good
  <2> HIDE DEF prot
  <2>3. Good(mapped)
    BY <1>1, <1>5, <2>1, <2>2, Arguments, MapGood
  <2> HIDE DEF mapped
  <2>4. HeapGood' /\ EndGood' /\ Good(m_regions')
    BY <1>1, <1>5, <2>3, FinishMremapKeeps
  <2> QED BY <1>1, <1>5, <2>4 DEF MemoryGood
<1> HIDE DEF cleared, mapped
<1> QED BY <1>1, <1>2, <1>4, <1>5, Ends

LEMMA MoveAnywhereKeeps ==
  ASSUME IInv, NEW old \in Addr, NEW old_size \in Addr, NEW new_size \in Addr,
         Whole(old), Whole(old_size), Whole(new_size),
         old_size # 0 => old + old_size < Space, Mapped(m_regions, old),
         NEW dont_unmap \in BOOLEAN,
         MoveAnywhere(old, old_size, new_size, dont_unmap)
  PROVE  MemoryGood' /\ HeapGood' /\ EndGood'
<1> DEFINE prot == find_region(m_regions, old).prot
           mapped(c) == map_region(m_regions, c, new_size, prot, "mmap", 0)
<1>1. /\ m_next_allocation \in Addr /\ Good(m_regions) /\ HeapGood /\ MemoryGood /\ EndGood
  BY GoodState DEF MemoryGood
<1>2. \/ Stop("error")
      \/ \E c \in SearchStops(m_regions, m_next_allocation, new_size) :
           /\ ~map_fails(m_regions, c, new_size)
           /\ FinishMremap(mapped(c), old, old_size, c, new_size, dont_unmap)
           /\ m_next_allocation' \in {Wrap(c + new_size), m_next_allocation}
  BY DEF MoveAnywhere
<1>3. prot \in SUBSET Perm
  BY <1>1, OldProt DEF Good
<1> HIDE DEF prot
<1>4. ASSUME NEW c \in SearchStops(m_regions, m_next_allocation, new_size),
             ~map_fails(m_regions, c, new_size),
             FinishMremap(mapped(c), old, old_size, c, new_size, dont_unmap),
             m_next_allocation' \in {Wrap(c + new_size), m_next_allocation}
      PROVE  MemoryGood' /\ HeapGood' /\ EndGood'
  <2>1. c \in Addr
    BY <1>1, SearchWhole
  <2>2. Good(mapped(c))
    BY <1>1, <1>3, <1>4, <2>1, Arguments, MapGood
  <2> HIDE DEF mapped
  <2>3. HeapGood' /\ EndGood' /\ Good(m_regions')
    BY <1>4, <2>1, <2>2, FinishMremapKeeps
  <2>4. m_next_allocation' \in Addr
    BY <1>1, <1>4, <2>1, SpaceAssumption DEF Wrap, Addr
  <2> QED BY <2>3, <2>4 DEF MemoryGood
<1> QED BY <1>2, <1>4, Ends

\* What mremap knows of its arguments once it has looked them up.
LEMMA MremapArguments ==
  ASSUME NEW regions, Owned(regions), NEW old \in Addr, NEW old_length \in Addr,
         NEW new_length \in Addr, old % PageSize = 0,
         is_mapped(regions, old,
                   IF page_align_up(old_length) = 0 THEN 1 ELSE page_align_up(old_length))
  PROVE  /\ page_align_up(old_length) \in Addr /\ Whole(page_align_up(old_length))
         /\ page_align_up(new_length) \in Addr /\ Whole(page_align_up(new_length))
         /\ Whole(old) /\ Mapped(regions, old)
         /\ page_align_up(old_length) # 0 => old + page_align_up(old_length) < Space
<1> DEFINE s == page_align_up(old_length)
           n == IF s = 0 THEN 1 ELSE s
<1>1. s \in Addr /\ Whole(s)
  BY AlignedArguments
<1> HIDE DEF s
<1>2. n \in Addr /\ n # 0
  BY <1>1, Arguments
<1>3. is_mapped(regions, old, n)
  BY DEF s
<1> HIDE DEF n
<1>4. old + n < Space /\ Mapped(regions, old)
  BY <1>2, <1>3, MappedRange
<1>5. s # 0 => old + s < Space
  BY <1>4 DEF n
<1> QED BY <1>1, <1>4, <1>5, AlignedArguments DEF s, Whole

\* mremap to a smaller size unmaps the tail.
LEMMA ShrinkRange ==
  ASSUME NEW old \in Addr, NEW old_size \in Addr, NEW new_size \in Addr,
         Whole(old), Whole(old_size), Whole(new_size), old + old_size < Space,
         new_size < old_size
  PROVE  /\ Wrap(old + new_size) = old + new_size
         /\ old + new_size \in Addr /\ Whole(old + new_size)
         /\ old_size - new_size \in Addr /\ Whole(old_size - new_size)
         /\ (old + new_size) + (old_size - new_size) = old + old_size
         /\ \A regions : ~range_aborts(regions, old + new_size, old_size - new_size)
<1> DEFINE b == old + new_size
           s == old_size - new_size
<1>1. /\ old \in Int /\ new_size \in Int /\ old_size \in Int
      /\ b \in Addr /\ s \in Addr /\ b + s < Space /\ b + s = old + old_size /\ Wrap(b) = b
  BY SpaceAssumption DEF Addr, Wrap
<1>2. Whole(b) /\ Whole(s)
  BY <1>1, WholeSum
<1> HIDE DEF b, s
<1>3. \A regions : ~range_aborts(regions, b, s)
  BY <1>1, <1>2, AlignedRange
<1> QED BY <1>1, <1>2, <1>3 DEF b, s

LEMMA MremapKeeps ==
  ASSUME IInv, NEW old \in Addr, NEW old_length \in Addr, NEW new_length \in Addr,
         NEW flags, NEW new_addr \in Addr,
         Mremap(old, old_length, new_length, flags, new_addr)
  PROVE  MemoryGood' /\ HeapGood' /\ EndGood'
<1> DEFINE old_size == page_align_up(old_length)
           new_size == page_align_up(new_length)
           dont_unmap == "DONTUNMAP" \in flags
           looked == is_mapped(m_regions, old, IF old_size = 0 THEN 1 ELSE old_size)
           b == Wrap(old + new_size)
           s == old_size - new_size
<1>1. Good(m_regions) /\ HeapGood /\ MemoryGood /\ EndGood
  BY GoodState DEF MemoryGood
<1>2. \/ Error(EINVAL) /\ NoChange
      \/ Error(EFAULT) /\ NoChange
      \/ Error(ENOMEM) /\ NoChange
      \/ /\ old % PageSize = 0 /\ looked
         /\ \/ MoveFixed(old, old_size, new_size, dont_unmap, new_addr)
            \/ /\ new_size < old_size
               /\ Return(old) /\ m_regions' = unmap(m_regions, b, s)
               /\ UNCHANGED <<m_next_allocation, heap>>
            \/ Return(old) /\ NoChange
            \/ MoveAnywhere(old, old_size, new_size, dont_unmap)
  BY Zenon DEF Mremap
<1>3. old \in -EINVAL .. Space - 1
  BY SpaceAssumption DEF Addr, EINVAL
<1>4. ASSUME old % PageSize = 0, looked
      PROVE  /\ old_size \in Addr /\ Whole(old_size) /\ new_size \in Addr /\ Whole(new_size)
             /\ Whole(old) /\ Mapped(m_regions, old)
             /\ old_size # 0 => old + old_size < Space
  BY <1>1, <1>4, MremapArguments DEF Good
<1>5. dont_unmap \in BOOLEAN
  OBVIOUS
<1> HIDE DEF old_size, new_size, dont_unmap, looked
<1>6. CASE /\ old % PageSize = 0 /\ looked
           /\ MoveFixed(old, old_size, new_size, dont_unmap, new_addr)
  BY <1>4, <1>5, <1>6, MoveFixedKeeps
<1>7. CASE /\ old % PageSize = 0 /\ looked
           /\ MoveAnywhere(old, old_size, new_size, dont_unmap)
  BY <1>4, <1>5, <1>7, MoveAnywhereKeeps
<1>8. CASE /\ old % PageSize = 0 /\ looked /\ new_size < old_size
           /\ Return(old) /\ m_regions' = unmap(m_regions, b, s)
           /\ UNCHANGED <<m_next_allocation, heap>>
  <2>1. old_size \in Addr /\ new_size \in Addr /\ old_size # 0 /\ old + old_size < Space
    BY <1>4, <1>8, SpaceAssumption DEF Addr
  <2>2. b \in Addr /\ s \in Addr /\ ~range_aborts(m_regions, b, s)
    BY <1>4, <1>8, <2>1, ShrinkRange
  <2> HIDE DEF b, s
  <2>3. Good(m_regions')
    BY <1>1, <1>8, <2>2, UnmapGood
  <2> QED BY <1>1, <1>3, <1>8, <2>3, Ends DEF MemoryGood
<1>9. CASE Return(old) /\ NoChange
  BY <1>1, <1>3, <1>9, Ends
<1> QED BY <1>1, <1>2, <1>6, <1>7, <1>8, <1>9, Ends

LEMMA BrkKeeps ==
  ASSUME IInv, NEW requested \in Addr, Brk(requested)
  PROVE  MemoryGood' /\ HeapGood' /\ EndGood'
<1> DEFINE new_end == page_align_up(requested)
           missing == new_end - m_brk_region_end
           grows == requested > m_brk_region_end /\ new_end > m_brk_region_end
<1>1. Good(m_regions) /\ HeapGood /\ MemoryGood /\ EndGood
  BY GoodState DEF MemoryGood
<1>2. /\ m_brk \in Addr /\ m_brk_region_end \in Addr /\ m_brk_region_end >= BrkStart
      /\ new_end \in Addr /\ BrkStart \in Addr
  BY <1>1, AlignedArguments, Arguments DEF HeapGood
<1>3. \/ Return(m_brk) /\ NoChange
      \/ Stop("error")
      \/ /\ ~(requested < BrkStart) /\ Return(requested)
         /\ m_brk' = requested
         /\ m_brk_region_end' = IF grows THEN new_end ELSE m_brk_region_end
         /\ grows => ~map_fails(m_regions, m_brk_region_end, missing)
         /\ m_regions' = IF grows
                         THEN map_region(m_regions, m_brk_region_end, missing,
                                         ReadWrite, "simple", 0)
                         ELSE m_regions
         /\ UNCHANGED m_next_allocation
  BY DEF Brk, HeapEnd
<1>4. m_brk \in -EINVAL .. Space - 1 /\ requested \in -EINVAL .. Space - 1
  BY <1>2, SpaceAssumption DEF Addr, EINVAL
<1>5. /\ PageSize \in Nat /\ Space \in Nat
      /\ requested <= Space - PageSize => requested <= new_end
  BY UpWhole, PageSizeAssumption, SpaceAssumption
<1> HIDE DEF new_end
<1>6. CASE /\ ~(requested < BrkStart) /\ Return(requested)
           /\ m_brk' = requested
           /\ m_brk_region_end' = IF grows THEN new_end ELSE m_brk_region_end
           /\ grows => ~map_fails(m_regions, m_brk_region_end, missing)
           /\ m_regions' = IF grows
                           THEN map_region(m_regions, m_brk_region_end, missing,
                                           ReadWrite, "simple", 0)
                           ELSE m_regions
           /\ UNCHANGED m_next_allocation
  <2>1. grows => missing \in Addr
    BY <1>2, SpaceAssumption DEF Addr
  <2> HIDE DEF missing
  <2>2. Good(m_regions')
    BY <1>1, <1>2, <1>6, <2>1, Arguments, MapGood
  <2>3. /\ m_brk' \in Addr /\ m_brk' >= BrkStart
        /\ m_brk_region_end' \in Addr /\ m_brk_region_end' >= BrkStart
    BY <1>2, <1>6, SpaceAssumption DEF Addr
  <2>4. m_brk' <= m_brk_region_end' \/ m_brk' > Space - PageSize
    BY <1>2, <1>5, <1>6, SpaceAssumption DEF Addr
  <2>5. HeapGood'
    BY <2>3, <2>4 DEF HeapGood, BreakIsBackedBelowTop
  <2> QED BY <1>1, <1>4, <1>6, <2>2, <2>5, Ends DEF MemoryGood
<1> QED BY <1>1, <1>3, <1>4, <1>6, Ends

LEMMA MunmapKeeps ==
  ASSUME IInv, NEW addr \in Addr, NEW length \in Addr, Munmap(addr, length)
  PROVE  MemoryGood' /\ HeapGood' /\ EndGood'
<1>1. Good(m_regions) /\ HeapGood /\ MemoryGood /\ EndGood /\ 0 \in -EINVAL .. Space - 1
  BY GoodState, SpaceAssumption DEF MemoryGood, EINVAL
<1>2. CASE range_aborts(m_regions, addr, length)
  BY <1>2, Ends DEF Munmap
<1>3. CASE ~range_aborts(m_regions, addr, length)
  <2>1. Good(m_regions')
    BY <1>1, <1>3, UnmapGood DEF Munmap
  <2> QED BY <1>1, <1>3, <2>1, Ends DEF Munmap, MemoryGood
<1> QED BY <1>2, <1>3

LEMMA MprotectKeeps ==
  ASSUME IInv, NEW addr \in Addr, NEW length \in Addr, NEW prot \in SUBSET Perm,
         Mprotect(addr, length, prot)
  PROVE  MemoryGood' /\ HeapGood' /\ EndGood'
<1>1. Good(m_regions) /\ HeapGood /\ MemoryGood /\ EndGood /\ 0 \in -EINVAL .. Space - 1
  BY GoodState, SpaceAssumption DEF MemoryGood, EINVAL
<1>2. CASE range_aborts(m_regions, addr, length)
  BY <1>2, Ends DEF Mprotect
<1>3. CASE ~range_aborts(m_regions, addr, length)
  <2>1. Good(m_regions')
    BY <1>1, <1>3, ProtectGood DEF Mprotect
  <2> QED BY <1>1, <1>3, <2>1, Ends DEF Mprotect, MemoryGood
<1> QED BY <1>2, <1>3

LEMMA StoreKeeps ==
  ASSUME IInv, NEW address \in Addr, Store(address)
  PROVE  MemoryGood' /\ HeapGood' /\ EndGood'
<1>1. Good(m_regions) /\ HeapGood /\ MemoryGood /\ EndGood
  BY GoodState DEF MemoryGood
<1>2. CASE write_fails(m_regions, address, 1)
  BY <1>2, Ends DEF Store
<1>3. CASE ~write_fails(m_regions, address, 1)
  <2>1. Good(write_bytes(m_regions, address, 1, FileBytes(1)))
    BY <1>1, Arguments, FileStrings, WriteGood
  <2> QED BY <1>1, <1>3, <2>1, Ends DEF Store, MemoryGood, EndGood
<1> QED BY <1>2, <1>3

LEMMA MmapKeeps ==
  ASSUME IInv, NEW length \in Addr, NEW prot \in SUBSET Perm, NEW options, NEW rc,
         Mmap(length, prot, options, rc)
  PROVE  MemoryGood' /\ HeapGood' /\ EndGood'
<1> DEFINE source == IF "FILE" \in options THEN "file" ELSE "anonymous"
           uninitialized == "UNINITIALIZED" \in options
<1>1. source \in {"file", "anonymous"} /\ uninitialized \in BOOLEAN
  OBVIOUS
<1>2. \/ MmapAnywhere(length, prot, source, uninitialized, rc)
      \/ \E addr \in Targets, noreplace \in BOOLEAN :
           MmapFixed(addr, length, prot, noreplace, source, uninitialized, rc)
  BY DEF Mmap
<1> HIDE DEF source, uninitialized
<1> QED BY <1>1, <1>2, Arguments, MmapAnywhereKeeps, MmapFixedKeeps

LEMMA Step == IInv /\ [Next]_vars => IInv'
<1> SUFFICES ASSUME IInv, [Next]_vars PROVE MemoryGood' /\ HeapGood' /\ EndGood'
  BY GoodNext
<1>1. CASE UNCHANGED vars
  BY <1>1, GoodState
     DEF vars, memory, heap, MemoryGood, HeapGood, EndGood, BreakIsBackedBelowTop
<1>2. CASE Next
  BY <1>2, Arguments, MmapKeeps, MunmapKeeps, MprotectKeeps, MremapKeeps, BrkKeeps, StoreKeeps
     DEF Next
<1> QED BY <1>1, <1>2

LEMMA InitGood == Init => IInv
BY MemoryArguments, PageSizeAssumption, SpaceAssumption
   DEF Init, IInv, TypeOK, BreakIsBackedBelowTop, Addr, EINVAL

\* The region list stays well formed, owned and made of whole pages through system
\* calls that unmap, map, copy and protect in one go, and the break stays an address
\* above m_brk_start.
THEOREM TypeCorrect == Spec => []TypeOK
BY InitGood, Step, PTL DEF Spec, IInv

\* "Map more zeroed heap pages if the requested break extends past the mapped region"
\* (Emulator.cpp:298): the break never lies past the heap's mapped pages, except in
\* the last page of the address space.
THEOREM BreakBacked == Spec => []BreakIsBackedBelowTop
BY InitGood, Step, PTL DEF Spec, IInv

-----------------------------------------------------------------------------
(* What mmap does to the bytes.                                            *)

\* The bytes of a range that ends inside the address space.
LEMMA PlainRange ==
  ASSUME NEW c \in Addr, NEW n \in Nat, c + n < Space
  PROVE  /\ Bytes(c, n) = c .. c + n - 1
         /\ \A i \in 0 .. n - 1 : Wrap(c + i) = c + i /\ c + i \in Addr
         /\ \A a \in Addr : Distance(c, a) \in 0 .. n - 1 <=> a \in c .. c + n - 1
         /\ \A a \in c .. c + n - 1 : a \in Addr /\ Distance(c, a) = a - c
<1>0. c \in Nat /\ Space \in Nat /\ c < Space
  BY SpaceAssumption DEF Addr
<1>1. \A i \in 0 .. n - 1 : Wrap(c + i) = c + i /\ c + i \in Addr
  BY <1>0 DEF Wrap, Addr
<1>2. Bytes(c, n) = c .. c + n - 1
  <2>1. \A a \in Bytes(c, n) : a \in c .. c + n - 1
    BY <1>0, <1>1 DEF Bytes
  <2>2. ASSUME NEW a \in c .. c + n - 1 PROVE a \in Bytes(c, n)
    <3>1. a - c \in 0 .. n - 1 /\ c + (a - c) = a
      BY <1>0
    <3>2. Wrap(c + (a - c)) = a
      BY <1>1, <3>1
    <3> QED BY <3>1, <3>2 DEF Bytes
  <2> QED BY <2>1, <2>2
<1>3. \A a \in Addr : Distance(c, a) \in 0 .. n - 1 <=> a \in c .. c + n - 1
  BY <1>0 DEF Distance, Addr
<1>4. \A a \in c .. c + n - 1 : a \in Addr /\ Distance(c, a) = a - c
  BY <1>0 DEF Distance, Addr
<1> QED BY <1>1, <1>2, <1>3, <1>4

\* An access to bytes that all have the permission reaches all of them.
LEMMA ReachedAll ==
  ASSUME NEW regions, Owned(regions), NEW c \in Addr, NEW n \in Nat, c + n < Space, NEW perm,
         \A a \in c .. c + n - 1 : perm \in FlatByte(regions, a).prot
  PROVE  Reached(regions, c, n, perm) = 0 .. n - 1
<1>1. \A j \in 0 .. n - 1 : Wrap(c + j) \in c .. c + n - 1 /\ Wrap(c + j) \in Addr
  BY SpaceAssumption DEF Addr, Wrap
<1>2. \A j \in 0 .. n - 1 : Accessible(regions, Wrap(c + j), perm)
  BY <1>1, AccessibleView DEF Owned
<1> QED BY <1>2 DEF Reached

\* A byte of a new mapping.
Fresh(prot, i, cell) ==
  [mapped |-> TRUE, prot |-> prot, kind |-> "mmap", offset |-> i, cell |-> cell]

LEMMA FreshParts ==
  /\ \A p, i, cell : /\ Fresh(p, i, cell).mapped /\ Fresh(p, i, cell).prot = p
                     /\ Fresh(p, i, cell).offset = i /\ Fresh(p, i, cell).cell = cell
  /\ \A p, q, i, cell : Protected(Fresh(p, i, cell), q) = Fresh(q, i, cell)
  /\ \A p, i, cell, new : Stored(Fresh(p, i, cell), new) = Fresh(p, i, new)
BY DEF Fresh, Protected, Stored

FileCell == [value |-> 1, initialized |-> TRUE]
Unmarked(cell) == [value |-> cell.value, initialized |-> FALSE]

\* Byte i of a mapping of a file of which rc bytes could be read, before and after
\* MAP_UNINITIALIZED has been looked at.
Content(source, rc, i) == IF source = "file" /\ i < rc THEN FileCell ELSE ZeroCell

Final(source, rc, uninitialized, i) ==
  IF uninitialized THEN Unmarked(Content(source, rc, i)) ELSE Content(source, rc, i)

LEMMA NewMapping ==
  ASSUME NEW regions, Good(regions), NEW c \in Addr, NEW s \in Addr, Whole(c), Whole(s),
         ~map_fails(regions, c, s), NEW prot \in SUBSET Perm, NEW a \in Addr
  PROVE  /\ c + s < Space
         /\ a \in c .. c + s - 1 => FlatByte(regions, a) = Nothing
         /\ FlatByte(map_region(regions, c, s, prot, "mmap", 0), a)
              = IF a \in c .. c + s - 1 THEN Fresh(prot, a - c, ZeroCell)
                                        ELSE FlatByte(regions, a)
<1>1. c + s < Space /\ PageSpan(c, s) = c .. c + s - 1 /\ page_align_down(c) = c
  BY AlignedRange, FitsBelowTop
<1>2. PICK kind \in Kind, file_offset \in Addr : kind = "mmap" /\ file_offset = 0
  BY Arguments
<1>3. /\ a \in PageSpan(c, s) => ~Mapped(regions, a)
      /\ FlatByte(map_region(regions, c, s, prot, kind, file_offset), a)
              = IF a \in PageSpan(c, s)
                THEN [mapped |-> TRUE, prot |-> prot, kind |-> kind,
                      offset |-> IF kind = "mmap"
                                 THEN Wrap(file_offset + (a - page_align_down(c))) ELSE 0,
                      cell |-> ZeroCell]
                ELSE FlatByte(regions, a)
  BY MapView DEF Good
<1>4. a \in c .. c + s - 1 => Wrap(file_offset + (a - page_align_down(c))) = a - c
  BY <1>1, <1>2, SpaceAssumption DEF Wrap, Addr
<1>5. a \in c .. c + s - 1 => FlatByte(regions, a) = Nothing
  BY <1>1, <1>3, FlatOut
<1>6. CASE a \in c .. c + s - 1
  BY <1>1, <1>2, <1>3, <1>4, <1>5, <1>6 DEF Fresh
<1>7. CASE a \notin c .. c + s - 1
  BY <1>1, <1>2, <1>3, <1>7
<1> QED BY <1>6, <1>7

LEMMA UndoView ==
  ASSUME NEW regions, Good(regions), NEW c \in Addr, NEW s \in Addr, Whole(c), Whole(s),
         ~map_fails(regions, c, s), NEW a \in Addr
  PROVE  FlatByte(UndoMmap(map_region(regions, c, s, ReadWrite, "mmap", 0), c, s), a)
           = FlatByte(regions, a)
<1> DEFINE mapped == map_region(regions, c, s, ReadWrite, "mmap", 0)
<1>1. Good(mapped)
  BY MapGood, Arguments
<1>a. ReadWrite \in SUBSET Perm
  BY Arguments
<1>b. /\ c + s < Space
      /\ a \in c .. c + s - 1 => FlatByte(regions, a) = Nothing
      /\ FlatByte(mapped, a) = IF a \in c .. c + s - 1 THEN Fresh(ReadWrite, a - c, ZeroCell)
                               ELSE FlatByte(regions, a)
  BY <1>a, NewMapping
<1>2. /\ c + s < Space
      /\ a \in c .. c + s - 1 => FlatByte(regions, a) = Nothing
      /\ a \notin c .. c + s - 1 => FlatByte(mapped, a) = FlatByte(regions, a)
  BY <1>b, Zenon
<1>3. PageSpan(c, s) = c .. c + s - 1 /\ ~range_aborts(mapped, c, s)
  BY <1>2, AlignedRange
<1> HIDE DEF mapped
<1>4. FlatByte(unmap(mapped, c, s), a)
        = IF a \in PageSpan(c, s) THEN Nothing ELSE FlatByte(mapped, a)
  BY <1>1, <1>3, UnmapView DEF Good
<1>5. FlatByte(unmap(mapped, c, s), a) = FlatByte(regions, a)
  BY <1>2, <1>3, <1>4
<1> QED BY <1>5 DEF UndoMmap, mapped

\* What Populate leaves at an address.
PopulatedAt(regions, c, s, prot, source, uninitialized, rc, a) ==
  FlatByte(Populate(map_region(regions, c, s, ReadWrite, "mmap", 0), c, s, prot,
                    source, uninitialized, rc), a)
    = IF a \in c .. c + s - 1
      THEN Fresh(prot, a - c, Final(source, rc, uninitialized, a - c))
      ELSE FlatByte(regions, a)

LEMMA PopulateView ==
  ASSUME NEW regions, Good(regions), NEW c \in Addr, NEW s \in Addr, Whole(c), Whole(s),
         ~map_fails(regions, c, s), NEW prot \in SUBSET Perm,
         NEW source \in {"file", "anonymous"}, NEW uninitialized \in BOOLEAN,
         NEW rc \in 0 .. s, NEW a \in Addr
  PROVE  PopulatedAt(regions, c, s, prot, source, uninitialized, rc, a)
<1> DEFINE mapped == map_region(regions, c, s, ReadWrite, "mmap", 0)
           filled == IF source = "file" THEN write_bytes(mapped, c, rc, FileBytes(rc))
                                        ELSE mapped
           marked == IF uninitialized THEN mark_initialized(filled, c, s, FALSE) ELSE filled
           S == c .. c + s - 1
<1>0. c + s < Space /\ s \in Nat /\ rc \in Nat /\ rc \in Addr /\ c + rc < Space /\ c \in Nat
  <2>1. c + s < Space
    BY AlignedRange, FitsBelowTop
  <2> QED BY <2>1, SpaceAssumption DEF Addr
<1>1. Good(mapped)
  BY MapGood, Arguments
<1>2. \A x \in Addr : FlatByte(mapped, x) =
        IF x \in S THEN Fresh(ReadWrite, x - c, ZeroCell) ELSE FlatByte(regions, x)
  <2>1. ReadWrite \in SUBSET Perm
    BY Arguments
  <2> QED BY <2>1, NewMapping
<1> HIDE DEF mapped
<1>3. Good(filled)
  BY <1>0, <1>1, WriteGood, FileStrings
<1>4. ASSUME NEW x \in Addr
      PROVE  FlatByte(filled, x) =
               IF x \in S THEN Fresh(ReadWrite, x - c, Content(source, rc, x - c))
                          ELSE FlatByte(regions, x)
  <2>1. CASE source # "file"
    BY <1>2, <2>1 DEF Content
  <2>2. CASE source = "file"
    <3> DEFINE d == Distance(c, x)
    <3>1. Reached(mapped, c, rc, "W") = 0 .. rc - 1
      <4>1. \A y \in c .. c + rc - 1 : y \in Addr /\ y \in S
        BY <1>0, SpaceAssumption DEF Addr
      <4>2. \A y \in c .. c + rc - 1 : "W" \in FlatByte(mapped, y).prot
        BY <1>2, <4>1, FreshParts DEF ReadWrite
      <4> QED BY <1>0, <1>1, <4>2, ReachedAll DEF Good
    <3>2. d \in 0 .. rc - 1 <=> x \in c .. c + rc - 1
      BY <1>0, PlainRange
    <3>3. d \in 0 .. rc - 1 => FileBytes(rc)[d] = FileCell
      BY DEF FileBytes, FileCell
    <3>4. FlatByte(write_bytes(mapped, c, rc, FileBytes(rc)), x)
            = IF d \in Reached(mapped, c, rc, "W")
              THEN Stored(FlatByte(mapped, x), FileBytes(rc)[d]) ELSE FlatByte(mapped, x)
      BY <1>0, <1>1, FileStrings, WriteView DEF Good
    <3> HIDE DEF d
    <3>5. CASE x \in c .. c + rc - 1
      <4>1. x \in S /\ x - c < rc
        BY <1>0, <3>5
      <4>2. FlatByte(filled, x) = Stored(Fresh(ReadWrite, x - c, ZeroCell), FileCell)
        BY <1>2, <2>2, <3>1, <3>2, <3>3, <3>4, <3>5, <4>1
      <4> QED BY <2>2, <4>1, <4>2, FreshParts DEF Content
    <3>6. CASE x \notin c .. c + rc - 1
      <4>1. FlatByte(filled, x) = FlatByte(mapped, x)
        BY <2>2, <3>1, <3>2, <3>4, <3>6
      <4>2. x \in S => ~(x - c < rc)
        BY <1>0, <3>6
      <4> QED BY <1>2, <4>1, <4>2 DEF Content
    <3> QED BY <3>5, <3>6
  <2> QED BY <2>1, <2>2
<1> HIDE DEF filled
<1>5. Good(marked)
  BY <1>3, MarkGood
<1>6. ASSUME NEW x \in Addr
      PROVE  FlatByte(marked, x) =
               IF x \in S
               THEN Fresh(ReadWrite, x - c, Final(source, rc, uninitialized, x - c))
               ELSE FlatByte(regions, x)
  <2>1. CASE ~uninitialized
    BY <1>4, <2>1 DEF Final
  <2>2. CASE uninitialized
    <3> DEFINE d == Distance(c, x)
               old == FlatByte(filled, x)
    <3>1. Reached(filled, c, s, "R") = 0 .. s - 1
      <4>1. \A y \in S : y \in Addr
        BY <1>0, SpaceAssumption DEF Addr
      <4>2. \A y \in S : "R" \in FlatByte(filled, y).prot
        BY <1>4, <4>1, FreshParts DEF ReadWrite
      <4> QED BY <1>0, <1>3, <4>2, ReachedAll DEF Good
    <3>2. d \in 0 .. s - 1 <=> x \in S
      BY <1>0, PlainRange
    <3>3. FlatByte(mark_initialized(filled, c, s, FALSE), x)
            = IF d \in Reached(filled, c, s, "R")
              THEN Stored(old, Unmarked(old.cell)) ELSE old
      <4>1. PICK b \in BOOLEAN : b = FALSE
        OBVIOUS
      <4>2. FlatByte(mark_initialized(filled, c, s, b), x)
              = IF d \in Reached(filled, c, s, "R")
                THEN Stored(old, [value |-> old.cell.value, initialized |-> b]) ELSE old
        BY <1>3, MarkView DEF Good
      <4> QED BY <4>1, <4>2 DEF Unmarked
    <3>4. FlatByte(marked, x) =
            IF x \in S THEN Stored(old, Unmarked(old.cell)) ELSE old
      BY <2>2, <3>1, <3>2, <3>3
    <3> HIDE DEF d, marked
    <3>5. CASE x \in S
      <4>1. old = Fresh(ReadWrite, x - c, Content(source, rc, x - c))
        BY <1>4, <3>5
      <4>2. FlatByte(marked, x)
              = Fresh(ReadWrite, x - c, Unmarked(Content(source, rc, x - c)))
        BY <3>4, <3>5, <4>1, FreshParts
      <4> QED BY <2>2, <3>5, <4>2 DEF Final
    <3>6. CASE x \notin S
      BY <1>4, <3>4, <3>6
    <3> QED BY <3>5, <3>6
  <2> QED BY <2>1, <2>2
<1> HIDE DEF marked
<1>7. PageSpan(c, s) = S /\ ~range_aborts(marked, c, s)
  BY <1>0, AlignedRange
<1>8. FlatByte(protect(marked, c, s, prot), a)
        = IF a \in PageSpan(c, s) /\ Mapped(marked, a)
          THEN Protected(FlatByte(marked, a), prot) ELSE FlatByte(marked, a)
  BY <1>5, <1>7, ProtectView DEF Good
<1>9. a \in S => Mapped(marked, a)
  BY <1>6, FlatMapped, FreshParts
<1>10. FlatByte(protect(marked, c, s, prot), a) =
         IF a \in S THEN Fresh(prot, a - c, Final(source, rc, uninitialized, a - c))
                    ELSE FlatByte(regions, a)
  <2>1. CASE a \in S
    <3>1. FlatByte(protect(marked, c, s, prot), a) = Protected(FlatByte(marked, a), prot)
      BY <1>7, <1>8, <1>9, <2>1
    <3>2. FlatByte(marked, a)
            = Fresh(ReadWrite, a - c, Final(source, rc, uninitialized, a - c))
      BY <1>6, <2>1
    <3> QED BY <2>1, <3>1, <3>2, FreshParts
  <2>2. CASE a \notin S
    BY <1>6, <1>7, <1>8, <2>2
  <2> QED BY <2>1, <2>2
<1> QED BY <1>10 DEF PopulatedAt, Populate, marked, filled, mapped

\* The outcomes of an mmap of s bytes at c, byte by byte: nothing has changed, the
\* range is not mapped any more, or the range is a new mapping.
Untouched == \A a \in Addr : Later(a) = Earlier(a)

Lost(c, s) == \A a \in Addr : Later(a) = IF a \in c .. c + s - 1 THEN Nothing ELSE Earlier(a)

Made(c, s, prot, source, uninitialized, rc) ==
  \A a \in Addr : Later(a) = IF a \in c .. c + s - 1
                             THEN Fresh(prot, a - c, Final(source, rc, uninitialized, a - c))
                             ELSE Earlier(a)

\* No byte of the range was mapped.
WasFree(c, s) == \A a \in c .. c + s - 1 : Earlier(a) = Nothing

\* A call that has changed nothing has returned an error or ended the emulator.
Refused == Untouched /\ (ret' < 0 \/ status' # "running")

LEMMA Unchanged == m_regions' = m_regions => Untouched
BY DEF Untouched, Later, Earlier

LEMMA Refusals ==
  /\ \A errno \in {EBADF, ENOMEM, EFAULT, EEXIST, EINVAL} : Error(errno) /\ NoChange => Refused
  /\ \A errno \in {EBADF, ENOMEM, EFAULT, EEXIST, EINVAL} : Error(errno) => ret' < 0
  /\ \A how \in {"error", "aborted"} : Stop(how) => Refused /\ status' # "running"
<1>1. \A errno \in {EBADF, ENOMEM, EFAULT, EEXIST, EINVAL} : Error(errno) => ret' < 0
  BY DEF Error, Return, EBADF, ENOMEM, EFAULT, EEXIST, EINVAL
<1>2. NoChange => m_regions' = m_regions
  BY DEF NoChange, memory
<1>3. \A how \in {"error", "aborted"} : Stop(how) => m_regions' = m_regions /\ status' # "running"
  BY DEF Stop, memory
<1> QED BY <1>1, <1>2, <1>3, Unchanged DEF Refused

\* The mapping begins with a range that holds nothing.
Cleared(regions, c, s) ==
  \A a \in Addr : FlatByte(regions, a)
                    = IF a \in c .. c + s - 1 THEN Nothing ELSE Earlier(a)

\* How an mmap that has found its place may end.
Finished(c, s, prot, source, uninitialized, rc) ==
  \/ ret' < 0 /\ Lost(c, s)
  \/ ret' = c /\ rc \in 0 .. s /\ Made(c, s, prot, source, uninitialized, rc)

LEMMA FinishMmapEffect ==
  ASSUME NEW regions, Good(regions), NEW c \in Addr, NEW s \in Addr,
         Whole(c), Whole(s), ~map_fails(regions, c, s), NEW prot \in SUBSET Perm,
         NEW source \in {"file", "anonymous"}, NEW uninitialized \in BOOLEAN,
         NEW rc \in ReadResults(s), source = "anonymous" => rc = 0,
         FinishMmap(map_region(regions, c, s, ReadWrite, "mmap", 0), c, s, prot, source,
                    uninitialized, rc),
         Cleared(regions, c, s)
  PROVE  Finished(c, s, prot, source, uninitialized, rc)
<1> DEFINE mapped == map_region(regions, c, s, ReadWrite, "mmap", 0)
<1>1. CASE source = "file" /\ rc = -1
  <2>1. Error(EBADF) /\ m_regions' = UndoMmap(mapped, c, s)
    BY <1>1 DEF FinishMmap
  <2>2. \A a \in Addr : FlatByte(UndoMmap(mapped, c, s), a) = FlatByte(regions, a)
    BY UndoView
  <2> HIDE DEF mapped
  <2> QED BY <2>1, <2>2, Refusals DEF Lost, Later, Cleared, Finished
<1>2. CASE ~(source = "file" /\ rc = -1)
  <2>1. Return(c) /\ m_regions' = Populate(mapped, c, s, prot, source, uninitialized, rc)
    BY <1>2 DEF FinishMmap
  <2>2. rc \in 0 .. s
    BY <1>2, SpaceAssumption DEF ReadResults, Addr
  <2>3. \A a \in Addr : FlatByte(Populate(mapped, c, s, prot, source, uninitialized, rc), a)
           = IF a \in c .. c + s - 1
             THEN Fresh(prot, a - c, Final(source, rc, uninitialized, a - c))
             ELSE FlatByte(regions, a)
    <3>1. \A a \in Addr : PopulatedAt(regions, c, s, prot, source, uninitialized, rc, a)
      BY <2>2, PopulateView, Zenon
    <3> QED BY <3>1 DEF PopulatedAt
  <2> HIDE DEF mapped
  <2>4. Made(c, s, prot, source, uninitialized, rc)
    BY <2>1, <2>3 DEF Made, Later, Cleared
  <2> QED BY <2>1, <2>2, <2>4 DEF Return, Finished
<1> QED BY <1>1, <1>2

\* The effect of an mmap that has found a place.
Placed(c, s, prot, source, uninitialized, rc) ==
  /\ c \in Addr /\ s \in Nat /\ c + s < Space
  /\ Finished(c, s, prot, source, uninitialized, rc)

\* MAP_FIXED_NOREPLACE: one mapped byte of a range makes the first byte of its page
\* mapped, because regions are whole pages, and that is what the check looks at.
LEMMA RangeIsFree ==
  ASSUME Good(m_regions), NEW c \in Addr, NEW s \in Addr, Whole(c), Whole(s), c + s < Space,
         ~guest_range_is_mapped(c, s)
  PROVE  WasFree(c, s)
<1> SUFFICES ASSUME NEW a \in c .. c + s - 1, Earlier(a) # Nothing PROVE FALSE
  BY DEF WasFree
<1>0. /\ c \in Int /\ s \in Nat /\ c \in Nat /\ a \in Nat /\ a \in Int /\ Space \in Nat
      /\ PageSize \in Nat /\ PageSize > 0 /\ s # 0
  BY SpaceAssumption, PageSizeAssumption DEF Addr
<1>1. PICK r \in m_regions : Contains(r, a)
  BY FlatOut DEF Earlier, Mapped
<1>2. /\ r.base \in Nat /\ r.size \in Nat /\ r.base <= a /\ a < r.base + r.size
      /\ \A x : Contains(r, x) <=> Spans(r, x)
  BY <1>1, OwnedRegion DEF Good, Spans
<1>3. Whole(r.base) /\ r.base \in Int
  BY <1>2, PagedWhole DEF Good
<1> DEFINE f == page_align_down(a)
<1>4. f \in Int /\ Whole(f) /\ f <= a /\ a < f + PageSize
  BY <1>0, DownWhole
<1> HIDE DEF f
<1>5. r.base <= f
  <2>1. f < r.base => f + PageSize <= r.base
    BY <1>3, <1>4, WholeGap
  <2> QED BY <1>0, <1>2, <1>4, <2>1
<1>6. c <= f
  <2>1. f < c => f + PageSize <= c
    BY <1>0, <1>4, WholeGap
  <2> QED BY <1>0, <1>4, <2>1
<1>7. Contains(r, f)
  BY <1>0, <1>2, <1>4, <1>5 DEF Spans
<1>8. f - c \in 0 .. s - 1 /\ Wrap(c + (f - c)) = f
  BY <1>0, <1>4, <1>6 DEF Wrap
<1>9. (f - c) % PageSize = 0
  <2>1. Whole(f - c)
    BY <1>0, <1>4, WholeSum
  <2> QED BY <2>1 DEF Whole
<1>10. Mapped(m_regions, Wrap(c + (f - c)))
  BY <1>7, <1>8 DEF Mapped
<1> QED BY <1>0, <1>8, <1>9, <1>10 DEF guest_range_is_mapped

LEMMA MmapFixedEffect ==
  ASSUME IInv, NEW addr \in Addr, NEW length \in Addr, NEW prot \in SUBSET Perm,
         NEW noreplace \in BOOLEAN, NEW source \in {"file", "anonymous"},
         NEW uninitialized \in BOOLEAN,
         NEW rc, source = "anonymous" => rc = 0,
         MmapFixed(addr, length, prot, noreplace, source, uninitialized, rc)
  PROVE  \/ Refused
         \/ /\ Placed(page_align_down(addr), page_align_up(length), prot, source,
                      uninitialized, rc)
            /\ noreplace => WasFree(page_align_down(addr), page_align_up(length))
<1> DEFINE s == page_align_up(length)
           c == page_align_down(addr)
           cleared == unmap(m_regions, c, s)
           mapped == map_region(cleared, c, s, ReadWrite, "mmap", 0)
<1>1. s \in Addr /\ Whole(s) /\ c \in Addr /\ Whole(c) /\ Good(m_regions) /\ s \in Nat
  BY AlignedArguments, GoodState, SpaceAssumption DEF MemoryGood, Addr
<1>2. \/ Error(EINVAL) /\ NoChange
      \/ Error(EEXIST) /\ NoChange
      \/ Stop("aborted")
      \/ Stop("error")
      \/ /\ rc \in ReadResults(s) /\ ~range_aborts(m_regions, c, s)
         /\ noreplace => ~guest_range_is_mapped(c, s)
         /\ ~map_fails(cleared, c, s)
         /\ FinishMmap(mapped, c, s, prot, source, uninitialized, rc)
  BY Zenon DEF MmapFixed
<1> HIDE DEF s, c
<1>3. CASE /\ rc \in ReadResults(s) /\ ~range_aborts(m_regions, c, s)
           /\ noreplace => ~guest_range_is_mapped(c, s)
           /\ ~map_fails(cleared, c, s)
           /\ FinishMmap(mapped, c, s, prot, source, uninitialized, rc)
  <2>1. Good(cleared)
    BY <1>1, <1>3, UnmapGood
  <2>2. c + s < Space /\ PageSpan(c, s) = c .. c + s - 1
    BY <1>1, <1>3, AlignedRange, FitsBelowTop
  <2>3. Cleared(cleared, c, s)
    BY <1>1, <1>3, <2>2, UnmapView DEF Good, Earlier, Cleared
  <2> HIDE DEF cleared
  <2>4. Finished(c, s, prot, source, uninitialized, rc)
    BY <1>1, <1>3, <2>1, <2>3, FinishMmapEffect
  <2>5. noreplace => WasFree(c, s)
    BY <1>1, <1>3, <2>2, RangeIsFree
  <2> QED BY <1>1, <2>2, <2>4, <2>5 DEF Placed, s, c
<1> QED BY <1>2, <1>3, Refusals

LEMMA MmapAnywhereEffect ==
  ASSUME IInv, NEW length \in Addr, NEW prot \in SUBSET Perm,
         NEW source \in {"file", "anonymous"}, NEW uninitialized \in BOOLEAN,
         NEW rc, source = "anonymous" => rc = 0,
         MmapAnywhere(length, prot, source, uninitialized, rc)
  PROVE  \/ Refused
         \/ \E c : /\ Placed(c, page_align_up(length), prot, source, uninitialized, rc)
                   /\ WasFree(c, page_align_up(length))
<1> DEFINE s == page_align_up(length)
           mapped(c) == map_region(m_regions, c, s, ReadWrite, "mmap", 0)
<1>1. s \in Addr /\ Whole(s) /\ Good(m_regions) /\ s \in Nat /\ m_next_allocation \in Addr
  BY AlignedArguments, GoodState, SpaceAssumption DEF MemoryGood, Addr
<1>2. \/ Error(EINVAL) /\ NoChange
      \/ Stop("error")
      \/ \E c \in SearchStops(m_regions, m_next_allocation, s) :
           /\ rc \in ReadResults(s) /\ ~map_fails(m_regions, c, s)
           /\ FinishMmap(mapped(c), c, s, prot, source, uninitialized, rc)
  BY Zenon DEF MmapAnywhere
<1> HIDE DEF s
<1>3. ASSUME NEW c \in SearchStops(m_regions, m_next_allocation, s),
             rc \in ReadResults(s), ~map_fails(m_regions, c, s),
             FinishMmap(mapped(c), c, s, prot, source, uninitialized, rc)
      PROVE  Placed(c, s, prot, source, uninitialized, rc) /\ WasFree(c, s)
  <2>1. c \in Addr /\ Whole(c)
    BY <1>1, SearchWhole
  <2>2. c + s < Space
    BY <1>1, <1>3, <2>1, AlignedRange, FitsBelowTop
  <2>3. \A a \in c .. c + s - 1 : a \in Addr
    BY <1>1, <2>1, <2>2, SpaceAssumption DEF Addr
  <2>4. WasFree(c, s)
    BY <1>1, <1>3, <2>1, <2>3, NewMapping, Arguments DEF WasFree, Earlier
  <2>5. Cleared(m_regions, c, s)
    BY <2>4 DEF WasFree, Earlier, Cleared
  <2>6. Finished(c, s, prot, source, uninitialized, rc)
    BY <1>1, <1>3, <2>1, <2>5, FinishMmapEffect, Zenon
  <2> QED BY <1>1, <2>1, <2>2, <2>4, <2>6 DEF Placed
<1>4. CASE \E c \in SearchStops(m_regions, m_next_allocation, s) :
             /\ rc \in ReadResults(s) /\ ~map_fails(m_regions, c, s)
             /\ FinishMmap(mapped(c), c, s, prot, source, uninitialized, rc)
  BY <1>3, <1>4 DEF s
<1> QED BY <1>2, <1>4, Refusals

-----------------------------------------------------------------------------
(* What the action properties say of mmap and brk.                         *)

LEMMA CallFields ==
  \A name, flags, address, size, new_size, prot, n :
    LET c == Call(name, flags, address, size, new_size, prot, n)
    IN  /\ c.name = name /\ c.flags = flags /\ c.address = address /\ c.size = size
        /\ c.new_size = new_size /\ c.prot = prot /\ c.n = n
BY DEF Call

\* What the host can answer to the pread of a mapping.
Answers == {-1, 0} \cup Sizes

\* The system call that a step was.
LEMMA CalledMmap ==
  ASSUME Next, call'.name = "mmap"
  PROVE  \E length \in Sizes, prot \in Prots, options \in Options :
           \E rc \in Answers : ("FILE" \notin options => rc = 0) /\ Mmap(length, prot, options, rc)
BY CallFields DEF Next, NoCall, Answers

LEMMA CalledBrk ==
  ASSUME Next, call'.name = "brk"
  PROVE  \E requested \in Requests :
           Brk(requested) /\ call' = Call("brk", {}, requested, 0, 0, {}, 0)
<1>1. \A length, prot, options, rc : Mmap(length, prot, options, rc) => call'.name = "mmap"
  BY CallFields DEF Mmap
<1> QED BY <1>1, CallFields DEF Next, NoCall

\* The call is Call("mmap", options, ...), with the kind of MAP_FIXED added to options.
Recorded(size, prot, options, rc) ==
  /\ call'.size = size /\ call'.prot = prot /\ call'.n = rc
  /\ "UNINITIALIZED" \in call'.flags <=> "UNINITIALIZED" \in options

Backing(options) == IF "FILE" \in options THEN "file" ELSE "anonymous"

MmapDone(size, prot, options, rc) ==
  \/ Refused
  \/ \E c : /\ Placed(c, size, prot, Backing(options), "UNINITIALIZED" \in options, rc)
            /\ "FIXED" \notin call'.flags => WasFree(c, size)
            /\ "FIXED" \in call'.flags => c = call'.address

LEMMA MmapEffect ==
  ASSUME IInv, NEW length \in Sizes, NEW prot \in Prots, NEW options \in Options, NEW rc,
         "FILE" \notin options => rc = 0, Mmap(length, prot, options, rc)
  PROVE  /\ Recorded(page_align_up(length), prot, options, rc)
         /\ MmapDone(page_align_up(length), prot, options, rc)
<1> DEFINE source == Backing(options)
           uninitialized == "UNINITIALIZED" \in options
           s == page_align_up(length)
<1>1. /\ source \in {"file", "anonymous"} /\ uninitialized \in BOOLEAN
      /\ source = "anonymous" => rc = 0
      /\ length \in Addr /\ prot \in SUBSET Perm /\ options \subseteq {"FILE", "UNINITIALIZED"}
  BY Arguments, MemoryArguments DEF Backing
<1>2. \/ /\ MmapAnywhere(length, prot, source, uninitialized, rc)
         /\ call' = Call("mmap", options, 0, s, 0, prot, rc)
      \/ \E addr \in Targets, fixed \in {"FIXED", "FIXED_NOREPLACE"} :
           /\ MmapFixed(addr, length, prot, fixed = "FIXED_NOREPLACE", source,
                        uninitialized, rc)
           /\ call' = Call("mmap", options \cup {fixed}, page_align_down(addr), s, 0, prot, rc)
  BY DEF Mmap, Backing
<1> HIDE DEF source, uninitialized, s
<1>3. CASE /\ MmapAnywhere(length, prot, source, uninitialized, rc)
           /\ call' = Call("mmap", options, 0, s, 0, prot, rc)
  <2>1. /\ call'.flags = options /\ call'.size = s /\ call'.prot = prot /\ call'.n = rc
    BY <1>3, CallFields
  <2>2. \/ Refused
        \/ \E c : Placed(c, s, prot, source, uninitialized, rc) /\ WasFree(c, s)
    BY <1>1, <1>3, MmapAnywhereEffect DEF s
  <2>3. "FIXED" \notin options
    BY <1>1
  <2> QED BY <2>1, <2>2, <2>3 DEF Recorded, MmapDone, s, source, uninitialized
<1>4. ASSUME NEW addr \in Targets, NEW fixed \in {"FIXED", "FIXED_NOREPLACE"},
             MmapFixed(addr, length, prot, fixed = "FIXED_NOREPLACE", source,
                       uninitialized, rc),
             call' = Call("mmap", options \cup {fixed}, page_align_down(addr), s, 0, prot, rc)
      PROVE  /\ Recorded(s, prot, options, rc)
             /\ MmapDone(s, prot, options, rc)
  <2> DEFINE c == page_align_down(addr)
             noreplace == fixed = "FIXED_NOREPLACE"
  <2>1. /\ call'.flags = options \cup {fixed} /\ call'.size = s /\ call'.prot = prot
        /\ call'.n = rc /\ call'.address = c
    BY <1>4, CallFields
  <2>2. noreplace \in BOOLEAN /\ addr \in Addr /\ (~noreplace => fixed = "FIXED")
    BY Arguments
  <2>3. noreplace => "FIXED" \notin call'.flags
    BY <1>1, <2>1
  <2>4. ~noreplace => "FIXED" \in call'.flags
    BY <2>1, <2>2
  <2>5. "UNINITIALIZED" \in call'.flags <=> "UNINITIALIZED" \in options
    BY <2>1
  <2>6. MmapFixed(addr, length, prot, noreplace, source, uninitialized, rc)
    BY <1>4
  <2> HIDE DEF noreplace
  <2>7. \/ Refused
        \/ /\ Placed(c, s, prot, source, uninitialized, rc)
           /\ noreplace => WasFree(c, s)
    BY <1>1, <2>2, <2>6, MmapFixedEffect DEF s
  <2> HIDE DEF c
  <2>8. Recorded(s, prot, options, rc)
    BY <2>1, <2>5 DEF Recorded
  <2>9. MmapDone(s, prot, options, rc)
    BY <2>1, <2>3, <2>4, <2>7 DEF MmapDone, source, uninitialized
  <2> QED BY <2>8, <2>9
<1> QED BY <1>2, <1>3, <1>4 DEF s

\* brk maps new pages and leaves every mapped byte alone.
LEMMA BrkEffect ==
  ASSUME IInv, NEW requested \in Addr, Brk(requested)
  PROVE  \A a \in Addr : Earlier(a).mapped => Later(a) = Earlier(a)
<1> DEFINE new_end == page_align_up(requested)
           missing == new_end - m_brk_region_end
           grown == map_region(m_regions, m_brk_region_end, missing, ReadWrite, "simple", 0)
<1>1. Good(m_regions) /\ m_brk_region_end \in Addr /\ new_end \in Addr
  BY GoodState, AlignedArguments DEF MemoryGood, HeapGood
<1>2. \/ m_regions' = m_regions
      \/ /\ new_end > m_brk_region_end
         /\ ~map_fails(m_regions, m_brk_region_end, missing)
         /\ m_regions' = grown
  BY DEF Brk, HeapEnd, NoChange, Stop, memory
<1>3. CASE m_regions' = m_regions
  BY <1>3 DEF Earlier, Later
<1>4. CASE /\ new_end > m_brk_region_end
           /\ ~map_fails(m_regions, m_brk_region_end, missing)
           /\ m_regions' = grown
  <2>1. missing \in Addr
    BY <1>1, <1>4, SpaceAssumption DEF Addr
  <2> HIDE DEF missing
  <2>2. PICK kind \in Kind, file_offset \in Addr : kind = "simple" /\ file_offset = 0
    BY Arguments
  <2>3. ReadWrite \in SUBSET Perm
    BY Arguments
  <2> SUFFICES ASSUME NEW a \in Addr, Earlier(a).mapped PROVE Later(a) = Earlier(a)
    OBVIOUS
  <2>4. Mapped(m_regions, a)
    BY FlatMapped DEF Earlier
  <2>5. FlatByte(map_region(m_regions, m_brk_region_end, missing, ReadWrite, kind,
                            file_offset), a) = FlatByte(m_regions, a)
    BY <1>1, <1>4, <2>1, <2>3, <2>4, MapView DEF Good
  <2> QED BY <1>4, <2>2, <2>5 DEF Earlier, Later
<1> QED BY <1>2, <1>3, <1>4

LEMMA ReplacesStep ==
  ASSUME IInv, Next, call'.name \in {"mmap", "brk"}, "FIXED" \notin call'.flags,
         NEW a \in Addr, Earlier(a).mapped
  PROVE  Later(a) = Earlier(a)
<1>1. CASE call'.name = "brk"
  BY <1>1, CalledBrk, BrkEffect, Arguments
<1>2. CASE call'.name = "mmap"
  <2>1. PICK length \in Sizes, prot \in Prots, options \in Options, rc \in Answers :
          ("FILE" \notin options => rc = 0) /\ Mmap(length, prot, options, rc)
    BY <1>2, CalledMmap
  <2> DEFINE s == page_align_up(length)
             source == Backing(options)
             uninitialized == "UNINITIALIZED" \in options
  <2>2. MmapDone(s, prot, options, rc)
    BY <2>1, MmapEffect
  <2>3. \/ Untouched
        \/ \E c : /\ WasFree(c, s)
                  /\ Lost(c, s) \/ Made(c, s, prot, source, uninitialized, rc)
    BY <2>2 DEF MmapDone, Placed, Finished, Refused
  <2> HIDE DEF s, source, uninitialized
  <2>4. CASE Untouched
    BY <2>4 DEF Untouched
  <2>5. ASSUME NEW c, WasFree(c, s), Lost(c, s) \/ Made(c, s, prot, source, uninitialized, rc)
        PROVE  Later(a) = Earlier(a)
    <3>1. a \notin c .. c + s - 1
      BY <2>5 DEF WasFree, Nothing
    <3> QED BY <2>5, <3>1 DEF Lost, Made
  <2> QED BY <2>3, <2>4, <2>5
<1> QED BY <1>1, <1>2

\* mmap without MAP_FIXED, mmap with MAP_FIXED_NOREPLACE (LinuxSyscalls.cpp:1027) and
\* brk never change an address that is mapped already, whether or not they succeed.
THEOREM FixedAloneReplaces == Spec => OnlyFixedReplaces
<1>1. IInv /\ [Next]_vars =>
        [call'.name \in {"mmap", "brk"} /\ "FIXED" \notin call'.flags =>
           \A a \in Addr : Earlier(a).mapped => Later(a) = Earlier(a)]_vars
  BY ReplacesStep
<1> QED BY <1>1, InitGood, Step, PTL DEF Spec, OnlyFixedReplaces

\* What a byte of the new mapping holds.
LEMMA FinalCell ==
  ASSUME NEW source \in {"file", "anonymous"}, NEW rc \in Int, NEW i \in Int,
         NEW uninitialized \in BOOLEAN, source = "anonymous" => rc = 0, i >= 0
  PROVE  /\ Final(source, rc, uninitialized, i).value = IF i < rc THEN 1 ELSE 0
         /\ Final(source, rc, uninitialized, i).initialized = ~uninitialized
<1>1. Content(source, rc, i) = IF i < rc THEN FileCell ELSE ZeroCell
  BY DEF Content
<1> DEFINE cell == Content(source, rc, i)
<1>2. cell.value = (IF i < rc THEN 1 ELSE 0) /\ cell.initialized = TRUE
  BY <1>1 DEF FileCell, ZeroCell
<1> HIDE DEF cell
<1>3. Unmarked(cell).value = cell.value /\ Unmarked(cell).initialized = FALSE
  BY DEF Unmarked
<1>4. CASE uninitialized
  BY <1>2, <1>3, <1>4 DEF Final, cell
<1>5. CASE ~uninitialized
  BY <1>2, <1>5 DEF Final, cell
<1> QED BY <1>4, <1>5

\* What is asked of an mmap that returns c.
Exact(c, s, prot, uninitialized, rc) ==
  /\ \A i \in 0 .. s - 1 :
       LET byte == Later(Wrap(c + i))
       IN  /\ byte.mapped /\ byte.prot = prot /\ byte.offset = i
           /\ byte.cell.value = (IF i < rc THEN 1 ELSE 0)
           /\ byte.cell.initialized = ~uninitialized
  /\ \A a \in Addr \ Bytes(c, s) : Later(a) = Earlier(a)

LEMMA MadeBytes ==
  ASSUME NEW c \in Addr, NEW s \in Nat, c + s < Space, NEW rc \in 0 .. s, NEW prot,
         NEW source \in {"file", "anonymous"}, NEW uninitialized \in BOOLEAN,
         source = "anonymous" => rc = 0, Made(c, s, prot, source, uninitialized, rc)
  PROVE  Exact(c, s, prot, uninitialized, rc)
<1>1. /\ Bytes(c, s) = c .. c + s - 1
      /\ \A i \in 0 .. s - 1 : Wrap(c + i) = c + i /\ c + i \in Addr
  BY PlainRange
<1>2. ASSUME NEW i \in 0 .. s - 1
      PROVE  Later(Wrap(c + i)) = Fresh(prot, i, Final(source, rc, uninitialized, i))
  <2>1. PICK a \in Addr : a = c + i
    BY <1>1
  <2>2. a \in c .. c + s - 1 /\ a - c = i /\ Wrap(c + i) = a
    <3>1. Wrap(c + i) = a
      BY <1>1, <2>1
    <3>2. c \in Int /\ i \in Int /\ s \in Int /\ 0 <= i /\ i < s
      BY SpaceAssumption DEF Addr
    <3> QED BY <2>1, <3>1, <3>2
  <2>3. Later(a) = Fresh(prot, a - c, Final(source, rc, uninitialized, a - c))
    BY <2>2 DEF Made
  <2> QED BY <2>2, <2>3
<1>3. \A a \in Addr \ Bytes(c, s) : Later(a) = Earlier(a)
  BY <1>1 DEF Made
<1>4. ASSUME NEW i \in 0 .. s - 1
      PROVE  /\ Final(source, rc, uninitialized, i).value = IF i < rc THEN 1 ELSE 0
             /\ Final(source, rc, uninitialized, i).initialized = ~uninitialized
  BY FinalCell
<1>5. ASSUME NEW i \in 0 .. s - 1
      PROVE  LET byte == Later(Wrap(c + i))
             IN  /\ byte.mapped /\ byte.prot = prot /\ byte.offset = i
                 /\ byte.cell.value = (IF i < rc THEN 1 ELSE 0)
                 /\ byte.cell.initialized = ~uninitialized
  BY <1>2, <1>4, FreshParts
<1> QED BY <1>3, <1>5 DEF Exact

LEMMA ExactStep ==
  ASSUME IInv, Next, call'.name = "mmap", status' = "running", ret' >= 0
  PROVE  /\ \A i \in 0 .. call'.size - 1 :
              LET byte == Later(Wrap(ret' + i))
              IN  /\ byte.mapped /\ byte.prot = call'.prot /\ byte.offset = i
                  /\ byte.cell.value = (IF i < call'.n THEN 1 ELSE 0)
                  /\ byte.cell.initialized = ("UNINITIALIZED" \notin call'.flags)
         /\ \A a \in Addr \ Bytes(ret', call'.size) : Later(a) = Earlier(a)
<1>1. PICK length \in Sizes, prot \in Prots, options \in Options, rc \in Answers :
        ("FILE" \notin options => rc = 0) /\ Mmap(length, prot, options, rc)
  BY CalledMmap
<1> DEFINE s == page_align_up(length)
           source == Backing(options)
           uninitialized == "UNINITIALIZED" \in options
<1>2. Recorded(s, prot, options, rc) /\ MmapDone(s, prot, options, rc)
  BY <1>1, MmapEffect
<1>3. IInv'
  BY Step
<1>4. ret' \in Int
  BY <1>3, SpaceAssumption DEF IInv, TypeOK, EINVAL
<1>5. /\ source \in {"file", "anonymous"} /\ uninitialized \in BOOLEAN
      /\ source = "anonymous" => rc = 0
  BY <1>1 DEF Backing
<1>6. /\ Placed(ret', s, prot, source, uninitialized, rc) /\ rc \in 0 .. s
      /\ Made(ret', s, prot, source, uninitialized, rc)
  BY <1>2, <1>4 DEF MmapDone, Placed, Finished, Refused
<1>7. /\ call'.size = s /\ call'.prot = prot /\ call'.n = rc
      /\ ("UNINITIALIZED" \notin call'.flags) = ~uninitialized
  BY <1>2 DEF Recorded
<1> HIDE DEF s, source, uninitialized
<1>8. PICK c \in Addr : c = ret'
  BY <1>6 DEF Placed
<1>9. s \in Nat /\ c + s < Space /\ Made(c, s, prot, source, uninitialized, rc)
  BY <1>6, <1>8 DEF Placed
<1>10. Exact(c, s, prot, uninitialized, rc)
  BY <1>5, <1>6, <1>9, MadeBytes
<1> QED BY <1>7, <1>8, <1>10 DEF Exact

\* An mmap that returns an address has mapped all of its range there with the
\* permissions asked for, holding what was read of the file and zero bytes behind it,
\* and has changed nothing else.
THEOREM MmapExact == Spec => MmapIsExact
<1>1. IInv /\ [Next]_vars =>
        [call'.name = "mmap" /\ status' = "running" /\ ret' >= 0 =>
           /\ \A i \in 0 .. call'.size - 1 :
                LET byte == Later(Wrap(ret' + i))
                IN  /\ byte.mapped /\ byte.prot = call'.prot /\ byte.offset = i
                    /\ byte.cell.value = (IF i < call'.n THEN 1 ELSE 0)
                    /\ byte.cell.initialized = ("UNINITIALIZED" \notin call'.flags)
           /\ \A a \in Addr \ Bytes(ret', call'.size) : Later(a) = Earlier(a)]_vars
  BY ExactStep, Zenon
<1> QED BY <1>1, InitGood, Step, PTL DEF Spec, MmapIsExact

-----------------------------------------------------------------------------
(* What mremap does to the bytes.                                          *)

\* Between ranges that do not meet the copy loop reads the source itself.
LEMMA PlainSource ==
  ASSUME NEW old \in Addr, NEW old_size \in Addr, NEW dest \in Addr, NEW new_size \in Addr,
         old_size # 0 => old + old_size < Space, dest + new_size < Space,
         \A a \in old .. old + old_size - 1 : a \notin dest .. dest + new_size - 1,
         NEW i \in 0 .. Smaller(old_size, new_size) - 1
  PROVE  /\ Source(old, dest, i) = old + i /\ Wrap(old + i) = old + i /\ old + i \in Addr
         /\ old + i \in old .. old + old_size - 1
         /\ old + i \notin dest .. dest + new_size - 1
<1>1. /\ i \in Nat /\ old \in Nat /\ old_size \in Nat /\ dest \in Nat /\ new_size \in Nat
      /\ i < old_size /\ i < new_size /\ old + old_size < Space /\ Space \in Nat
  BY SpaceAssumption DEF Addr, Smaller
<1>2. /\ i \in Addr /\ Wrap(old + i) = old + i /\ old + i \in Addr
      /\ old + i \in old .. old + old_size - 1
  BY <1>1 DEF Addr, Wrap
<1>3. old + i \notin dest .. dest + new_size - 1
  BY <1>2
<1>4. Distance(dest, old + i) \notin 0 .. new_size - 1
  BY <1>1, <1>2, <1>3, PlainRange
<1>5. Distance(dest, old + i) \in Nat
  BY <1>1, <1>2 DEF Distance
<1>6. ~(Distance(dest, Wrap(old + i)) < i)
  BY <1>1, <1>2, <1>4, <1>5
<1> QED BY <1>2, <1>3, <1>6, SourceBack

\* The byte that the copy leaves at a.
CopiedAt(regions, old, dest, new_size, prot, n, a) ==
  IF a \in dest .. dest + n - 1
  THEN Fresh(prot, a - dest, FlatByte(regions, old + (a - dest)).cell)
  ELSE IF a \in dest .. dest + new_size - 1
  THEN Fresh(prot, a - dest, ZeroCell) ELSE FlatByte(regions, a)

LEMMA CopyView ==
  ASSUME NEW regions, Good(regions), NEW old \in Addr, NEW old_size \in Addr,
         NEW dest \in Addr, NEW new_size \in Addr, Whole(dest), Whole(new_size),
         old_size # 0 => old + old_size < Space,
         ~map_fails(regions, dest, new_size), NEW prot \in SUBSET Perm,
         NEW mapped, mapped = map_region(regions, dest, new_size, prot, "mmap", 0),
         NEW n, n = Smaller(old_size, new_size), ~CopyFails(mapped, old, dest, n),
         \A a \in old .. old + old_size - 1 : a \notin dest .. dest + new_size - 1,
         NEW a \in Addr
  PROVE  FlatByte(write_bytes(mapped, dest, n, Copied(mapped, old, dest, n)), a)
           = CopiedAt(regions, old, dest, new_size, prot, n, a)
<1> DEFINE bytes == Copied(mapped, old, dest, n)
           d == Distance(dest, a)
<1>0. /\ old \in Nat /\ old_size \in Nat /\ dest \in Nat /\ new_size \in Nat /\ Space \in Nat
      /\ n \in Addr /\ n \in Nat /\ n <= new_size /\ n <= old_size
  BY SpaceAssumption DEF Addr, Smaller
<1>1. /\ dest + new_size < Space
      /\ \A x \in Addr : FlatByte(mapped, x) = IF x \in dest .. dest + new_size - 1
                                               THEN Fresh(prot, x - dest, ZeroCell)
                                               ELSE FlatByte(regions, x)
  BY NewMapping
<1>2. Good(mapped)
  BY MapGood, Arguments
<1>3. /\ bytes \in Strings(n)
      /\ \A i \in 0 .. n - 1 : bytes[i] = CellAt(mapped, Source(old, dest, i))
      /\ ~read_fails(mapped, old, n)
  BY <1>0, <1>2, CopiedType DEF CopyFails, Good
<1>4. Reached(mapped, dest, n, "W") = 0 .. n - 1
  BY DEF CopyFails, write_fails
<1> HIDE DEF bytes
<1>5. FlatByte(write_bytes(mapped, dest, n, bytes), a)
        = IF d \in Reached(mapped, dest, n, "W")
          THEN Stored(FlatByte(mapped, a), bytes[d]) ELSE FlatByte(mapped, a)
  BY <1>0, <1>2, <1>3, WriteView DEF Good
<1>6. dest + n < Space
  BY <1>0, <1>1
<1>7. /\ d \in 0 .. n - 1 <=> a \in dest .. dest + n - 1
      /\ a \in dest .. dest + n - 1 => d = a - dest
  BY <1>0, <1>6, PlainRange
<1> HIDE DEF d
<1>8. CASE a \in dest .. dest + n - 1
  <2>1. d \in 0 .. n - 1 /\ d = a - dest /\ a \in dest .. dest + new_size - 1
    BY <1>0, <1>7, <1>8
  <2>2. /\ Source(old, dest, d) = old + d /\ Wrap(old + d) = old + d /\ old + d \in Addr
        /\ old + d \notin dest .. dest + new_size - 1
    <3>1. PICK i \in 0 .. Smaller(old_size, new_size) - 1 : i = d
      BY <2>1
    <3>2. dest + new_size < Space
      BY <1>1
    <3>3. /\ Source(old, dest, i) = old + i /\ Wrap(old + i) = old + i /\ old + i \in Addr
          /\ old + i \notin dest .. dest + new_size - 1
      BY <3>2, PlainSource
    <3> QED BY <3>1, <3>3
  <2>3. Mapped(mapped, old + d)
    BY <1>3, <2>1, <2>2, ReadableMapped
  <2>4. bytes[d] = FlatByte(mapped, old + d).cell
    BY <1>2, <1>3, <2>1, <2>2, <2>3, CellType DEF Good
  <2>5. bytes[d] = FlatByte(regions, old + d).cell
    BY <1>1, <2>2, <2>4
  <2>6. FlatByte(mapped, a) = Fresh(prot, d, ZeroCell)
    BY <1>1, <2>1
  <2>7. FlatByte(write_bytes(mapped, dest, n, bytes), a)
          = Stored(Fresh(prot, d, ZeroCell), bytes[d])
    BY <1>4, <1>5, <2>1, <2>6
  <2>8. FlatByte(write_bytes(mapped, dest, n, bytes), a) = Fresh(prot, d, bytes[d])
    BY <2>7, FreshParts
  <2> QED BY <1>8, <2>1, <2>5, <2>8 DEF CopiedAt, bytes
<1>9. CASE a \notin dest .. dest + n - 1
  <2>1. FlatByte(write_bytes(mapped, dest, n, bytes), a) = FlatByte(mapped, a)
    BY <1>4, <1>5, <1>7, <1>9
  <2> QED BY <1>1, <1>9, <2>1 DEF CopiedAt, bytes
<1> QED BY <1>8, <1>9

\* What is asked of an mremap that moves a range.
Carried(old, old_size, dest, new_size, dont_unmap) ==
  LET n == Smaller(old_size, new_size)
  IN  /\ \A i \in 0 .. n - 1 : Later(Wrap(dest + i)).cell = Earlier(Wrap(old + i)).cell
      /\ \A i \in n .. new_size - 1 : Later(Wrap(dest + i)).cell = ZeroCell
      /\ \A a \in Bytes(old, old_size) : IF dont_unmap THEN Later(a) = Earlier(a)
                                                       ELSE ~Later(a).mapped
      /\ \A a \in Addr \ (Bytes(old, old_size) \cup Bytes(dest, new_size)) :
           Later(a) = Earlier(a)

Moved(old, old_size, dest, new_size, dont_unmap) ==
  Bytes(old, old_size) \cap Bytes(dest, new_size) = {} =>
    Carried(old, old_size, dest, new_size, dont_unmap)

\* The bytes of the old range, which may be empty at the end of the address space.
LEMMA OldRange ==
  ASSUME NEW old \in Addr, NEW old_size \in Addr, Whole(old), Whole(old_size),
         old_size # 0 => old + old_size < Space
  PROVE  /\ Bytes(old, old_size) = old .. old + old_size - 1
         /\ PageSpan(old, old_size) = old .. old + old_size - 1
         /\ \A regions : ~range_aborts(regions, old, old_size)
<1>1. CASE old_size # 0
  <2>1. old_size \in Nat
    BY SpaceAssumption DEF Addr
  <2> QED BY <1>1, <2>1, AlignedRange, PlainRange
<1>2. CASE old_size = 0
  <2>1. Bytes(old, old_size) = {} /\ old .. old + old_size - 1 = {}
    BY <1>2, SpaceAssumption DEF Bytes, Addr
  <2>2. page_align_down(old) = old /\ page_align_up(old_size) = old_size
    BY AlignedRange
  <2>3. PageSpan(old, old_size) = {}
    BY <1>2, <2>1, <2>2 DEF PageSpan, Span
  <2> QED BY <1>2, <2>1, <2>3 DEF range_aborts
<1> QED BY <1>1, <1>2

\* Every byte after a move.
MoveView(regions, old, old_size, dest, new_size, prot, dont_unmap) ==
  \A a \in Addr : Later(a) =
    IF ~dont_unmap /\ a \in old .. old + old_size - 1 THEN Nothing
    ELSE CopiedAt(regions, old, dest, new_size, prot, Smaller(old_size, new_size), a)

LEMMA CarriedBytes ==
  ASSUME NEW regions, NEW old \in Addr, NEW old_size \in Addr, NEW dest \in Addr,
         NEW new_size \in Addr, Whole(old), Whole(old_size),
         old_size # 0 => old + old_size < Space,
         dest + new_size < Space, Cleared(regions, dest, new_size), NEW prot,
         NEW dont_unmap \in BOOLEAN,
         \A a \in old .. old + old_size - 1 : a \notin dest .. dest + new_size - 1,
         MoveView(regions, old, old_size, dest, new_size, prot, dont_unmap)
  PROVE  Carried(old, old_size, dest, new_size, dont_unmap)
<1> DEFINE n == Smaller(old_size, new_size)
<1>0. /\ old \in Nat /\ old_size \in Nat /\ dest \in Nat /\ new_size \in Nat /\ Space \in Nat
      /\ n \in Nat /\ n <= new_size /\ n <= old_size
  BY SpaceAssumption DEF Addr, Smaller
<1>1. /\ Bytes(old, old_size) = old .. old + old_size - 1
      /\ Bytes(dest, new_size) = dest .. dest + new_size - 1
      /\ \A i \in 0 .. new_size - 1 : Wrap(dest + i) = dest + i /\ dest + i \in Addr
  <2>1. Bytes(old, old_size) = old .. old + old_size - 1
    BY OldRange
  <2> QED BY <1>0, <2>1, PlainRange
<1>2. \A i \in 0 .. n - 1 :
         /\ Wrap(old + i) = old + i /\ old + i \in Addr
         /\ old + i \notin dest .. dest + new_size - 1
  BY PlainSource
<1> HIDE DEF n
<1>3. ASSUME NEW i \in 0 .. n - 1
      PROVE  Later(Wrap(dest + i)).cell = Earlier(Wrap(old + i)).cell
  <2>0. i \in 0 .. new_size - 1 /\ i \in Nat /\ i < n
    BY <1>0
  <2>1. PICK x \in Addr : x = dest + i /\ Wrap(dest + i) = x
    BY <1>1, <2>0
  <2>2. x \in dest .. dest + n - 1 /\ x \in dest .. dest + new_size - 1 /\ x - dest = i
    BY <1>0, <2>0, <2>1
  <2>3. x \notin old .. old + old_size - 1
    BY <2>2
  <2>4. Later(x) = Fresh(prot, x - dest, FlatByte(regions, old + (x - dest)).cell)
    BY <2>2, <2>3 DEF MoveView, CopiedAt, n
  <2>5. FlatByte(regions, old + i) = Earlier(old + i)
    BY <1>2 DEF Cleared
  <2> QED BY <1>2, <2>1, <2>2, <2>4, <2>5, FreshParts
<1>4. ASSUME NEW i \in n .. new_size - 1
      PROVE  Later(Wrap(dest + i)).cell = ZeroCell
  <2>0. i \in 0 .. new_size - 1 /\ i \in Nat /\ n <= i
    BY <1>0
  <2>1. PICK x \in Addr : x = dest + i /\ Wrap(dest + i) = x
    BY <1>1, <2>0
  <2>2. x \notin dest .. dest + n - 1 /\ x \in dest .. dest + new_size - 1
    BY <1>0, <2>0, <2>1
  <2>3. x \notin old .. old + old_size - 1
    BY <2>2
  <2>4. Later(x) = Fresh(prot, x - dest, ZeroCell)
    BY <2>2, <2>3 DEF MoveView, CopiedAt, n
  <2> QED BY <2>1, <2>4, FreshParts
<1>5. ASSUME NEW a \in Addr, a \notin dest .. dest + new_size - 1
      PROVE  CopiedAt(regions, old, dest, new_size, prot, n, a) = Earlier(a)
  <2>1. a \notin dest .. dest + n - 1
    BY <1>0, <1>5
  <2> QED BY <1>5, <2>1 DEF CopiedAt, Cleared
<1>6. ASSUME NEW a \in Bytes(old, old_size)
      PROVE  IF dont_unmap THEN Later(a) = Earlier(a) ELSE ~Later(a).mapped
  <2>1. /\ a \in old .. old + old_size - 1 /\ a \notin dest .. dest + new_size - 1
        /\ a \in Addr
    <3>1. a \in old .. old + old_size - 1
      BY <1>1
    <3>2. old_size # 0
      BY <1>0, <3>1
    <3>3. a \in Addr
      BY <1>0, <3>1, <3>2 DEF Addr
    <3> QED BY <3>1, <3>3
  <2>2. ~Nothing.mapped
    BY DEF Nothing
  <2> QED BY <1>5, <2>1, <2>2 DEF MoveView, n
<1>7. ASSUME NEW a \in Addr \ (Bytes(old, old_size) \cup Bytes(dest, new_size))
      PROVE  Later(a) = Earlier(a)
  BY <1>1, <1>5 DEF MoveView, n
<1> QED BY <1>3, <1>4, <1>6, <1>7 DEF Carried, n

\* The end of a move to dest.
Ended(old, old_size, dest, new_size, dont_unmap) ==
  \/ Untouched /\ status' # "running"
  \/ ret' = dest /\ Moved(old, old_size, dest, new_size, dont_unmap)

LEMMA FinishMremapEffect ==
  ASSUME NEW regions, Good(regions), NEW old \in Addr, NEW old_size \in Addr,
         NEW dest \in Addr, NEW new_size \in Addr, Whole(old), Whole(old_size), Whole(dest),
         Whole(new_size), old_size # 0 => old + old_size < Space,
         ~map_fails(regions, dest, new_size), NEW prot \in SUBSET Perm,
         NEW dont_unmap \in BOOLEAN, Cleared(regions, dest, new_size),
         FinishMremap(map_region(regions, dest, new_size, prot, "mmap", 0), old, old_size,
                      dest, new_size, dont_unmap)
  PROVE  Ended(old, old_size, dest, new_size, dont_unmap)
<1>0. PICK mapped : mapped = map_region(regions, dest, new_size, prot, "mmap", 0)
  OBVIOUS
<1>1. PICK n : n = Smaller(old_size, new_size)
  OBVIOUS
<1> DEFINE copied == write_bytes(mapped, dest, n, Copied(mapped, old, dest, n))
<1>2. \/ Stop("error")
      \/ /\ ~CopyFails(mapped, old, dest, n) /\ Return(dest)
         /\ m_regions' = IF dont_unmap THEN copied ELSE unmap(copied, old, old_size)
  BY <1>0, <1>1 DEF FinishMremap, RemoveOld
<1>3. CASE Stop("error")
  BY <1>3, Refusals DEF Ended, Refused
<1>4. CASE /\ ~CopyFails(mapped, old, dest, n) /\ Return(dest)
           /\ m_regions' = IF dont_unmap THEN copied ELSE unmap(copied, old, old_size)
  <2>1. dest + new_size < Space /\ new_size \in Nat
    BY AlignedRange, FitsBelowTop, SpaceAssumption DEF Addr
  <2>2. /\ Bytes(old, old_size) = old .. old + old_size - 1
        /\ PageSpan(old, old_size) = old .. old + old_size - 1
        /\ Bytes(dest, new_size) = dest .. dest + new_size - 1
    BY <2>1, OldRange, PlainRange
  <2>3. ret' = dest
    BY <1>4 DEF Return
  <2>4. ASSUME Bytes(old, old_size) \cap Bytes(dest, new_size) = {}
        PROVE  Carried(old, old_size, dest, new_size, dont_unmap)
    <3>1. \A a \in old .. old + old_size - 1 : a \notin dest .. dest + new_size - 1
      BY <2>2, <2>4
    <3>2. Good(mapped)
      BY <1>0, MapGood, Arguments
    <3>3. Good(copied) /\ ~range_aborts(copied, old, old_size)
      BY <1>1, <1>4, <3>2, CopyGood
    <3>4. \A a \in Addr : FlatByte(copied, a)
                            = CopiedAt(regions, old, dest, new_size, prot, n, a)
      BY <1>0, <1>1, <1>4, <3>1, CopyView
    <3> HIDE DEF copied
    <3>5. \A a \in Addr : FlatByte(unmap(copied, old, old_size), a)
             = IF a \in PageSpan(old, old_size) THEN Nothing ELSE FlatByte(copied, a)
      BY <3>3, UnmapView DEF Good
    <3>6. MoveView(regions, old, old_size, dest, new_size, prot, dont_unmap)
      BY <1>1, <1>4, <2>2, <3>4, <3>5 DEF Later, MoveView
    <3> QED BY <2>1, <3>1, <3>6, CarriedBytes
  <2> QED BY <2>3, <2>4 DEF Ended, Moved
<1> QED BY <1>2, <1>3, <1>4

\* A MREMAP_FIXED that notices too late that its old range is gone.
LostTarget(dest, new_size) ==
  ret' < 0 /\ \A a \in Addr \ Bytes(dest, new_size) : Later(a) = Earlier(a)

LEMMA MoveFixedEffect ==
  ASSUME IInv, NEW old \in Addr, NEW old_size \in Addr, NEW new_size \in Addr,
         Whole(old), Whole(old_size), Whole(new_size),
         old_size # 0 => old + old_size < Space,
         NEW dont_unmap \in BOOLEAN, NEW new_addr \in Addr,
         MoveFixed(old, old_size, new_size, dont_unmap, new_addr)
  PROVE  \/ Refused
         \/ LostTarget(page_align_down(new_addr), new_size)
         \/ \E dest \in Addr : Ended(old, old_size, dest, new_size, dont_unmap)
<1> DEFINE dest == page_align_down(new_addr)
           cleared == unmap(m_regions, dest, new_size)
           prot == find_region(cleared, old).prot
           mapped == map_region(cleared, dest, new_size, prot, "mmap", 0)
<1>1. dest \in Addr /\ Whole(dest) /\ Good(m_regions) /\ dest \in Nat /\ new_size \in Nat
  BY AlignedArguments, GoodState, SpaceAssumption DEF MemoryGood, Addr
<1>2. \/ Error(EINVAL) /\ NoChange
      \/ Stop("aborted")
      \/ Stop("error")
      \/ /\ ~range_aborts(m_regions, dest, new_size)
         /\ \/ Error(EFAULT) /\ m_regions' = cleared
            \/ /\ Mapped(cleared, old) /\ ~map_fails(cleared, dest, new_size)
               /\ FinishMremap(mapped, old, old_size, dest, new_size, dont_unmap)
  BY Zenon DEF MoveFixed, ClearDestination
<1> HIDE DEF dest
<1>3. ASSUME ~range_aborts(m_regions, dest, new_size)
      PROVE  /\ Good(cleared)
             /\ \A a \in Addr : FlatByte(cleared, a) = IF a \in PageSpan(dest, new_size)
                                                       THEN Nothing ELSE Earlier(a)
  BY <1>1, <1>3, UnmapGood, UnmapView DEF Good, Earlier
<1> HIDE DEF cleared
<1>4. CASE ~range_aborts(m_regions, dest, new_size) /\ Error(EFAULT) /\ m_regions' = cleared
  <2>1. ret' < 0
    BY <1>4, Refusals
  <2>2. PageSpan(dest, new_size) \subseteq Bytes(dest, new_size)
    <3>1. page_align_down(dest) = dest /\ page_align_up(new_size) = new_size
      BY <1>1, AlignedRange
    <3>2. dest + new_size < Space => Bytes(dest, new_size) = dest .. dest + new_size - 1
      BY <1>1, PlainRange
    <3> QED BY <3>1, <3>2 DEF PageSpan, Span
  <2>3. \A a \in Addr \ Bytes(dest, new_size) : Later(a) = Earlier(a)
    BY <1>3, <1>4, <2>2 DEF Later
  <2>4. LostTarget(dest, new_size)
    BY <2>1, <2>3 DEF LostTarget
  <2> QED BY <2>4 DEF dest
<1>5. CASE /\ ~range_aborts(m_regions, dest, new_size)
           /\ Mapped(cleared, old) /\ ~map_fails(cleared, dest, new_size)
           /\ FinishMremap(mapped, old, old_size, dest, new_size, dont_unmap)
  <2>1. Good(cleared) /\ prot \in SUBSET Perm
    BY <1>3, <1>5, OldProt DEF Good
  <2> HIDE DEF prot
  <2>2. PageSpan(dest, new_size) = dest .. dest + new_size - 1
    BY <1>1, <1>5, AlignedRange, FitsBelowTop
  <2>3. Cleared(cleared, dest, new_size)
    BY <1>3, <1>5, <2>2 DEF Cleared
  <2>4. Ended(old, old_size, dest, new_size, dont_unmap)
    BY <1>1, <1>5, <2>1, <2>3, FinishMremapEffect
  <2> QED BY <1>1, <2>4
<1> HIDE DEF mapped
<1> QED BY <1>2, <1>4, <1>5, Refusals

LEMMA MoveAnywhereEffect ==
  ASSUME IInv, NEW old \in Addr, NEW old_size \in Addr, NEW new_size \in Addr,
         Whole(old), Whole(old_size), Whole(new_size),
         old_size # 0 => old + old_size < Space, Mapped(m_regions, old),
         NEW dont_unmap \in BOOLEAN,
         MoveAnywhere(old, old_size, new_size, dont_unmap)
  PROVE  \/ Refused
         \/ \E dest \in Addr : Ended(old, old_size, dest, new_size, dont_unmap)
<1> DEFINE prot == find_region(m_regions, old).prot
           mapped(c) == map_region(m_regions, c, new_size, prot, "mmap", 0)
<1>1. m_next_allocation \in Addr /\ Good(m_regions)
  BY GoodState DEF MemoryGood
<1>2. \/ Stop("error")
      \/ \E c \in SearchStops(m_regions, m_next_allocation, new_size) :
           /\ ~map_fails(m_regions, c, new_size)
           /\ FinishMremap(mapped(c), old, old_size, c, new_size, dont_unmap)
  BY DEF MoveAnywhere
<1>3. prot \in SUBSET Perm
  BY <1>1, OldProt DEF Good
<1> HIDE DEF prot
<1>4. ASSUME NEW c \in SearchStops(m_regions, m_next_allocation, new_size),
             ~map_fails(m_regions, c, new_size),
             FinishMremap(mapped(c), old, old_size, c, new_size, dont_unmap)
      PROVE  c \in Addr /\ Ended(old, old_size, c, new_size, dont_unmap)
  <2>1. c \in Addr /\ Whole(c)
    BY <1>1, SearchWhole
  <2>2. \A a \in Addr : a \in c .. c + new_size - 1 => FlatByte(m_regions, a) = Nothing
    BY <1>1, <1>3, <1>4, <2>1, NewMapping
  <2>3. Cleared(m_regions, c, new_size)
    BY <2>2 DEF Cleared, Earlier
  <2> QED BY <1>1, <1>3, <1>4, <2>1, <2>3, FinishMremapEffect
<1> QED BY <1>2, <1>4, Refusals

LEMMA MremapEffect ==
  ASSUME IInv, NEW old \in Addr, NEW old_length \in Addr, NEW new_length \in Addr,
         NEW flags, NEW new_addr \in Addr,
         Mremap(old, old_length, new_length, flags, new_addr)
  PROVE  \/ Refused
         \/ ret' = old
         \/ /\ "FIXED" \in flags
            /\ LostTarget(page_align_down(new_addr), page_align_up(new_length))
         \/ \E dest \in Addr : Ended(old, page_align_up(old_length), dest,
                                     page_align_up(new_length), "DONTUNMAP" \in flags)
<1> DEFINE old_size == page_align_up(old_length)
           new_size == page_align_up(new_length)
           dont_unmap == "DONTUNMAP" \in flags
           looked == is_mapped(m_regions, old, IF old_size = 0 THEN 1 ELSE old_size)
<1>1. Good(m_regions)
  BY GoodState DEF MemoryGood
<1>2. \/ Error(EINVAL) /\ NoChange
      \/ Error(EFAULT) /\ NoChange
      \/ Error(ENOMEM) /\ NoChange
      \/ Return(old)
      \/ /\ old % PageSize = 0 /\ looked
         /\ \/ "FIXED" \in flags /\ MoveFixed(old, old_size, new_size, dont_unmap, new_addr)
            \/ MoveAnywhere(old, old_size, new_size, dont_unmap)
  BY Zenon DEF Mremap
<1>3. ASSUME old % PageSize = 0, looked
      PROVE  /\ old_size \in Addr /\ Whole(old_size) /\ new_size \in Addr /\ Whole(new_size)
             /\ Whole(old) /\ Mapped(m_regions, old)
             /\ old_size # 0 => old + old_size < Space
  BY <1>1, <1>3, MremapArguments DEF Good
<1>4. dont_unmap \in BOOLEAN
  OBVIOUS
<1> HIDE DEF old_size, new_size, dont_unmap, looked
<1>5. CASE /\ old % PageSize = 0 /\ looked /\ "FIXED" \in flags
           /\ MoveFixed(old, old_size, new_size, dont_unmap, new_addr)
  <2>1. \/ Refused
        \/ LostTarget(page_align_down(new_addr), new_size)
        \/ \E dest \in Addr : Ended(old, old_size, dest, new_size, dont_unmap)
    BY <1>3, <1>4, <1>5, MoveFixedEffect
  <2> QED BY <1>5, <2>1 DEF old_size, new_size, dont_unmap
<1>6. CASE /\ old % PageSize = 0 /\ looked
           /\ MoveAnywhere(old, old_size, new_size, dont_unmap)
  <2>1. \/ Refused
        \/ \E dest \in Addr : Ended(old, old_size, dest, new_size, dont_unmap)
    BY <1>3, <1>4, <1>6, MoveAnywhereEffect
  <2> QED BY <2>1 DEF old_size, new_size, dont_unmap
<1>7. Return(old) => ret' = old
  BY DEF Return
<1> QED BY <1>2, <1>5, <1>6, <1>7, Refusals

LEMMA CalledMremap ==
  ASSUME Next, call'.name = "mremap"
  PROVE  \E old \in OldAddresses, old_length, new_length \in Sizes, flags \in MremapFlags,
            new_addr \in Targets :
           /\ Mremap(old, old_length, new_length, flags, new_addr)
           /\ call' = Call("mremap", flags, old, page_align_up(old_length),
                           page_align_up(new_length), {}, page_align_down(new_addr))
<1>1. \A length, prot, options, rc : Mmap(length, prot, options, rc) => call'.name = "mmap"
  BY CallFields DEF Mmap
<1> QED BY <1>1, CallFields DEF Next, NoCall

LEMMA MoveStep ==
  ASSUME IInv, Next, MremapMoved
  PROVE  LET old == Bytes(call'.address, call'.size)
             new == Bytes(ret', call'.new_size)
         IN  old \cap new = {} =>
               /\ \A i \in 0 .. Kept - 1 :
                    Later(Wrap(ret' + i)).cell = Earlier(Wrap(call'.address + i)).cell
               /\ \A i \in Kept .. call'.new_size - 1 :
                    Later(Wrap(ret' + i)).cell = ZeroCell
               /\ \A a \in old : IF "DONTUNMAP" \in call'.flags
                                 THEN Later(a) = Earlier(a) ELSE ~Later(a).mapped
               /\ \A a \in Addr \ (old \cup new) : Later(a) = Earlier(a)
<1>1. PICK old \in OldAddresses, old_length \in Sizes, new_length \in Sizes,
           flags \in MremapFlags, new_addr \in Targets :
        /\ Mremap(old, old_length, new_length, flags, new_addr)
        /\ call' = Call("mremap", flags, old, page_align_up(old_length),
                        page_align_up(new_length), {}, page_align_down(new_addr))
  BY CalledMremap DEF MremapMoved
<1> DEFINE old_size == page_align_up(old_length)
           new_size == page_align_up(new_length)
           dont_unmap == "DONTUNMAP" \in flags
<1>2. /\ call'.flags = flags /\ call'.address = old /\ call'.size = old_size
      /\ call'.new_size = new_size
  BY <1>1, CallFields
<1>3. \/ Refused
      \/ ret' = old
      \/ LostTarget(page_align_down(new_addr), new_size)
      \/ \E dest \in Addr : Ended(old, old_size, dest, new_size, dont_unmap)
  BY <1>1, Arguments, MremapEffect
<1>4. ret' \in Int
  <2>1. IInv'
    BY Step
  <2> QED BY <2>1, SpaceAssumption DEF IInv, TypeOK, EINVAL
<1> HIDE DEF old_size, new_size
<1>5. PICK dest \in Addr : ret' = dest /\ Moved(old, old_size, dest, new_size, dont_unmap)
  BY <1>2, <1>3, <1>4 DEF MremapMoved, Refused, LostTarget, Ended
<1>6. Kept = Smaller(old_size, new_size)
  BY <1>2 DEF Kept
<1> QED BY <1>2, <1>5, <1>6 DEF Moved, Carried

\* "Copy content from old mapping into the new one" (LinuxSyscalls.cpp:1139): between
\* ranges that do not overlap mremap carries contents and shadow bits over, fills the
\* rest with zeros, removes the old range unless MREMAP_DONTUNMAP keeps it, and leaves
\* every other address alone.
THEOREM MoveExact == Spec => MoveIsExact
<1>1. IInv /\ [Next]_vars =>
        [MremapMoved =>
           LET old == Bytes(call'.address, call'.size)
               new == Bytes(ret', call'.new_size)
           IN  old \cap new = {} =>
                 /\ \A i \in 0 .. Kept - 1 :
                      Later(Wrap(ret' + i)).cell = Earlier(Wrap(call'.address + i)).cell
                 /\ \A i \in Kept .. call'.new_size - 1 :
                      Later(Wrap(ret' + i)).cell = ZeroCell
                 /\ \A a \in old : IF "DONTUNMAP" \in call'.flags
                                   THEN Later(a) = Earlier(a) ELSE ~Later(a).mapped
                 /\ \A a \in Addr \ (old \cup new) : Later(a) = Earlier(a)]_vars
  BY MoveStep, Zenon
<1> QED BY <1>1, InitGood, Step, PTL DEF Spec, MoveIsExact

-----------------------------------------------------------------------------
(* What a system call that returns an error has changed.                   *)

\* The range that MAP_FIXED or MREMAP_FIXED names.
Target == IF "FIXED" \notin call'.flags THEN {}
          ELSE IF call'.name = "mmap" THEN Bytes(call'.address, call'.size)
          ELSE Bytes(call'.n, call'.new_size)

LEMMA ErrorStep ==
  ASSUME IInv, Next, call'.name \in {"mmap", "mremap"}, ret' < 0, status' = "running",
         NEW a \in Addr \ Target
  PROVE  Later(a) = Earlier(a)
<1>1. CASE call'.name = "mmap"
  <2>1. PICK length \in Sizes, prot \in Prots, options \in Options, rc \in Answers :
          ("FILE" \notin options => rc = 0) /\ Mmap(length, prot, options, rc)
    BY <1>1, CalledMmap
  <2> DEFINE s == page_align_up(length)
  <2>2. Recorded(s, prot, options, rc) /\ MmapDone(s, prot, options, rc)
    BY <2>1, MmapEffect
  <2>3. call'.size = s
    BY <2>2 DEF Recorded
  <2>4. \/ Untouched
        \/ \E c \in Addr :
             /\ s \in Nat /\ c + s < Space /\ Lost(c, s)
             /\ "FIXED" \notin call'.flags => WasFree(c, s)
             /\ "FIXED" \in call'.flags => c = call'.address
    BY <2>2, SpaceAssumption DEF MmapDone, Placed, Finished, Refused, Addr
  <2> HIDE DEF s
  <2>5. CASE Untouched
    BY <2>5 DEF Untouched
  <2>6. ASSUME NEW c \in Addr, s \in Nat, c + s < Space, Lost(c, s),
               "FIXED" \notin call'.flags => WasFree(c, s),
               "FIXED" \in call'.flags => c = call'.address
        PROVE  Later(a) = Earlier(a)
    <3>1. Bytes(c, s) = c .. c + s - 1
      BY <2>6, PlainRange
    <3>2. CASE "FIXED" \in call'.flags
      BY <1>1, <2>3, <2>6, <3>1, <3>2 DEF Target, Lost
    <3>3. CASE "FIXED" \notin call'.flags
      BY <2>6, <3>3 DEF Lost, WasFree
    <3> QED BY <3>2, <3>3
  <2> QED BY <2>4, <2>5, <2>6
<1>2. CASE call'.name = "mremap"
  <2>1. PICK old \in OldAddresses, old_length \in Sizes, new_length \in Sizes,
             flags \in MremapFlags, new_addr \in Targets :
          /\ Mremap(old, old_length, new_length, flags, new_addr)
          /\ call' = Call("mremap", flags, old, page_align_up(old_length),
                          page_align_up(new_length), {}, page_align_down(new_addr))
    BY <1>2, CalledMremap
  <2> DEFINE old_size == page_align_up(old_length)
             new_size == page_align_up(new_length)
             dest == page_align_down(new_addr)
  <2>2. call'.flags = flags /\ call'.n = dest /\ call'.new_size = new_size
    BY <2>1, CallFields
  <2>3. \/ Refused
        \/ ret' = old
        \/ "FIXED" \in flags /\ LostTarget(dest, new_size)
        \/ \E d \in Addr : Ended(old, old_size, d, new_size, "DONTUNMAP" \in flags)
    BY <2>1, Arguments, MremapEffect
  <2> HIDE DEF old_size, new_size, dest
  <2>4. ~(ret' = old) /\ \A d \in Addr : ~(ret' = d)
    BY Arguments, SpaceAssumption DEF Addr
  <2>5. Untouched \/ ("FIXED" \in flags /\ LostTarget(dest, new_size))
    BY <2>3, <2>4 DEF Refused, Ended
  <2>6. CASE Untouched
    BY <2>6 DEF Untouched
  <2>7. CASE "FIXED" \in flags /\ LostTarget(dest, new_size)
    BY <1>2, <2>2, <2>7 DEF LostTarget, Target
  <2> QED BY <2>5, <2>6, <2>7
<1> QED BY <1>1, <1>2

\* A system call that returns an error has changed nothing outside the range that
\* MAP_FIXED or MREMAP_FIXED names.
THEOREM ErrorsContained == Spec => ErrorsTouchOnlyTarget
<1>1. IInv /\ [Next]_vars =>
        [call'.name \in {"mmap", "mremap"} /\ ret' < 0 /\ status' = "running" =>
           LET target == IF "FIXED" \notin call'.flags THEN {}
                         ELSE IF call'.name = "mmap" THEN Bytes(call'.address, call'.size)
                         ELSE Bytes(call'.n, call'.new_size)
           IN  \A a \in Addr \ target : Later(a) = Earlier(a)]_vars
  BY ErrorStep, Zenon DEF Target
<1> QED BY <1>1, InitGood, Step, PTL DEF Spec, ErrorsTouchOnlyTarget
=============================================================================
