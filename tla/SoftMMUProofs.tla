--------------------------- MODULE SoftMMUProofs ---------------------------
(***************************************************************************)
(* Proofs about SoftMMU, for every page size, every size of the address    *)
(* space and all arguments: the region list is well formed, no address has *)
(* two owners, regions are whole pages, empty regions stand in nobody's    *)
(* way, and the MMU implements the flat address space of AddressSpace.     *)
(*                                                                         *)
(* The lemmas about single operations are in RegionsProofs.                *)
(***************************************************************************)
EXTENDS SoftMMU, RegionsProofs

-----------------------------------------------------------------------------
(* The region that map_bytes adds.                                         *)

LEMMA BytesRegionType ==
  ASSUME NEW base \in Addr, NEW size \in Addr, NEW prot \in SUBSET Perm,
         NEW n \in Addr, NEW offset \in Addr, NEW byte \in Byte
  PROVE  /\ BytesRegion(base, size, prot, n, offset, byte) \in Region
         /\ BytesRegion(base, size, prot, n, offset, byte).base = page_align_down(base)
         /\ BytesRegion(base, size, prot, n, offset, byte).size = page_align_up(size)
<1> DEFINE b == page_align_down(base)
           s == page_align_up(size)
           r == BytesRegion(base, size, prot, n, offset, byte)
           cells == [i \in 0 .. s - 1 |->
                       IF i >= offset /\ i < offset + n
                       THEN [value |-> byte, initialized |-> TRUE]
                       ELSE ZeroCell]
<1>1. b \in Addr /\ s \in Addr /\ 0 \in Addr
  BY AlignType, SpaceAssumption DEF Addr
<1>2. cells \in [0 .. s - 1 -> Cell]
  BY ByteAssumption DEF ZeroCell, Cell
<1>3. r = [base |-> b, size |-> s, prot |-> prot, kind |-> "simple",
           file_offset |-> 0, cells |-> cells]
  BY DEF BytesRegion
<1> HIDE DEF b, s, cells, r
<1>4. r \in Region /\ r.base = b /\ r.size = s
  BY <1>1, <1>2, <1>3, MakeRegion DEF Kind
<1> QED BY <1>4 DEF r, b, s

\* What the invariant IInv below says of the region list, in the terms of the lemmas.
Good(regions) == Owned(regions) /\ Paged(regions) /\ Enclosed(regions)

\* map_bytes keeps the list owned, whole pages, and empty regions enclosed.
LEMMA MapBytesKeeps ==
  ASSUME NEW regions, Good(regions), NEW base \in Addr, NEW size \in Addr,
         NEW prot \in SUBSET Perm, NEW n \in Addr, NEW offset \in Addr,
         NEW byte \in Byte, ~map_fails(regions, base, size)
  PROVE  Good(regions \cup {BytesRegion(base, size, prot, n, offset, byte)})
<1> DEFINE b == page_align_down(base)
           s == page_align_up(size)
           r == BytesRegion(base, size, prot, n, offset, byte)
<1>1. r \in Region /\ r.base = b /\ r.size = s
  BY BytesRegionType
<1>2. ~MapFails(regions, b, s)
  BY DEF map_fails
<1>3. Whole(b) /\ Whole(s) /\ s # 0
  BY <1>2, AlignedArguments DEF MapFails
<1> HIDE DEF b, s, r
<1>4. Owned(regions \cup {r})
  BY <1>1, <1>2, AddOwned DEF Good
<1>5. Enclosed(regions \cup {r})
  BY <1>1, <1>3, AddEnclosed DEF Good
<1>6. Paged(regions \cup {r})
  BY <1>1, <1>3, PagedWhole DEF Good
<1> QED BY <1>4, <1>5, <1>6 DEF r, Good

-----------------------------------------------------------------------------
(* The invariant.                                                          *)

\* m_next_allocation is a page address, as allocate needs it to be: the search
\* aligns what it starts from, and no caller asks for more than page alignment.
NextWhole == Whole(m_next_allocation)

\* Splitting keeps whole pages only if it starts from whole pages that do not
\* overlap, and it leaves harmless empty regions only among those: the four
\* properties are inductive together.
IInv == TypeOK /\ UniqueOwner /\ PageGranular /\ EmptyRegionsAreHarmless /\ NextWhole

LEMMA GoodState ==
  IInv <=> /\ Good(m_regions) /\ m_next_allocation \in Addr /\ Whole(m_next_allocation)
           /\ out \in {"ok", "EmulatorError", "length_error"}
BY DEF IInv, TypeOK, UniqueOwner, PageGranular, EmptyRegionsAreHarmless, NextWhole,
       Good, Owned, Enclosed

LEMMA InitGood == Init => IInv
BY ArgumentsAssumption
   DEF Init, IInv, TypeOK, UniqueOwner, PageGranular, EmptyRegionsAreHarmless, NextWhole,
       WellFormed, Unique, Paged, Whole

LEMMA Arguments ==
  /\ Bases \subseteq Addr /\ Sizes \subseteq Addr /\ Prots \subseteq SUBSET Perm
  /\ FileOffsets \subseteq Addr /\ Lengths \subseteq Addr /\ Offsets \subseteq Addr
  /\ 0 \in Addr /\ "simple" \in Kind /\ "mmap" \in Kind
BY ArgumentsAssumption, SpaceAssumption DEF Addr, Kind

\* The search for a free range tries page addresses only.
LEMMA SearchWhole ==
  ASSUME NEW regions, Owned(regions), Paged(regions), NEW next \in Addr, NEW size \in Addr,
         NEW c \in SearchStops(regions, next, size)
  PROVE  c \in Addr /\ Whole(c)
<1>1. c \in Addr
  BY SearchType DEF Owned
<1>2. \E x \in Addr : c = page_align_up(x)
  BY OwnedRegion, EndValue DEF SearchStops
<1> QED BY <1>1, <1>2, UpWhole

LEMMA MapKeeps ==
  ASSUME NEW regions, Good(regions), NEW base \in Addr, NEW size \in Addr,
         NEW prot \in SUBSET Perm, NEW kind \in Kind, NEW file_offset \in Addr,
         ~map_fails(regions, base, size)
  PROVE  Good(map_region(regions, base, size, prot, kind, file_offset))
BY MapOwned, MapPaged, MapEnclosed DEF Good

\* Whatever operation is called with whatever arguments, the invariant is kept.
LEMMA Step == IInv /\ [Next]_vars => IInv'
<1> DEFINE Goal == /\ Good(m_regions') /\ m_next_allocation' \in Addr
                   /\ Whole(m_next_allocation')
                   /\ out' \in {"ok", "EmulatorError", "length_error"}
<1> SUFFICES ASSUME IInv, [Next]_vars PROVE Goal
  BY DEF IInv, TypeOK, UniqueOwner, PageGranular, EmptyRegionsAreHarmless, NextWhole,
         Good, Owned, Enclosed, Whole
<1>a. Good(m_regions) /\ m_next_allocation \in Addr /\ Whole(m_next_allocation)
  BY GoodState
<1>1. ASSUME NEW base \in Addr, NEW size \in Addr, NEW prot \in SUBSET Perm,
             NEW kind \in Kind, NEW file_offset \in Addr,
             Map(base, size, prot, kind, file_offset)
      PROVE  Goal
  BY <1>a, <1>1, MapKeeps DEF Map
<1>2. ASSUME NEW base \in Addr, NEW size \in Addr, NEW prot \in SUBSET Perm,
             NEW n \in Addr, NEW offset \in Addr, NEW byte \in Byte,
             MapBytes(base, size, prot, n, offset, byte)
      PROVE  Goal
  BY <1>a, <1>2, MapBytesKeeps DEF MapBytes
<1>3. ASSUME NEW size \in Addr, NEW prot \in SUBSET Perm,
             NEW kind \in Kind, NEW file_offset \in Addr,
             Allocate(size, prot, kind, file_offset)
      PROVE  Goal
  <2> DEFINE s == page_align_up(size)
  <2>1. s \in Addr /\ Whole(s)
    BY AlignedArguments
  <2>2. PICK c \in SearchStops(m_regions, m_next_allocation, s) :
          IF map_fails(m_regions, c, s)
          THEN /\ out' = "EmulatorError"
               /\ m_next_allocation' = c
               /\ UNCHANGED m_regions
          ELSE /\ out' = "ok"
               /\ m_regions' = map_region(m_regions, c, s, prot, kind, file_offset)
               /\ m_next_allocation' = Wrap(c + s)
    BY <1>3 DEF Allocate
  <2> HIDE DEF s
  <2>3. c \in Addr /\ Whole(c)
    BY <1>a, <2>1, <2>2, SearchWhole DEF Good
  <2>4. Good(m_regions')
    BY <1>a, <2>1, <2>2, <2>3, MapKeeps
  <2>5. Wrap(c + s) \in Addr /\ Whole(Wrap(c + s))
    <3>1. Wrap(c + s) \in Addr
      BY <2>1, <2>3, SpaceAssumption DEF Wrap, Addr
    <3> QED BY <2>1, <2>3, <3>1, WholeWrap
  <2> QED BY <2>2, <2>3, <2>4, <2>5
<1>4. ASSUME NEW base \in Addr, NEW size \in Addr, Unmap(base, size)
      PROVE  Goal
  BY <1>a, <1>4, UnmapOwned, UnmapPaged, UnmapEnclosed DEF Unmap, Good
<1>5. ASSUME NEW base \in Addr, NEW size \in Addr, NEW prot \in SUBSET Perm,
             Protect(base, size, prot)
      PROVE  Goal
  BY <1>a, <1>5, ProtectOwned, ProtectPaged, ProtectEnclosed DEF Protect, Good
<1>6. ASSUME NEW address \in Addr, NEW n \in Addr, NEW cell \in Cell,
             Write(address, n, cell)
      PROVE  Goal
  <2>1. [i \in 0 .. n - 1 |-> cell] \in [0 .. n - 1 -> Cell]
    OBVIOUS
  <2>2. Owned(m_regions')
    BY <1>a, <1>6, <2>1, WriteOwned DEF Write, Good
  <2>3. Paged(m_regions') /\ Enclosed(m_regions')
    BY <1>a, <1>6, AccessPaged, WriteEnclosed DEF Write, Good
  <2> QED BY <1>a, <1>6, <2>2, <2>3 DEF Write, Good
<1>7. ASSUME NEW address \in Addr, NEW n \in Addr, NEW initialized \in BOOLEAN,
             MarkInitialized(address, n, initialized)
      PROVE  Goal
  <2>1. Owned(m_regions') /\ Paged(m_regions') /\ Enclosed(m_regions')
    BY <1>a, <1>7, MarkOwned, AccessPaged, MarkEnclosed DEF MarkInitialized, Good
  <2> QED BY <1>a, <1>7, <2>1 DEF MarkInitialized, Good
<1>8. CASE UNCHANGED vars
  BY <1>a, <1>8, GoodState DEF vars
<1> HIDE DEF Goal
<1> QED BY Arguments, <1>1, <1>2, <1>3, <1>4, <1>5, <1>6, <1>7, <1>8 DEF Next

\* The region list is well formed after any sequence of SoftMMU operations: every
\* region has as many cells as bytes and ends inside the address space, even for
\* ranges whose arithmetic wraps around.
THEOREM TypeCorrect == Spec => []TypeOK
BY InitGood, Step, PTL DEF Spec, IInv

\* "each guest address has one owner" (SoftMMU.cpp:180), after any sequence of
\* SoftMMU operations: the region that find_region finds first is the only one.
THEOREM OneOwner == Spec => []UniqueOwner
BY InitGood, Step, PTL DEF Spec, IInv

\* "Guest mappings are always tracked at page granularity" (SoftMMU.cpp:177): the
\* pieces that split_around cuts are whole pages, for all unaligned arguments.
THEOREM WholePages == Spec => []PageGranular
BY InitGood, Step, PTL DEF Spec, IInv

\* The empty regions that protect can leave in the list always lie between two
\* mapped bytes: ensure_no_overlap refuses no free range because of one.
THEOREM NoObstacles == Spec => []EmptyRegionsAreHarmless
BY InitGood, Step, PTL DEF Spec, IInv

-----------------------------------------------------------------------------
(* SoftMMU implements AddressSpace: the terms of the two modules.          *)

LEMMA WrapMod ==
  ASSUME NEW x \in Nat, x < Space + Space
  PROVE  x % Space = Wrap(x)
<1>0. Space \in Int /\ Space > 0
  BY SpaceAssumption
<1> DEFINE q == x \div Space
           m == x % Space
<1>1. q \in Int /\ m \in 0 .. Space - 1 /\ x = q * Space + m
  BY <1>0, Quotient
<1> HIDE DEF q, m
<1>2. q <= -1 => q * Space <= (-1) * Space
  BY <1>0, <1>1
<1>3. q >= 2 => q * Space >= 2 * Space
  BY <1>0, <1>1
<1>4. q = 0 \/ q = 1
  BY <1>0, <1>1, <1>2, <1>3
<1>5. m = Wrap(x)
  BY <1>0, <1>1, <1>4 DEF Wrap
<1> QED BY <1>5 DEF m

LEMMA FlatTerms ==
  /\ Flat!Addr = Addr /\ Flat!ZeroCell = ZeroCell /\ Flat!Cell = Cell
  /\ Flat!Unmapped = Nothing
  /\ \A x : Flat!Floor(x) = page_align_down(x)
  /\ \A prot, kind, offset, cell :
       Flat!Mapping(prot, kind, offset, cell) =
         [mapped |-> TRUE, prot |-> prot, kind |-> kind, offset |-> offset, cell |-> cell]
BY DEF Flat!Addr, Addr, Flat!ZeroCell, ZeroCell, Flat!Cell, Cell, Flat!Unmapped, Nothing,
       Flat!Floor, page_align_down, Flat!Mapping

LEMMA FlatCeiling == \A x \in Addr : Flat!Ceiling(x) = page_align_up(x)
<1> SUFFICES ASSUME NEW x \in Addr PROVE Flat!Ceiling(x) = page_align_up(x)
  OBVIOUS
<1>1. PageSize \in Nat /\ PageSize > 0 /\ PageSize <= Space /\ Space \in Nat
  <2>1. PICK k \in 2 .. Space : Space = k * PageSize
    BY SpaceAssumption
  <2>2. k * PageSize >= 1 * PageSize
    BY <2>1, PageSizeAssumption, SpaceAssumption
  <2> QED BY <2>1, <2>2, PageSizeAssumption, SpaceAssumption
<1> DEFINE y == x + PageSize - 1
<1>2. y \in Nat /\ y < Space + Space
  BY <1>1 DEF Addr
<1> HIDE DEF y
<1>3. y % Space = Wrap(y)
  BY <1>2, WrapMod
<1> QED BY <1>3, FlatTerms DEF Flat!Ceiling, page_align_up, y

LEMMA FlatRange ==
  ASSUME NEW base \in Addr, NEW size \in Addr
  PROVE  Flat!Range(base, size) = PageSpan(base, size)
BY FlatTerms, FlatCeiling DEF Flat!Range, PageSpan, Span

LEMMA FlatAt ==
  ASSUME NEW address \in Addr, NEW i \in Addr
  PROVE  Flat!At(address, i) = Wrap(address + i) /\ Wrap(address + i) \in Addr
<1>1. address + i \in Nat /\ address + i < Space + Space
  BY SpaceAssumption DEF Addr
<1>2. Wrap(address + i) \in Addr
  BY SpaceAssumption DEF Wrap, Addr
<1> QED BY <1>1, <1>2, WrapMod DEF Flat!At

\* The contents of the flat address space, now and after a step.
LEMMA FlatMemory ==
  /\ DOMAIN FlatView(m_regions) = Addr
  /\ \A a \in Addr : FlatView(m_regions)[a] = FlatByte(m_regions, a)
  /\ \A a \in Addr : FlatView(m_regions)'[a] = FlatByte(m_regions', a)
  /\ FlatView(m_regions)' = [a \in Addr |-> FlatView(m_regions)'[a]]
BY DEF FlatView, FlatByte, Mapped, find_region

\* A range can be mapped if and only if it is not empty and all its bytes are free:
\* empty regions are in nobody's way, because they lie between mapped bytes.
LEMMA FreeMaps ==
  ASSUME NEW regions, Good(regions), NEW b \in Addr, NEW s \in Addr
  PROVE  MapFails(regions, b, s) <=>
           (Span(b, s) = {} \/ \E a \in Span(b, s) : Mapped(regions, a))
<1>0. b \in Nat /\ s \in Nat /\ b < Space /\ s < Space /\ Space \in Nat
  BY SpaceAssumption DEF Addr
<1>1. ASSUME b + s < Space, s # 0, NEW r \in regions, Collides(r, b, s)
      PROVE  \E a \in Span(b, s) : Mapped(regions, a)
  <2>1. /\ r.base \in Nat /\ r.size \in Nat /\ End(r) = r.base + r.size
        /\ \A a : Contains(r, a) <=> Spans(r, a)
    BY OwnedRegion DEF Good
  <2>2. b < r.base + r.size /\ b + s > r.base
    BY <1>0, <1>1, <2>1 DEF Collides, Wrap
  <2>3. CASE r.size = 0
    <3>1. r.base \in Span(b, s)
      BY <1>0, <1>1, <2>1, <2>2, <2>3 DEF Span
    <3>2. Mapped(regions, r.base)
      BY <2>3 DEF Good, Enclosed
    <3> QED BY <3>1, <3>2
  <2>4. CASE r.size # 0
    <3> DEFINE a == Larger(b, r.base)
    <3>1. a \in Span(b, s) /\ Spans(r, a)
      BY <1>0, <1>1, <2>1, <2>2, <2>4 DEF Span, Spans, Larger
    <3> QED BY <2>1, <3>1 DEF Mapped
  <2> QED BY <2>3, <2>4
<1>2. ASSUME b + s < Space, s # 0, NEW a \in Span(b, s), NEW r \in regions, Contains(r, a)
      PROVE  Collides(r, b, s)
  <2>1. /\ r.base \in Nat /\ r.size \in Nat /\ End(r) = r.base + r.size
        /\ \A x : Contains(r, x) <=> Spans(r, x)
    BY OwnedRegion DEF Good
  <2>2. a \in b .. b + s - 1 /\ r.base <= a /\ a < r.base + r.size
    BY <1>2, <2>1 DEF Span, Spans
  <2> QED BY <1>0, <1>2, <2>1, <2>2 DEF Collides, Wrap
<1>3. CASE b + s < Space /\ s # 0
  <2>1. Span(b, s) # {} /\ ~(Wrap(b + s) < b)
    <3>1. b \in Span(b, s)
      BY <1>0, <1>3 DEF Span
    <3> QED BY <1>0, <1>3, <3>1 DEF Wrap
  <2> QED BY <1>1, <1>2, <1>3, <2>1 DEF MapFails, Mapped
<1>4. CASE s = 0
  BY <1>0, <1>4 DEF Span, MapFails
<1>5. CASE b + s >= Space /\ s # 0
  <2>1. Span(b, s) = {}
    BY <1>0, <1>5 DEF Span
  <2>2. Wrap(b + s) < b
    BY <1>0, <1>5 DEF Wrap
  <2> QED BY <2>1, <2>2 DEF MapFails
<1> QED BY <1>0, <1>3, <1>4, <1>5

LEMMA FlatFree ==
  ASSUME Good(m_regions), NEW base \in Addr, NEW size \in Addr
  PROVE  Flat!Free(Flat!Range(base, size)) <=> ~map_fails(m_regions, base, size)
<1>1. page_align_down(base) \in Addr /\ page_align_up(size) \in Addr
  BY AlignType
<1>2. map_fails(m_regions, base, size) <=>
        (PageSpan(base, size) = {} \/ \E a \in PageSpan(base, size) : Mapped(m_regions, a))
  BY <1>1, FreeMaps DEF map_fails, PageSpan
<1>3. PageSpan(base, size) \subseteq Addr
  BY <1>1, SpaceAssumption DEF PageSpan, Span, Addr
<1>4. \A a \in PageSpan(base, size) : FlatView(m_regions)[a].mapped <=> Mapped(m_regions, a)
  BY <1>3, FlatMemory, FlatMapped
<1> QED BY <1>2, <1>4, FlatRange DEF Flat!Free

\* A failing call changes nothing.
LEMMA SameView == m_regions' = m_regions => FlatView(m_regions)' = FlatView(m_regions)
BY DEF FlatView, FlatByte, Mapped, find_region

\* A new mapping, made by map_zeroed and map_mmap or by allocate and allocate_mmap.
LEMMA MapRangeRefines ==
  ASSUME Good(m_regions), NEW base \in Addr, NEW size \in Addr, NEW prot \in SUBSET Perm,
         NEW kind \in Kind, NEW file_offset \in Addr, ~map_fails(m_regions, base, size),
         m_regions' = map_region(m_regions, base, size, prot, kind, file_offset)
  PROVE  Flat!MapRange(base, size, prot, kind, file_offset, LAMBDA i : Flat!ZeroCell)
<1> DEFINE R == PageSpan(base, size)
           new(a) == [mapped |-> TRUE, prot |-> prot, kind |-> kind,
                      offset |-> IF kind = "mmap"
                                 THEN Wrap(file_offset + (a - page_align_down(base))) ELSE 0,
                      cell |-> ZeroCell]
<1>1. \A a \in Addr : FlatView(m_regions)'[a] =
        IF a \in R THEN new(a) ELSE FlatView(m_regions)[a]
  BY MapView, FlatMemory DEF Good
<1>2. R \subseteq Addr
  BY AlignType, SpaceAssumption DEF PageSpan, Span, Addr
<1>3. \A a \in R : (file_offset + a - page_align_down(base)) % Space
                     = Wrap(file_offset + (a - page_align_down(base)))
  <2> SUFFICES ASSUME NEW a \in R
               PROVE  (file_offset + a - page_align_down(base)) % Space
                         = Wrap(file_offset + (a - page_align_down(base)))
    OBVIOUS
  <2> DEFINE x == file_offset + a - page_align_down(base)
  <2>1. x = file_offset + (a - page_align_down(base)) /\ x \in Nat /\ x < Space + Space
    BY AlignType, SpaceAssumption DEF PageSpan, Span, Addr
  <2> HIDE DEF x
  <2>2. x % Space = Wrap(x)
    BY <2>1, WrapMod
  <2> QED BY <2>1, <2>2 DEF x
<1> QED BY <1>1, <1>2, <1>3, FlatTerms, FlatRange, FlatMemory DEF Flat!MapRange, Flat!Change

\* map_zeroed and map_mmap.
LEMMA MapRefines ==
  ASSUME Good(m_regions), NEW base \in Addr, NEW size \in Addr, NEW prot \in SUBSET Perm,
         NEW kind \in Kind, NEW file_offset \in Addr,
         Map(base, size, prot, kind, file_offset)
  PROVE  Flat!Map(base, size, prot, kind, file_offset)
<1>1. CASE map_fails(m_regions, base, size)
  <2>1. FlatView(m_regions)' = FlatView(m_regions) /\ out' = "EmulatorError"
    BY <1>1, SameView DEF Map
  <2> QED BY <1>1, <2>1, FlatFree DEF Flat!Map, Flat!Fail
<1>2. CASE ~map_fails(m_regions, base, size)
  <2>1. m_regions' = map_region(m_regions, base, size, prot, kind, file_offset) /\ out' = "ok"
    BY <1>2 DEF Map
  <2>2. Flat!MapRange(base, size, prot, kind, file_offset, LAMBDA i : Flat!ZeroCell)
    BY <1>2, <2>1, MapRangeRefines
  <2> QED BY <1>2, <2>1, <2>2, FlatFree DEF Flat!Map
<1> QED BY <1>1, <1>2

\* map_bytes.
LEMMA MapBytesRefines ==
  ASSUME Good(m_regions), NEW base \in Addr, NEW size \in Addr, NEW prot \in SUBSET Perm,
         NEW n \in Addr, NEW offset \in Addr, NEW byte \in Byte,
         MapBytes(base, size, prot, n, offset, byte)
  PROVE  Flat!MapBytes(base, size, prot, n, offset, byte)
<1> DEFINE b == page_align_down(base)
           s == page_align_up(size)
           r == BytesRegion(base, size, prot, n, offset, byte)
<1>0. b \in Addr /\ s \in Addr /\ b \in Nat /\ s \in Nat /\ n \in Nat /\ offset \in Nat
  BY AlignType, SpaceAssumption DEF Addr
<1>1. BytesFit(size, n, offset) <=> offset + n <= Flat!Ceiling(size)
  BY <1>0, FlatCeiling DEF BytesFit
<1>2. CASE map_fails(m_regions, base, size) \/ ~BytesFit(size, n, offset)
  <2>1. FlatView(m_regions)' = FlatView(m_regions) /\ out' = "EmulatorError"
    BY <1>2, SameView DEF MapBytes
  <2> QED BY <1>1, <1>2, <2>1, FlatFree DEF Flat!MapBytes, Flat!Fail
<1>3. CASE ~(map_fails(m_regions, base, size) \/ ~BytesFit(size, n, offset))
  <2> DEFINE R == PageSpan(base, size)
             content(i) == IF i \in offset .. offset + n - 1
                           THEN [value |-> byte, initialized |-> TRUE] ELSE ZeroCell
             new(a) == [mapped |-> TRUE, prot |-> prot, kind |-> "simple", offset |-> 0,
                        cell |-> content(a - b)]
  <2>1. m_regions' = m_regions \cup {r} /\ out' = "ok"
    BY <1>3 DEF MapBytes
  <2>2. r \in Region /\ r.base = b /\ r.size = s /\ ~MapFails(m_regions, r.base, r.size)
    BY <1>3, BytesRegionType DEF map_fails
  <2>3. ASSUME NEW a \in R PROVE ByteIn(r, a) = new(a)
    <3>1. a - b \in 0 .. s - 1
      BY <1>0, <2>3 DEF PageSpan, Span
    <3>2. r.cells[a - b] = content(a - b) /\ r.kind = "simple" /\ r.prot = prot
      BY <1>0, <3>1 DEF BytesRegion
    <3> HIDE DEF r, b, s, content
    <3> QED BY <2>2, <3>2 DEF ByteIn
  <2>4. \A a \in Addr : FlatView(m_regions)'[a] =
          IF a \in R THEN new(a) ELSE FlatView(m_regions)[a]
    <3> SUFFICES ASSUME NEW a \in Addr
                 PROVE  FlatByte(m_regions', a) =
                          IF a \in R THEN new(a) ELSE FlatByte(m_regions, a)
      BY FlatMemory
    <3>1. a \in R <=> a \in Span(r.base, r.size)
      BY <2>2 DEF PageSpan
    <3> HIDE DEF r, b, s, content, R
    <3>2. FlatByte(m_regions \cup {r}, a)
              = IF a \in Span(r.base, r.size) THEN ByteIn(r, a) ELSE FlatByte(m_regions, a)
      BY <2>2, AddView DEF Good
    <3> QED BY <2>1, <2>3, <3>1, <3>2
  <2>5. R \subseteq Addr
    BY AlignType, SpaceAssumption DEF PageSpan, Span, Addr
  <2>6. Flat!MapRange(base, size, prot, "simple", 0,
                   LAMBDA i : IF i \in offset .. offset + n - 1
                              THEN [value |-> byte, initialized |-> TRUE]
                              ELSE Flat!ZeroCell)
    BY <2>4, <2>5, FlatTerms, FlatRange, FlatMemory DEF Flat!MapRange, Flat!Change
  <2> QED BY <1>1, <1>3, <2>1, <2>6, FlatFree DEF Flat!MapBytes
<1> QED BY <1>2, <1>3

\* unmap: only a range that wraps around can end the emulator.
LEMMA AbortWraps ==
  ASSUME Good(m_regions), NEW base \in Addr, NEW size \in Addr,
         range_aborts(m_regions, base, size)
  PROVE  Flat!Floor(base) + Flat!Ceiling(size) > Space
<1> DEFINE b == page_align_down(base)
           s == page_align_up(size)
<1>0. b \in Nat /\ s \in Nat /\ b < Space /\ s < Space /\ Space \in Nat
  BY AlignType, SpaceAssumption DEF Addr
<1>1. PICK r \in m_regions : ~Outside(r, b, Wrap(b + s)) /\ Wrap(b + s) < b
  BY DEF range_aborts, SplitAborts
<1> HIDE DEF b, s
<1>2. r.base \in Nat
  BY OwnedRegion DEF Good
<1>3. Wrap(b + s) > 0
  BY <1>0, <1>1, <1>2 DEF Outside, Wrap
<1>4. b + s > Space
  BY <1>0, <1>1, <1>3 DEF Wrap
<1> QED BY <1>4, FlatTerms, FlatCeiling DEF b, s

LEMMA UnmapRefines ==
  ASSUME Good(m_regions), NEW base \in Addr, NEW size \in Addr, Unmap(base, size)
  PROVE  Flat!Unmap(base, size)
<1>1. CASE range_aborts(m_regions, base, size)
  <2>1. FlatView(m_regions)' = FlatView(m_regions) /\ out' = "length_error"
    BY <1>1, SameView DEF Unmap
  <2> QED BY <1>1, <2>1, AbortWraps DEF Flat!Unmap, Flat!Abort, Flat!Fail
<1>2. CASE ~range_aborts(m_regions, base, size)
  <2>1. m_regions' = unmap(m_regions, base, size) /\ out' = "ok"
    BY <1>2 DEF Unmap
  <2>2. \A a \in Addr : FlatView(m_regions)'[a] =
          IF a \in PageSpan(base, size) THEN Nothing ELSE FlatView(m_regions)[a]
    BY <1>2, <2>1, UnmapView, FlatMemory DEF Good
  <2>3. PageSpan(base, size) \subseteq Addr
    BY AlignType, SpaceAssumption DEF PageSpan, Span, Addr
  <2>4. Flat!Change(Flat!Range(base, size), LAMBDA a : Flat!Unmapped)
    BY <2>2, <2>3, FlatTerms, FlatRange, FlatMemory DEF Flat!Change
  <2> QED BY <2>1, <2>4 DEF Flat!Unmap
<1> QED BY <1>1, <1>2

LEMMA ProtectRefines ==
  ASSUME Good(m_regions), NEW base \in Addr, NEW size \in Addr, NEW prot \in SUBSET Perm,
         Protect(base, size, prot)
  PROVE  Flat!Protect(base, size, prot)
<1>1. CASE range_aborts(m_regions, base, size)
  <2>1. FlatView(m_regions)' = FlatView(m_regions) /\ out' = "length_error"
    BY <1>1, SameView DEF Protect
  <2> QED BY <1>1, <2>1, AbortWraps DEF Flat!Protect, Flat!Abort, Flat!Fail
<1>2. CASE ~range_aborts(m_regions, base, size)
  <2> DEFINE R == PageSpan(base, size)
             m == FlatView(m_regions)
             C == {a \in R : m[a].mapped}
  <2>1. m_regions' = protect(m_regions, base, size, prot) /\ out' = "ok"
    BY <1>2 DEF Protect
  <2>2. R \subseteq Addr
    BY AlignType, SpaceAssumption DEF PageSpan, Span, Addr
  <2>3. \A a \in Addr : m'[a] =
          IF a \in R /\ Mapped(m_regions, a) THEN Protected(m[a], prot) ELSE m[a]
    BY <1>2, <2>1, ProtectView, FlatMemory DEF Good
  <2>4. \A a \in R : m[a].mapped <=> Mapped(m_regions, a)
    BY <2>2, FlatMemory, FlatMapped
  <2>5. /\ \A a \in C : m'[a] = Flat!Mapping(prot, m[a].kind, m[a].offset, m[a].cell)
        /\ \A a \in Addr \ C : m'[a] = m[a]
    BY <2>2, <2>3, <2>4, FlatTerms DEF Protected
  <2>6. Flat!Change({a \in Flat!Range(base, size) : m[a].mapped},
                    LAMBDA a : Flat!Mapping(prot, m[a].kind, m[a].offset, m[a].cell))
    BY <2>5, FlatTerms, FlatRange, FlatMemory DEF Flat!Change
  <2> QED BY <2>1, <2>6 DEF Flat!Protect
<1> QED BY <1>1, <1>2

\* The bytes that an access reaches, in the terms of the two modules.
LEMMA FlatOpen ==
  ASSUME Good(m_regions), NEW address \in Addr, NEW n \in Addr, NEW perm, NEW i \in 0 .. n - 1
  PROVE  Flat!Open(address, i, perm) <=> i \in Reached(m_regions, address, n, perm)
<1>1. \A j \in 0 .. i : j \in Addr
  BY SpaceAssumption DEF Addr
<1>2. \A j \in 0 .. i : Flat!At(address, j) = Wrap(address + j) /\ Wrap(address + j) \in Addr
  BY <1>1, FlatAt
<1>3. \A a \in Addr : Accessible(m_regions, a, perm) <=> perm \in FlatView(m_regions)[a].prot
  BY AccessibleView, FlatMemory DEF Good, Owned
<1> QED BY <1>2, <1>3 DEF Flat!Open, Reached

\* The addresses whose cells an access replaces.
Touched(address, n, perm) ==
  {Flat!At(address, i) : i \in {j \in 0 .. n - 1 : Flat!Open(address, j, perm)}}

LEMMA FlatTouched ==
  ASSUME Good(m_regions), NEW address \in Addr, NEW n \in Addr, NEW perm
  PROVE  /\ Touched(address, n, perm) \subseteq Addr
         /\ \A a \in Addr : a \in Touched(address, n, perm)
              <=> Distance(address, a) \in Reached(m_regions, address, n, perm)
<1> DEFINE I == Reached(m_regions, address, n, perm)
<1>1. I = {j \in 0 .. n - 1 : Flat!Open(address, j, perm)}
  BY FlatOpen DEF Reached
<1>2. \A i \in 0 .. n - 1 : i \in Addr
  BY SpaceAssumption DEF Addr
<1>3. \A i \in I : i \in Addr
  BY <1>2 DEF Reached
<1>4. \A i \in I : Flat!At(address, i) = Wrap(address + i) /\ Wrap(address + i) \in Addr
  BY <1>3, FlatAt
<1> HIDE DEF I
<1>5. \A a : a \in Touched(address, n, perm) <=> \E i \in I : a = Wrap(address + i)
  BY <1>1, <1>4 DEF Touched
<1>6. \A a \in Addr : a \in Touched(address, n, perm) <=> Distance(address, a) \in I
  <2> SUFFICES ASSUME NEW a \in Addr
               PROVE  a \in Touched(address, n, perm) <=> Distance(address, a) \in I
    OBVIOUS
  <2>1. /\ Wrap(address + Distance(address, a)) = a
        /\ \A i \in Addr : Wrap(address + i) = a <=> i = Distance(address, a)
    BY DistanceBack
  <2> QED BY <1>3, <1>5, <2>1
<1> QED BY <1>4, <1>5, <1>6 DEF I

LEMMA FlatFails ==
  ASSUME Good(m_regions), NEW address \in Addr, NEW n \in Addr \ {0}, NEW perm
  PROVE  Reached(m_regions, address, n, perm) # 0 .. n - 1 <=> ~Flat!Open(address, n - 1, perm)
<1> DEFINE I == Reached(m_regions, address, n, perm)
<1>1. n \in Nat /\ n - 1 \in 0 .. n - 1
  BY SpaceAssumption DEF Addr
<1>2. Flat!Open(address, n - 1, perm) <=> n - 1 \in I
  BY <1>1, FlatOpen
<1>3. I \subseteq 0 .. n - 1
  BY DEF Reached
<1>4. n - 1 \in I => \A j \in 0 .. n - 1 : j \in I
  BY <1>1 DEF Reached
<1> HIDE DEF I
<1>5. I # 0 .. n - 1 <=> ~Flat!Open(address, n - 1, perm)
  BY <1>1, <1>2, <1>3, <1>4
<1> QED BY <1>5 DEF I

\* write8 .. write64 and copy_to_guest.
LEMMA WriteRefines ==
  ASSUME Good(m_regions), NEW address \in Addr, NEW n \in Addr \ {0}, NEW cell \in Cell,
         Write(address, n, cell)
  PROVE  Flat!Write(address, n, cell)
<1> DEFINE m == FlatView(m_regions)
           C == Touched(address, n, "W")
           bytes == [i \in 0 .. n - 1 |-> cell]
<1>1. out' = IF Flat!Open(address, n - 1, "W") THEN "ok" ELSE "EmulatorError"
  BY FlatFails DEF Write, write_fails
<1>2. bytes \in Strings(n) /\ m_regions' = write_bytes(m_regions, address, n, bytes)
  BY DEF Write, Strings
<1>3. ASSUME NEW a \in Addr
      PROVE  m'[a] = IF a \in C THEN Stored(m[a], cell) ELSE m[a]
  <2> DEFINE i == Distance(address, a)
  <2>1. a \in C <=> i \in Reached(m_regions, address, n, "W")
    BY FlatTouched
  <2>2. i \in Reached(m_regions, address, n, "W") => bytes[i] = cell
    BY DEF Reached
  <2> HIDE DEF bytes
  <2>3. FlatByte(write_bytes(m_regions, address, n, bytes), a)
           = IF i \in Reached(m_regions, address, n, "W")
             THEN Stored(FlatByte(m_regions, a), bytes[i]) ELSE FlatByte(m_regions, a)
    BY <1>2, WriteView DEF Good
  <2> HIDE DEF i, C
  <2> QED BY <1>2, <2>1, <2>2, <2>3, FlatMemory
<1>4. C \subseteq Addr
  BY FlatTouched
<1>5. /\ \A a \in C : m'[a] = Flat!Mapping(m[a].prot, m[a].kind, m[a].offset, cell)
      /\ \A a \in Addr \ C : m'[a] = m[a]
  BY <1>3, <1>4, FlatTerms DEF Stored
<1>6. Flat!Change(C, LAMBDA a : Flat!Mapping(m[a].prot, m[a].kind, m[a].offset, cell))
  BY <1>5, FlatTerms, FlatMemory DEF Flat!Change
<1> QED BY <1>1, <1>6 DEF Flat!Write, Flat!Access, Touched

LEMMA MarkRefines ==
  ASSUME Good(m_regions), NEW address \in Addr, NEW n \in Addr \ {0},
         NEW initialized \in BOOLEAN, MarkInitialized(address, n, initialized)
  PROVE  Flat!MarkInitialized(address, n, initialized)
<1> DEFINE m == FlatView(m_regions)
           C == Touched(address, n, "R")
           cell(a) == [value |-> m[a].cell.value, initialized |-> initialized]
<1>1. out' = IF Flat!Open(address, n - 1, "R") THEN "ok" ELSE "EmulatorError"
  BY FlatFails DEF MarkInitialized, read_fails
<1>2. m_regions' = mark_initialized(m_regions, address, n, initialized)
  BY DEF MarkInitialized
<1>3. ASSUME NEW a \in Addr
      PROVE  m'[a] = IF a \in C THEN Stored(m[a], cell(a)) ELSE m[a]
  <2>1. a \in C <=> Distance(address, a) \in Reached(m_regions, address, n, "R")
    BY FlatTouched
  <2>2. FlatByte(mark_initialized(m_regions, address, n, initialized), a)
           = IF Distance(address, a) \in Reached(m_regions, address, n, "R")
             THEN Stored(FlatByte(m_regions, a),
                         [value |-> FlatByte(m_regions, a).cell.value,
                          initialized |-> initialized])
             ELSE FlatByte(m_regions, a)
    BY MarkView DEF Good
  <2> HIDE DEF C
  <2> QED BY <1>2, <2>1, <2>2, FlatMemory
<1>4. C \subseteq Addr
  BY FlatTouched
<1>5. /\ \A a \in C : m'[a] = Flat!Mapping(m[a].prot, m[a].kind, m[a].offset, cell(a))
      /\ \A a \in Addr \ C : m'[a] = m[a]
  BY <1>3, <1>4, FlatTerms DEF Stored
<1>6. Flat!Change(C, LAMBDA a : Flat!Mapping(m[a].prot, m[a].kind, m[a].offset, cell(a)))
  BY <1>5, FlatTerms, FlatMemory DEF Flat!Change
<1> QED BY <1>1, <1>6 DEF Flat!MarkInitialized, Flat!Access, Touched

-----------------------------------------------------------------------------
(* Allocation.                                                             *)

LEMMA GreatestBelow ==
  ASSUME NEW T \in SUBSET Nat, NEW top \in Nat, NEW t \in T, t <= top
  PROVE  \E x \in T : x <= top /\ \A y \in T : y <= top => y <= x
<1> DEFINE D == {d \in Nat : top - d \in T /\ d <= top}
<1>1. top - t \in D
  BY top - (top - t) = t, top - t \in Nat
<1>2. PICK d \in D : \A e \in D : d <= e
  BY <1>1, Least
<1>3. \A y \in T : y <= top => top - y \in D
  <2> SUFFICES ASSUME NEW y \in T, y <= top PROVE top - y \in D
    OBVIOUS
  <2>1. top - (top - y) = y /\ top - y \in Nat /\ top - y <= top
    OBVIOUS
  <2> QED BY <2>1
<1>4. top - d \in T /\ d \in Nat /\ d <= top /\ top - d <= top
  OBVIOUS
<1>5. \A y \in T : y <= top => y <= top - d
  <2> SUFFICES ASSUME NEW y \in T, y <= top PROVE y <= top - d
    OBVIOUS
  <2>1. d <= top - y
    BY <1>2, <1>3
  <2> QED BY <1>4, <2>1
<1> QED BY <1>4, <1>5

\* The addresses that the search loop of allocate tries, and the ones it accepts.
Tried(regions, next) ==
  {c \in {page_align_up(next)} \cup {page_align_up(End(r)) : r \in regions} :
     c >= page_align_up(next)}

Clear(regions, c, s) == \A r \in regions : ~Collides(r, c, s)

LEMMA SearchDef ==
  ASSUME NEW regions, NEW next, NEW s
  PROVE  SearchStops(regions, next, s) =
           {c \in Tried(regions, next) :
              Clear(regions, c, s) /\
              \A d \in Tried(regions, next) : Clear(regions, d, s) => c <= d}
BY DEF SearchStops, Tried, Clear

LEMMA TriedAddresses ==
  ASSUME NEW regions, Good(regions), NEW next \in Addr, Whole(next)
  PROVE  /\ next \in Tried(regions, next)
         /\ Tried(regions, next) \subseteq Addr
         /\ \A c \in Tried(regions, next) : c >= next
         /\ \A r \in regions : End(r) >= next => End(r) \in Tried(regions, next)
<1>1. page_align_up(next) = next
  BY UpWhole
<1>2. ASSUME NEW r \in regions PROVE page_align_up(End(r)) = End(r) /\ End(r) \in Addr
  <2>1. /\ r \in Region /\ r.base + r.size < Space
        /\ r.base \in Addr /\ r.size \in Addr /\ End(r) \in Addr
    BY OwnedRegion, EndValue DEF Good
  <2>2. Whole(r.base) /\ Whole(r.size)
    BY PagedWhole DEF Good
  <2>3. Whole(End(r))
    BY <2>1, <2>2, WholeWrap DEF End
  <2> QED BY <2>1, <2>3, UpWhole
<1>3. next \in Nat
  BY SpaceAssumption DEF Addr
<1> QED BY <1>1, <1>2, <1>3 DEF Tried

\* If any page address at or above next fits, the search does not run past it.
LEMMA SearchFinds ==
  ASSUME NEW regions, Good(regions), NEW next \in Addr, Whole(next),
         NEW s \in Addr, NEW c \in SearchStops(regions, next, s),
         NEW a \in Addr, a >= next, ~MapFails(regions, a, s)
  PROVE  ~MapFails(regions, c, s)
<1>0. /\ a \in Nat /\ s \in Nat /\ next \in Nat /\ Space \in Nat
      /\ a < Space /\ s < Space /\ s # 0 /\ Wrap(a + s) >= a
  BY SpaceAssumption DEF Addr, MapFails, Wrap
<1>1. a + s < Space
  BY <1>0 DEF Wrap
<1>2. /\ Tried(regions, next) \in SUBSET Nat /\ next \in Tried(regions, next)
      /\ \A x \in Tried(regions, next) : x >= next
  BY TriedAddresses, SpaceAssumption DEF Addr
<1>3. PICK d \in Tried(regions, next) :
        d <= a /\ \A y \in Tried(regions, next) : y <= a => y <= d
  BY <1>0, <1>2, GreatestBelow
<1>4. d \in Nat /\ d >= next
  BY <1>2, <1>3
<1>5. Clear(regions, d, s)
  <2> SUFFICES ASSUME NEW r \in regions, Collides(r, d, s) PROVE FALSE
    BY DEF Clear
  <2>1. /\ r.base \in Nat /\ r.size \in Nat /\ End(r) = r.base + r.size
    BY OwnedRegion DEF Good
  <2>2. d < End(r) /\ r.base < d + s
    BY <1>0, <1>1, <1>3, <1>4, <2>1 DEF Collides, Wrap
  <2>3. CASE End(r) <= a
    BY <1>2, <1>3, <1>4, <2>1, <2>2, <2>3, TriedAddresses
  <2>4. CASE End(r) > a
    <3>1. Collides(r, a, s)
      BY <1>0, <1>1, <1>3, <1>4, <2>1, <2>2, <2>4 DEF Collides, Wrap
    <3> QED BY <3>1 DEF MapFails
  <2> QED BY <1>0, <2>1, <2>3, <2>4
<1>6. c \in Nat /\ c <= d /\ Clear(regions, c, s)
  BY <1>2, <1>3, <1>5, SearchDef
<1>7. c + s < Space /\ Wrap(c + s) = c + s
  BY <1>0, <1>1, <1>3, <1>4, <1>6 DEF Wrap
<1> QED BY <1>0, <1>6, <1>7 DEF MapFails, Clear

LEMMA AllocateRefines ==
  ASSUME Good(m_regions), m_next_allocation \in Addr, Whole(m_next_allocation),
         NEW size \in Addr, NEW prot \in SUBSET Perm,
         NEW kind \in Kind, NEW file_offset \in Addr,
         Allocate(size, prot, kind, file_offset)
  PROVE  Flat!Allocate(size, prot, kind, file_offset)
<1> DEFINE s == page_align_up(size)
           Fits == {a \in Addr : a % PageSize = 0 /\ a >= m_next_allocation
                                   /\ Flat!Free(Flat!Range(a, size))}
<1>1. s \in Addr /\ Whole(s) /\ page_align_up(s) = s
  BY AlignedArguments, UpWhole
<1>2. PICK c \in SearchStops(m_regions, m_next_allocation, s) :
        IF map_fails(m_regions, c, s)
        THEN /\ out' = "EmulatorError"
             /\ m_next_allocation' = c
             /\ UNCHANGED m_regions
        ELSE /\ out' = "ok"
             /\ m_regions' = map_region(m_regions, c, s, prot, kind, file_offset)
             /\ m_next_allocation' = Wrap(c + s)
  BY DEF Allocate
<1>3. c \in Addr /\ Whole(c) /\ c >= m_next_allocation
  <2> HIDE DEF s
  <2>1. c \in Addr /\ Whole(c)
    BY <1>1, SearchWhole DEF Good
  <2>2. c \in Tried(m_regions, m_next_allocation)
    BY SearchDef
  <2> QED BY <2>1, <2>2, TriedAddresses
\* What is asked of a page address is the same with the size aligned or not.
<1>4. ASSUME NEW a \in Addr, Whole(a)
      PROVE  /\ page_align_down(a) = a
             /\ map_fails(m_regions, a, s) <=> map_fails(m_regions, a, size)
             /\ map_fails(m_regions, a, s) <=> MapFails(m_regions, a, s)
             /\ Flat!Free(Flat!Range(a, size)) <=> ~MapFails(m_regions, a, s)
  <2>1. page_align_down(a) = a
    BY <1>4, DownWhole, SpaceAssumption DEF Addr
  <2>2. Flat!Free(Flat!Range(a, size)) <=> ~map_fails(m_regions, a, size)
    BY FlatFree
  <2> QED BY <1>1, <2>1, <2>2 DEF map_fails
<1>5. CASE map_fails(m_regions, c, s)
  <2>1. Fits = {}
    <3> SUFFICES ASSUME NEW a \in Fits PROVE FALSE
      OBVIOUS
    <3>1. /\ a \in Addr /\ Whole(a) /\ a >= m_next_allocation
          /\ Flat!Free(Flat!Range(a, size))
      BY DEF Whole
    <3>2. ~MapFails(m_regions, a, s)
      BY <1>4, <3>1
    <3> HIDE DEF s, Fits
    <3>3. ~MapFails(m_regions, c, s)
      BY <1>1, <3>1, <3>2, SearchFinds
    <3> QED BY <1>3, <1>4, <1>5, <3>3
  <2>2. FlatView(m_regions)' = FlatView(m_regions) /\ out' = "EmulatorError"
    BY <1>2, <1>5, SameView
  <2>3. m_next_allocation' \in {a \in Addr : a >= m_next_allocation}
    BY <1>2, <1>3, <1>5
  <2> QED BY <2>1, <2>2, <2>3, FlatTerms DEF Flat!Allocate, Flat!Fail
<1>6. CASE ~map_fails(m_regions, c, s)
  <2>1. c \in Fits
    BY <1>3, <1>4, <1>6 DEF Whole
  <2>2. /\ out' = "ok" /\ m_next_allocation' = Wrap(c + s)
        /\ m_regions' = map_region(m_regions, c, s, prot, kind, file_offset)
    BY <1>2, <1>6
  <2>3. map_region(m_regions, c, s, prot, kind, file_offset)
          = map_region(m_regions, c, size, prot, kind, file_offset)
    BY <1>1 DEF map_region
  <2>4. c + s < Space
    BY <1>1, <1>3, <1>4, <1>6, MapView DEF Good
  <2>5. m_next_allocation' = c + Flat!Ceiling(size)
    BY <2>2, <2>4, FlatCeiling DEF Wrap
  <2>6. Flat!MapRange(c, size, prot, kind, file_offset, LAMBDA i : Flat!ZeroCell)
    BY <1>3, <1>4, <1>6, <2>2, <2>3, MapRangeRefines
  <2> QED BY <2>1, <2>2, <2>5, <2>6, FlatTerms DEF Flat!Allocate
<1> QED BY <1>5, <1>6

-----------------------------------------------------------------------------
(* The refinement.                                                         *)

LEMMA CallRefines ==
  ASSUME NEW op, NEW base, NEW size, NEW prot, NEW n, NEW offset, NEW cell
  PROVE  Flat!Call(op, base, size, prot, n, offset, cell)
           = Call(op, base, size, prot, n, offset, cell)
BY DEF Flat!Call, Call

LEMMA InitRefines == Init => Flat!Init
<1> SUFFICES ASSUME Init PROVE Flat!Init
  OBVIOUS
<1>1. \A a \in Addr : FlatByte(m_regions, a) = Nothing
  BY FlatOut DEF Init, Mapped
<1>2. FlatView(m_regions) = [a \in Addr |-> Nothing]
  BY <1>1 DEF FlatView
<1> QED BY <1>2, FlatTerms DEF Init, Flat!Init

\* Every call is the same call of the flat address space.
LEMMA StepRefines == IInv /\ [Next]_vars => [Flat!Next]_(Flat!vars)
<1> SUFFICES ASSUME IInv, [Next]_vars PROVE [Flat!Next]_(Flat!vars)
  OBVIOUS
<1>a. Good(m_regions) /\ m_next_allocation \in Addr /\ Whole(m_next_allocation)
  BY GoodState
<1>b. Lengths \subseteq Addr \ {0}
  BY ArgumentsAssumption
<1>1. ASSUME NEW base \in Bases, NEW size \in Sizes, NEW prot \in Prots,
             Map(base, size, prot, "simple", 0),
             call' = Call("map_zeroed", base, size, prot, 0, 0, ZeroCell)
      PROVE  Flat!Next
  <2>1. Flat!Map(base, size, prot, "simple", 0) /\ UNCHANGED m_next_allocation
    BY <1>a, <1>1, Arguments, MapRefines DEF Map
  <2> QED BY <1>1, <2>1, CallRefines, FlatTerms DEF Flat!Next
<1>2. ASSUME NEW base \in Bases, NEW size \in Sizes, NEW prot \in Prots,
             NEW file_offset \in FileOffsets,
             Map(base, size, prot, "mmap", file_offset),
             call' = Call("map_mmap", base, size, prot, 0, file_offset, ZeroCell)
      PROVE  Flat!Next
  <2>1. Flat!Map(base, size, prot, "mmap", file_offset) /\ UNCHANGED m_next_allocation
    BY <1>a, <1>2, Arguments, MapRefines DEF Map
  <2> QED BY <1>2, <2>1, CallRefines, FlatTerms DEF Flat!Next
<1>3. ASSUME NEW base \in Bases, NEW size \in Sizes, NEW prot \in Prots,
             NEW n \in Lengths, NEW offset \in Offsets, NEW byte \in Byte,
             MapBytes(base, size, prot, n, offset, byte),
             call' = Call("map_bytes", base, size, prot, n, offset,
                          [value |-> byte, initialized |-> TRUE])
      PROVE  Flat!Next
  <2>1. Flat!MapBytes(base, size, prot, n, offset, byte) /\ UNCHANGED m_next_allocation
    BY <1>a, <1>3, Arguments, MapBytesRefines DEF MapBytes
  <2> QED BY <1>3, <2>1, CallRefines, FlatTerms DEF Flat!Next
<1>4. ASSUME NEW size \in Sizes, NEW prot \in Prots,
             Allocate(size, prot, "simple", 0),
             call' = Call("allocate", 0, size, prot, 0, 0, ZeroCell)
      PROVE  Flat!Next
  <2>1. Flat!Allocate(size, prot, "simple", 0)
    BY <1>a, <1>4, Arguments, AllocateRefines
  <2> QED BY <1>4, <2>1, CallRefines, FlatTerms DEF Flat!Next
<1>5. ASSUME NEW size \in Sizes, NEW prot \in Prots, NEW file_offset \in FileOffsets,
             Allocate(size, prot, "mmap", file_offset),
             call' = Call("allocate_mmap", 0, size, prot, 0, file_offset, ZeroCell)
      PROVE  Flat!Next
  <2>1. Flat!Allocate(size, prot, "mmap", file_offset)
    BY <1>a, <1>5, Arguments, AllocateRefines
  <2> QED BY <1>5, <2>1, CallRefines, FlatTerms DEF Flat!Next
<1>6. ASSUME NEW base \in Bases, NEW size \in Sizes, Unmap(base, size),
             call' = Call("unmap", base, size, {}, 0, 0, ZeroCell)
      PROVE  Flat!Next
  <2>1. Flat!Unmap(base, size) /\ UNCHANGED m_next_allocation
    BY <1>a, <1>6, Arguments, UnmapRefines DEF Unmap
  <2> QED BY <1>6, <2>1, CallRefines, FlatTerms DEF Flat!Next
<1>7. ASSUME NEW base \in Bases, NEW size \in Sizes, NEW prot \in Prots,
             Protect(base, size, prot),
             call' = Call("protect", base, size, prot, 0, 0, ZeroCell)
      PROVE  Flat!Next
  <2>1. Flat!Protect(base, size, prot) /\ UNCHANGED m_next_allocation
    BY <1>a, <1>7, Arguments, ProtectRefines DEF Protect
  <2> QED BY <1>7, <2>1, CallRefines, FlatTerms DEF Flat!Next
<1>8. ASSUME NEW address \in Bases, NEW n \in Lengths, NEW cell \in Cell,
             Write(address, n, cell),
             call' = Call("write", address, 0, {}, n, 0, cell)
      PROVE  Flat!Next
  <2>1. Flat!Write(address, n, cell) /\ UNCHANGED m_next_allocation
    BY <1>a, <1>b, <1>8, Arguments, WriteRefines DEF Write
  <2> QED BY <1>8, <2>1, CallRefines, FlatTerms DEF Flat!Next
<1>9. ASSUME NEW address \in Bases, NEW n \in Lengths, NEW initialized \in BOOLEAN,
             MarkInitialized(address, n, initialized),
             call' = Call("mark_initialized", address, 0, {}, n, 0,
                          [value |-> 0, initialized |-> initialized])
      PROVE  Flat!Next
  <2>1. Flat!MarkInitialized(address, n, initialized) /\ UNCHANGED m_next_allocation
    BY <1>a, <1>b, <1>9, Arguments, MarkRefines DEF MarkInitialized
  <2> QED BY <1>9, <2>1, CallRefines, FlatTerms DEF Flat!Next
<1>10. CASE UNCHANGED vars
  <2>1. UNCHANGED Flat!vars
    BY <1>10, SameView DEF vars, Flat!vars
  <2> QED BY <2>1
<1>11. CASE Next
  <2>1. Flat!Next
    BY <1>1, <1>2, <1>3, <1>4, <1>5, <1>6, <1>7, <1>8, <1>9, <1>11, ZenonT(60) DEF Next
  <2> QED BY <2>1
<1> QED BY <1>10, <1>11

\* SoftMMU implements the flat address space, for every page size, address space and
\* sets of arguments: however regions have been split, each call changes exactly the
\* bytes that the same call of AddressSpace changes, fails when that call fails, and
\* an allocation fails only if no free range is left.
THEOREM Refinement == Spec => ImplementsAddressSpace
<1>1. Spec => []IInv
  BY InitGood, Step, PTL DEF Spec
<1> QED BY <1>1, InitRefines, StepRefines, PTL
        DEF Spec, ImplementsAddressSpace, Flat!Spec
=============================================================================
