--------------------------- MODULE RegionsProofs ---------------------------
(***************************************************************************)
(* What the operations on the region list do to it and to the flat view of *)
(* it, for every page size, every size of the address space and all        *)
(* arguments: lemmas that the proofs about SoftMMU and about the memory    *)
(* system calls rest on.                                                   *)
(***************************************************************************)
EXTENDS Regions, WellFoundedInduction, TLAPS

-----------------------------------------------------------------------------
(* Arithmetic.                                                             *)

\* Alignment stays inside the address space, and page_align_down rounds down.
LEMMA AlignType ==
  \A x \in Addr :
    /\ page_align_down(x) \in Addr
    /\ page_align_down(x) <= x
    /\ page_align_up(x) \in Addr
<1>1. PageSize \in Nat /\ PageSize > 0 /\ PageSize <= Space /\ Space \in Nat
  <2>1. PICK k \in 2 .. Space : Space = k * PageSize
    BY SpaceAssumption
  <2>2. k * PageSize >= 1 * PageSize
    BY <2>1, PageSizeAssumption, SpaceAssumption
  <2> QED BY <2>1, <2>2, PageSizeAssumption, SpaceAssumption
<1>2. \A x \in Nat : x % PageSize \in 0 .. PageSize - 1 /\ x % PageSize <= x
  BY <1>1
<1>3. \A x \in Addr : page_align_down(x) \in Addr /\ page_align_down(x) <= x
  BY <1>1, <1>2 DEF Addr, page_align_down
<1>4. \A x \in Addr : Wrap(x + PageSize - 1) \in Addr
  BY <1>1 DEF Addr, Wrap
<1> QED BY <1>3, <1>4 DEF page_align_up

\* A multiple of the page size.
Whole(x) == x % PageSize = 0

LEMMA Quotient ==
  ASSUME NEW x \in Int, NEW p \in Int, p > 0
  PROVE  /\ x \div p \in Int /\ x % p \in 0 .. p - 1
         /\ x = (x \div p) * p + (x % p)
<1>1. x = p * (x \div p) + (x % p)
  OBVIOUS
<1>2. x \div p \in Int /\ x % p \in 0 .. p - 1
  OBVIOUS
<1>3. \A a, b \in Int : a * b = b * a
  OBVIOUS
<1> QED BY <1>1, <1>2, <1>3

LEMMA Multiple ==
  ASSUME NEW x \in Int, NEW p \in Int, p > 0, NEW k \in Int, x = k * p
  PROVE  x % p = 0
OBVIOUS

LEMMA ModUnique ==
  ASSUME NEW x \in Int, NEW p \in Int, p > 0, NEW k \in Int, NEW m \in 0 .. p - 1,
         x = k * p + m
  PROVE  x % p = m
<1> DEFINE q == x \div p
           n == x % p
<1>1. q \in Int /\ n \in 0 .. p - 1 /\ x = q * p + n
  BY Quotient
<1> HIDE DEF q, n
<1>2. (q - k) * p = m - n
  BY <1>1
<1>3. q - k >= 1 => (q - k) * p >= 1 * p
  BY <1>1
<1>4. q - k <= -1 => (q - k) * p <= (-1) * p
  BY <1>1
<1>5. q - k = 0
  BY <1>1, <1>2, <1>3, <1>4
<1>6. n = m
  BY <1>1, <1>2, <1>5
<1> QED BY <1>6 DEF n

\* Every set of naturals has a least element.
LEMMA Least ==
  ASSUME NEW T \in SUBSET Nat, T # {}
  PROVE  \E x \in T : \A y \in T : x <= y
<1> DEFINE R == OpToRel(<, Nat)
<1>1. IsWellFoundedOn(R, Nat)
  BY NatLessThanWellFounded
<1>2. \A x, y \in Nat : x < y => <<x, y>> \in R
  BY DEF OpToRel
<1> HIDE DEF R
<1>3. PICK x \in T : \A y \in T : ~(<<y, x>> \in R)
  BY <1>1, WFMin
<1>4. \A y \in T : ~(y < x)
  BY <1>2, <1>3
<1> QED BY <1>3, <1>4

LEMMA WholeSteps ==
  \A x \in Int : Whole(x) <=> \E k \in Int : x = k * PageSize
<1> SUFFICES ASSUME NEW x \in Int PROVE Whole(x) <=> \E k \in Int : x = k * PageSize
  OBVIOUS
<1>0. PageSize \in Int /\ PageSize > 0
  BY PageSizeAssumption
<1>1. x \div PageSize \in Int /\ x = (x \div PageSize) * PageSize + (x % PageSize)
  BY <1>0, Quotient
<1>2. ASSUME NEW k \in Int, x = k * PageSize PROVE x % PageSize = 0
  BY <1>0, <1>2, Multiple
<1>3. ASSUME x % PageSize = 0 PROVE x = (x \div PageSize) * PageSize
  BY <1>0, <1>1, <1>3
<1> QED BY <1>1, <1>2, <1>3 DEF Whole

LEMMA WholeSum ==
  ASSUME NEW a \in Int, NEW b \in Int, Whole(a), Whole(b)
  PROVE  Whole(a + b) /\ Whole(a - b)
<1>1. PageSize \in Int /\ PageSize > 0
  BY PageSizeAssumption
<1>2. PICK k \in Int : a = k * PageSize
  BY WholeSteps
<1>3. PICK m \in Int : b = m * PageSize
  BY WholeSteps
<1>4. a + b = (k + m) * PageSize
  BY <1>1, <1>2, <1>3
<1>5. a - b = (k - m) * PageSize
  BY <1>1, <1>2, <1>3
<1> QED BY <1>4, <1>5, WholeSteps

\* Two multiples of the page size are a page apart or the same.
LEMMA WholeGap ==
  ASSUME NEW a \in Int, NEW b \in Int, Whole(a), Whole(b), a < b
  PROVE  a + PageSize <= b
<1>1. PageSize \in Int /\ PageSize > 0
  BY PageSizeAssumption
<1>2. PICK k \in Int : a = k * PageSize
  BY WholeSteps
<1>3. PICK m \in Int : b = m * PageSize
  BY WholeSteps
<1>4. m - k >= 1
  <2>1. (m - k) * PageSize > 0
    BY <1>1, <1>2, <1>3
  <2> QED BY <1>1, <2>1
<1>5. (m - k) * PageSize >= PageSize
  BY <1>1, <1>4
<1> QED BY <1>1, <1>2, <1>3, <1>5

LEMMA WholeSpace == Whole(0) /\ Whole(Space)
<1>1. PICK k \in 2 .. Space : Space = k * PageSize
  BY SpaceAssumption
<1>2. Space \in Int /\ k \in Int /\ PageSize \in Int /\ 0 = 0 * PageSize
  BY <1>1, SpaceAssumption, PageSizeAssumption
<1> QED BY <1>1, <1>2, WholeSteps

\* Rounding down.
LEMMA DownWhole ==
  ASSUME NEW x \in Int
  PROVE  /\ page_align_down(x) \in Int /\ Whole(page_align_down(x))
         /\ page_align_down(x) <= x /\ x < page_align_down(x) + PageSize
         /\ Whole(x) => page_align_down(x) = x
<1>1. PageSize \in Int /\ PageSize > 0
  BY PageSizeAssumption
<1>2. /\ x \div PageSize \in Int /\ x % PageSize \in 0 .. PageSize - 1
      /\ x = (x \div PageSize) * PageSize + (x % PageSize)
  BY <1>1, Quotient
<1>3. page_align_down(x) = (x \div PageSize) * PageSize
  BY <1>1, <1>2 DEF page_align_down
<1>4. page_align_down(x) \in Int
  BY <1>1, <1>2 DEF page_align_down
<1>5. Whole(page_align_down(x))
  BY <1>2, <1>3, <1>4, WholeSteps
<1> QED BY <1>1, <1>2, <1>4, <1>5 DEF page_align_down, Whole

\* Rounding up, of an address.  It wraps to 0 in the last page only.
LEMMA UpWhole ==
  ASSUME NEW x \in Addr
  PROVE  /\ page_align_up(x) \in Addr /\ Whole(page_align_up(x))
         /\ x <= Space - PageSize => x <= page_align_up(x) /\ page_align_up(x) < x + PageSize
         /\ x > Space - PageSize => page_align_up(x) = 0
         /\ Whole(x) => page_align_up(x) = x
<1>1. PageSize \in Int /\ PageSize > 0 /\ Space \in Int /\ x \in Int /\ 0 <= x /\ x < Space
  BY PageSizeAssumption, SpaceAssumption DEF Addr
<1>2. Whole(Space) /\ Whole(Space - PageSize) /\ PageSize <= Space
  <2>1. 0 < Space /\ Whole(0) /\ 0 \in Int
    BY <1>1, WholeSpace
  <2>2. 0 + PageSize <= Space
    BY <1>1, <2>1, WholeSpace, WholeGap
  <2>3. PageSize = 1 * PageSize
    BY <1>1
  <2>4. Whole(PageSize)
    BY <1>1, <2>3, WholeSteps
  <2> QED BY <1>1, <2>2, <2>4, WholeSpace, WholeSum
<1> DEFINE y == Wrap(x + PageSize - 1)
           z == page_align_down(y)
<1>3. y \in Int /\ (x <= Space - PageSize => y = x + PageSize - 1)
      /\ (x > Space - PageSize => 0 <= y /\ y < PageSize - 1)
  BY <1>1 DEF Wrap
<1>4. page_align_up(x) = z
  BY DEF page_align_up
<1> HIDE DEF y, z
<1>5. z \in Int /\ Whole(z) /\ z <= y /\ y < z + PageSize
  BY <1>3, DownWhole DEF z
<1>6. CASE x <= Space - PageSize
  <2>1. x <= z /\ z < x + PageSize /\ z <= Space - PageSize
    <3>1. x <= z /\ z < x + PageSize /\ z < Space
      BY <1>1, <1>3, <1>5, <1>6
    <3>2. z + PageSize <= Space
      BY <1>1, <1>2, <1>5, <3>1, WholeGap
    <3> QED BY <1>1, <1>5, <3>1, <3>2
  <2>2. Whole(x) => z = x
    <3> SUFFICES ASSUME Whole(x), z # x PROVE FALSE
      OBVIOUS
    <3>1. x + PageSize <= z
      BY <1>1, <1>5, <2>1, WholeGap
    <3> QED BY <1>1, <1>5, <2>1, <3>1
  <2> QED BY <1>1, <1>4, <1>5, <1>6, <2>1, <2>2 DEF Addr
<1>7. CASE x > Space - PageSize
  <2>1. z = 0
    <3>1. z < PageSize /\ z > -PageSize
      BY <1>1, <1>3, <1>5, <1>7
    <3>2. Whole(0) /\ 0 \in Int
      BY WholeSpace
    <3>3. ~(0 < z)
      <4>1. 0 < z => 0 + PageSize <= z
        BY <1>5, <3>2, WholeGap
      <4> QED BY <1>1, <1>5, <3>1, <4>1
    <3>4. ~(z < 0)
      <4>1. z < 0 => z + PageSize <= 0
        BY <1>5, <3>2, WholeGap
      <4> QED BY <1>1, <1>5, <3>1, <4>1
    <3> QED BY <1>5, <3>3, <3>4
  <2>2. ~Whole(x)
    <3> SUFFICES ASSUME Whole(x) PROVE FALSE
      OBVIOUS
    <3>1. x + PageSize <= Space
      BY <1>1, <1>2, WholeGap
    <3> QED BY <1>1, <1>7, <3>1
  <2> QED BY <1>1, <1>4, <1>5, <1>7, <2>1, <2>2 DEF Addr
<1> QED BY <1>1, <1>6, <1>7

-----------------------------------------------------------------------------
(* Splitting regions.                                                      *)

Region == UNION {RegionsOfSize(n) : n \in Addr}

\* The regions of a well-formed list are regions.
LEMMA WellFormedRegions ==
  ASSUME NEW regions
  PROVE  WellFormed(regions) <=>
           \A r \in regions : r \in Region /\ r.base + r.size < Space
BY DEF WellFormed, Region

\* The fields of a region have the types the code gives them.
LEMMA RegionFields ==
  \A r \in Region :
    /\ r.base \in Addr /\ r.size \in Addr /\ r.prot \in SUBSET Perm
    /\ r.kind \in Kind /\ r.file_offset \in Addr
    /\ r.cells \in [0 .. r.size - 1 -> Cell]
BY DEF Region, RegionsOfSize

\* The end of a region that lies inside the address space does not wrap.
LEMMA EndValue ==
  ASSUME NEW r \in Region, r.base + r.size < Space
  PROVE  End(r) = r.base + r.size /\ End(r) \in Addr
BY RegionFields, SpaceAssumption DEF End, Wrap, Addr

\* A record with fields of the right types is a region.
LEMMA MakeRegion ==
  ASSUME NEW base \in Addr, NEW size \in Addr, NEW prot \in SUBSET Perm,
         NEW kind \in Kind, NEW file_offset \in Addr,
         NEW cells \in [0 .. size - 1 -> Cell]
  PROVE  [base |-> base, size |-> size, prot |-> prot, kind |-> kind,
          file_offset |-> file_offset, cells |-> cells] \in Region
BY DEF Region, RegionsOfSize

\* A slice that lies within a region is a region with the given place and size.
LEMMA SliceType ==
  ASSUME NEW r \in Region, NEW base \in Addr, NEW offset \in Nat, NEW size \in Nat,
         offset + size <= r.size
  PROVE  /\ clone_slice(r, base, offset, size) \in Region
         /\ clone_slice(r, base, offset, size).base = base
         /\ clone_slice(r, base, offset, size).size = size
<1> DEFINE fo == IF r.kind = "mmap" THEN Wrap(r.file_offset + offset) ELSE r.file_offset
           cs == [i \in 0 .. size - 1 |-> r.cells[offset + i]]
<1>1. size \in Addr /\ offset \in Addr
  BY RegionFields, SpaceAssumption DEF Addr
<1>2. fo \in Addr
  BY <1>1, RegionFields, SpaceAssumption DEF Wrap, Addr
<1>3. cs \in [0 .. size - 1 -> Cell]
  <2>1. \A i \in 0 .. size - 1 : offset + i \in 0 .. r.size - 1
    BY RegionFields, SpaceAssumption DEF Addr
  <2> QED BY <2>1, RegionFields
<1>4. [base |-> base, size |-> size, prot |-> r.prot, kind |-> r.kind,
       file_offset |-> fo, cells |-> cs] \in Region
  <2> HIDE DEF fo, cs
  <2> QED BY <1>1, <1>2, <1>3, RegionFields, MakeRegion
<1> QED BY <1>4 DEF clone_slice

\* Apart: the two ranges of addresses do not meet.
Apart(r, s) ==
  \/ r.base + r.size <= s.base
  \/ s.base + s.size <= r.base

\* Within: the range of p is part of the range of r.
Within(p, r) == r.base <= p.base /\ p.base + p.size <= r.base + r.size

\* Whether a range splits a region without aborting.
Splits(r, b, e) == Outside(r, b, e) \/ b <= e

\* p is the part of r that has its place.
Part(p, r) ==
  p \in Region /\ Within(p, r) /\ p = clone_slice(r, p.base, p.base - r.base, p.size)

\* The range of the middle piece.
CutStart(r, b) == Larger(b, r.base)
CutStop(r, e) == Smaller(e, r.base + r.size)

\* The three pieces of a region that a range meets, and where they lie.
LEMMA PieceShapes ==
  ASSUME NEW r \in Region, r.base + r.size < Space,
         NEW b \in Addr, NEW e \in Addr, ~Outside(r, b, e), b <= e
  PROVE  /\ e > r.base /\ b < r.base + r.size
         /\ CutStart(r, b) \in Nat /\ CutStop(r, e) \in Nat
         /\ CutStart(r, b) <= CutStop(r, e) /\ CutStart(r, b) >= r.base /\ CutStart(r, b) >= b
         /\ CutStop(r, e) <= e /\ CutStop(r, e) <= r.base + r.size
         /\ b > r.base => CutStart(r, b) = b
         /\ e < r.base + r.size => CutStop(r, e) = e
         /\ \A p \in Before(r, b) :
              Part(p, r) /\ b > r.base /\ p.base = r.base /\ p.base + p.size = CutStart(r, b)
         /\ \A p \in Middle(r, b, e) :
              Part(p, r) /\ p.base = CutStart(r, b) /\ p.base + p.size = CutStop(r, e)
         /\ \A p \in After(r, e) :
              /\ Part(p, r) /\ e < r.base + r.size
              /\ p.base = CutStop(r, e) /\ p.base + p.size = r.base + r.size
         /\ (b > r.base => Before(r, b) # {}) /\ Middle(r, b, e) # {}
         /\ (e < r.base + r.size => After(r, e) # {})
<1> DEFINE start == CutStart(r, b)
           stop == CutStop(r, e)
<1>0. End(r) = r.base + r.size
  BY EndValue
<1>1. /\ r.base \in Nat /\ r.size \in Nat /\ b \in Nat /\ e \in Nat
      /\ Space \in Nat /\ r.base \in Addr
  BY RegionFields, SpaceAssumption DEF Addr
<1>2. e > r.base /\ b < r.base + r.size
  BY <1>0, <1>1 DEF Outside
<1>3. /\ start \in Nat /\ stop \in Nat /\ start <= stop
      /\ start >= r.base /\ start >= b /\ stop <= e /\ stop <= r.base + r.size
      /\ (b > r.base => start = b) /\ (e < r.base + r.size => stop = e)
      /\ start \in Addr /\ stop \in Addr
  BY <1>1, <1>2 DEF CutStart, CutStop, Larger, Smaller, Addr
<1> HIDE DEF start, stop
\* A slice in its own place.
<1>4. ASSUME NEW from \in Addr, NEW to \in Addr, r.base <= from, from <= to,
             to <= r.base + r.size
      PROVE  LET p == clone_slice(r, from, from - r.base, to - from)
             IN  Part(p, r) /\ p.base = from /\ p.base + p.size = to
  <2> DEFINE p == clone_slice(r, from, from - r.base, to - from)
  <2>1. /\ from \in Nat /\ to \in Nat
        /\ from - r.base \in Nat /\ to - from \in Nat /\ (from - r.base) + (to - from) <= r.size
    BY <1>1, <1>4 DEF Addr
  <2>2. p \in Region /\ p.base = from /\ p.size = to - from
    BY ONLY <2>1, SliceType, r \in Region, from \in Addr
  <2>3. p = clone_slice(r, p.base, p.base - r.base, p.size)
    BY <2>2
  <2> HIDE DEF p
  <2>4. p.base + p.size = to /\ Within(p, r)
    BY <1>1, <1>4, <2>1, <2>2 DEF Within
  <2>5. Part(p, r)
    BY <2>2, <2>3, <2>4 DEF Part
  <2> QED BY <2>2, <2>4, <2>5 DEF p
<1>5. ASSUME b > r.base
      PROVE  LET p == clone_slice(r, r.base, 0, b - r.base)
             IN  Part(p, r) /\ p.base = r.base /\ p.base + p.size = start
  <2>1. r.base - r.base = 0
    BY <1>1
  <2> QED BY <1>1, <1>2, <1>3, <1>4, <1>5, <2>1
<1>6. LET p == clone_slice(r, start, start - r.base, stop - start)
      IN  Part(p, r) /\ p.base = start /\ p.base + p.size = stop
  BY <1>3, <1>4
<1>7. ASSUME e < r.base + r.size
      PROVE  LET p == clone_slice(r, e, e - r.base, (r.base + r.size) - e)
             IN  Part(p, r) /\ p.base = stop /\ p.base + p.size = r.base + r.size
  <2> DEFINE to == r.base + r.size
  <2>1. to \in Addr /\ r.base <= e /\ e <= to /\ to <= r.base + r.size
    BY <1>1, <1>2, <1>7 DEF Addr
  <2> HIDE DEF to
  <2>2. LET p == clone_slice(r, e, e - r.base, to - e)
        IN  Part(p, r) /\ p.base = e /\ p.base + p.size = to
    BY <1>4, <2>1
  <2> QED BY <1>3, <1>7, <2>2 DEF to
<1>8. /\ \A p \in Before(r, b) :
           Part(p, r) /\ b > r.base /\ p.base = r.base /\ p.base + p.size = start
      /\ (b > r.base => Before(r, b) # {})
  BY <1>5 DEF Before
<1>9. /\ \A p \in Middle(r, b, e) :
           Part(p, r) /\ p.base = start /\ p.base + p.size = stop
      /\ Middle(r, b, e) # {}
  BY <1>0, <1>6 DEF Middle, start, stop, CutStart, CutStop
<1>10. /\ \A p \in After(r, e) :
            /\ Part(p, r) /\ e < r.base + r.size
            /\ p.base = stop /\ p.base + p.size = r.base + r.size
       /\ (e < r.base + r.size => After(r, e) # {})
  BY <1>0, <1>7 DEF After
<1> QED BY <1>2, <1>3, <1>8, <1>9, <1>10 DEF start, stop

\* The pieces of a region are regions within it, pairwise apart.
LEMMA PiecesType ==
  ASSUME NEW r \in Region, r.base + r.size < Space,
         NEW b \in Addr, NEW e \in Addr, Splits(r, b, e)
  PROVE  /\ \A p \in Pieces(r, b, e) : p \in Region /\ Within(p, r) /\ (p = r \/ Part(p, r))
         /\ \A p, q \in Pieces(r, b, e) : p # q => Apart(p, q)
<1>1. CASE Outside(r, b, e)
  BY <1>1, RegionFields, SpaceAssumption DEF Pieces, Within, Addr
<1>2. CASE ~Outside(r, b, e)
  <2>1. b <= e
    BY <1>2 DEF Splits
  <2>2. Pieces(r, b, e) = Before(r, b) \cup Middle(r, b, e) \cup After(r, e)
    BY <1>2 DEF Pieces
  <2>3. /\ CutStart(r, b) \in Nat /\ CutStop(r, e) \in Nat /\ CutStart(r, b) <= CutStop(r, e)
        /\ \A p \in Before(r, b) : Part(p, r) /\ p.base + p.size = CutStart(r, b)
        /\ \A p \in Middle(r, b, e) :
             Part(p, r) /\ p.base = CutStart(r, b) /\ p.base + p.size = CutStop(r, e)
        /\ \A p \in After(r, e) : Part(p, r) /\ p.base = CutStop(r, e)
    BY <1>2, <2>1, PieceShapes
  <2>4. \A p \in Pieces(r, b, e) : Part(p, r) /\ p \in Region /\ Within(p, r)
    BY <2>2, <2>3 DEF Part
  <2>5. /\ \A p, q \in Before(r, b) : p = q
        /\ \A p, q \in Middle(r, b, e) : p = q
        /\ \A p, q \in After(r, e) : p = q
    BY DEF Before, Middle, After
  <2>6. \A p, q \in Pieces(r, b, e) : p # q => Apart(p, q)
    <3> SUFFICES ASSUME NEW p \in Pieces(r, b, e), NEW q \in Pieces(r, b, e), p # q
                 PROVE  Apart(p, q)
      OBVIOUS
    <3>1. CASE p \in Before(r, b)
      BY <3>1, <2>2, <2>3, <2>5 DEF Apart
    <3>2. CASE p \in Middle(r, b, e)
      BY <3>2, <2>2, <2>3, <2>5 DEF Apart
    <3>3. CASE p \in After(r, e)
      BY <3>3, <2>2, <2>3, <2>5 DEF Apart
    <3> QED BY <2>2, <3>1, <3>2, <3>3
  <2> QED BY <2>4, <2>6
<1> QED BY <1>1, <1>2

-----------------------------------------------------------------------------
(* The region list.                                                        *)

\* The inductive invariant of the region list.
Owned(regions) ==
  /\ WellFormed(regions)
  /\ Unique(regions)

\* Two well-formed regions share no address exactly if they are apart or empty.
LEMMA SharedAddress ==
  ASSUME NEW r \in Region, r.base + r.size < Space,
         NEW s \in Region, s.base + s.size < Space
  PROVE  (~\E a \in Addr : Contains(r, a) /\ Contains(s, a))
           <=> (Apart(r, s) \/ r.size = 0 \/ s.size = 0)
<1>1. End(r) = r.base + r.size /\ End(s) = s.base + s.size
  BY EndValue
<1>2. r.base \in Addr /\ r.size \in Addr /\ s.base \in Addr /\ s.size \in Addr
  BY RegionFields
<1>3. ASSUME NEW a \in Addr, Contains(r, a), Contains(s, a)
      PROVE  ~Apart(r, s) /\ r.size # 0 /\ s.size # 0
  BY <1>1, <1>2, <1>3, SpaceAssumption DEF Contains, Apart, Addr
<1>4. ASSUME ~Apart(r, s), r.size # 0, s.size # 0
      PROVE  \E a \in Addr : Contains(r, a) /\ Contains(s, a)
  <2> DEFINE a == Larger(r.base, s.base)
  <2>1. a \in Addr /\ Contains(r, a) /\ Contains(s, a)
    BY <1>1, <1>2, <1>4, SpaceAssumption DEF Contains, Apart, Addr, Larger
  <2> QED BY <2>1
<1> QED BY <1>3, <1>4

\* split_around keeps the list owned.
LEMMA SplitOwned ==
  ASSUME NEW regions, Owned(regions), NEW b \in Addr, NEW size \in Addr,
         ~SplitAborts(regions, b, size)
  PROVE  Owned(split_around(regions, b, size))
<1> DEFINE e == Wrap(b + size)
           new == split_around(regions, b, size)
<1>1. e \in Addr
  BY SpaceAssumption DEF Wrap, Addr
<1>2. \A r \in regions : r \in Region /\ r.base + r.size < Space
  BY WellFormedRegions DEF Owned
<1>3. \A r \in regions : Splits(r, b, e)
  <2> SUFFICES ASSUME NEW r \in regions, ~Outside(r, b, e) PROVE b <= e
    BY DEF Splits
  <2>1. ~(e < b)
    BY DEF SplitAborts
  <2> QED BY <2>1, <1>1 DEF Addr
<1> HIDE DEF e
<1>4. \A r \in regions :
        /\ \A p \in Pieces(r, b, e) : p \in Region /\ Within(p, r)
        /\ \A p, q \in Pieces(r, b, e) : p # q => Apart(p, q)
  BY <1>1, <1>2, <1>3, PiecesType
<1>5. \A p \in new : \E r \in regions : p \in Pieces(r, b, e)
  BY DEF split_around, e
<1> HIDE DEF new
<1>6. \A p \in new : p \in Region /\ p.base + p.size < Space
  <2> SUFFICES ASSUME NEW p \in new PROVE p \in Region /\ p.base + p.size < Space
    OBVIOUS
  <2>1. PICK r \in regions : p \in Pieces(r, b, e)
    BY <1>5
  <2>2. p \in Region /\ Within(p, r) /\ r \in Region /\ r.base + r.size < Space
    BY <2>1, <1>4, <1>2
  <2> QED BY <2>2, RegionFields, SpaceAssumption DEF Within, Addr
<1>7. ASSUME NEW p \in new, NEW q \in new, p # q
      PROVE  ~\E a \in Addr : Contains(p, a) /\ Contains(q, a)
  <2>1. PICK r \in regions : p \in Pieces(r, b, e)
    BY <1>5
  <2>2. PICK s \in regions : q \in Pieces(s, b, e)
    BY <1>5
  <2>3. p \in Region /\ q \in Region /\ Within(p, r) /\ Within(q, s)
        /\ r \in Region /\ s \in Region
        /\ r.base + r.size < Space /\ s.base + s.size < Space
        /\ p.base + p.size < Space /\ q.base + q.size < Space
    BY <2>1, <2>2, <1>2, <1>4, <1>6
  <2>4. CASE r = s
    <3>1. Apart(p, q)
      BY <2>1, <2>2, <2>4, <1>4, <1>7
    <3> QED BY <3>1, <2>3, SharedAddress
  <2>5. CASE r # s
    <3>1. ~\E a \in Addr : Contains(r, a) /\ Contains(s, a)
      BY <2>5 DEF Owned, Unique
    <3>2. ASSUME NEW a \in Addr
          PROVE  /\ Contains(p, a) => Contains(r, a)
                 /\ Contains(q, a) => Contains(s, a)
      <4>1. End(p) = p.base + p.size /\ End(q) = q.base + q.size
            /\ End(r) = r.base + r.size /\ End(s) = s.base + s.size
        BY <2>3, EndValue
      <4>2. /\ p.base \in Nat /\ p.size \in Nat /\ r.base \in Nat /\ r.size \in Nat
            /\ q.base \in Nat /\ q.size \in Nat /\ s.base \in Nat /\ s.size \in Nat
        BY <2>3, RegionFields, SpaceAssumption DEF Addr
      <4>3. a \in Nat BY SpaceAssumption DEF Addr
      <4>4. Contains(p, a) => Contains(r, a)
        BY ONLY <4>1, <4>2, <4>3, <2>3 DEF Contains, Within
      <4>5. Contains(q, a) => Contains(s, a)
        BY ONLY <4>1, <4>2, <4>3, <2>3 DEF Contains, Within
      <4> QED BY <4>4, <4>5
    <3> QED BY <3>1, <3>2
  <2> QED BY <2>4, <2>5
<1> QED BY <1>6, <1>7, WellFormedRegions DEF Owned, Unique, new

\* Removing regions keeps the list owned.
LEMMA SubsetOwned ==
  ASSUME NEW S, NEW T, Owned(S), T \subseteq S
  PROVE  Owned(T)
BY WellFormedRegions DEF Owned, Unique

\* unmap keeps the list owned.
LEMMA UnmapOwned ==
  ASSUME NEW regions, Owned(regions), NEW base \in Addr, NEW size \in Addr,
         ~range_aborts(regions, base, size)
  PROVE  Owned(unmap(regions, base, size))
<1> DEFINE b == page_align_down(base)
           s == page_align_up(size)
<1>1. b \in Addr /\ s \in Addr
  BY AlignType
<1>2. CASE size = 0
  BY <1>2 DEF unmap
<1>3. CASE size # 0
  <2>1. ~SplitAborts(regions, b, s)
    BY <1>3 DEF range_aborts
  <2>2. Owned(split_around(regions, b, s))
    <3> HIDE DEF b, s
    <3> QED BY <1>1, <2>1, SplitOwned
  <2>3. unmap(regions, base, size) \subseteq split_around(regions, b, s)
    BY <1>3 DEF unmap
  <2> QED BY <2>2, <2>3, SubsetOwned
<1> QED BY <1>2, <1>3

\* Replacing regions one by one, each by one in the same place, keeps the list owned.
LEMMA SamePlaceOwned ==
  ASSUME NEW S, NEW T, Owned(S), T \subseteq Region,
         \A t \in T : \E r \in S : t.base = r.base /\ t.size = r.size,
         \A t, u \in T : t # u => \E r, s \in S :
            /\ r # s
            /\ t.base = r.base /\ t.size = r.size
            /\ u.base = s.base /\ u.size = s.size
  PROVE  Owned(T)
<1>1. \A t \in T : t.base + t.size < Space
  BY WellFormedRegions DEF Owned
<1>2. ASSUME NEW t \in T, NEW u \in T, t # u
      PROVE  ~\E a \in Addr : Contains(t, a) /\ Contains(u, a)
  <2>1. PICK r \in S, s \in S :
            /\ r # s
            /\ t.base = r.base /\ t.size = r.size
            /\ u.base = s.base /\ u.size = s.size
    BY <1>2
  <2>2. ~\E a \in Addr : Contains(r, a) /\ Contains(s, a)
    BY <2>1 DEF Owned, Unique
  <2> QED BY <2>1, <2>2 DEF Contains, End
<1> QED BY <1>1, <1>2, WellFormedRegions DEF Owned, Unique

\* protect keeps the list owned.
LEMMA ProtectOwned ==
  ASSUME NEW regions, Owned(regions), NEW base \in Addr, NEW size \in Addr,
         NEW prot \in SUBSET Perm, ~range_aborts(regions, base, size)
  PROVE  Owned(protect(regions, base, size, prot))
<1> DEFINE b == page_align_down(base)
           s == page_align_up(size)
           S == split_around(regions, b, s)
           T == protect(regions, base, size, prot)
<1>1. b \in Addr /\ s \in Addr
  BY AlignType
<1>2. CASE size = 0
  BY <1>2 DEF protect
<1>3. CASE size # 0
  <2>1. ~SplitAborts(regions, b, s)
    BY <1>3 DEF range_aborts
  <2>2. Owned(S)
    <3> HIDE DEF b, s
    <3> QED BY <1>1, <2>1, SplitOwned
  <2>3. T = {IF Covered(r, b, s) THEN WithProt(r, prot) ELSE r : r \in S}
    BY <1>3 DEF protect
  <2> HIDE DEF S, T, b, s
  <2>4. \A r \in S : WithProt(r, prot) \in Region
                     /\ WithProt(r, prot).base = r.base /\ WithProt(r, prot).size = r.size
    <3> SUFFICES ASSUME NEW r \in S
                 PROVE  WithProt(r, prot) \in Region /\ WithProt(r, prot).base = r.base
                        /\ WithProt(r, prot).size = r.size
      OBVIOUS
    <3>1. r \in Region
      BY <2>2, WellFormedRegions DEF Owned
    <3>2. WithProt(r, prot) \in Region
      BY <3>1, RegionFields, MakeRegion DEF WithProt
    <3> QED BY <3>2 DEF WithProt
  <2>5. \A t \in T : \E r \in S : /\ t = (IF Covered(r, b, s) THEN WithProt(r, prot) ELSE r)
                                  /\ t \in Region /\ t.base = r.base /\ t.size = r.size
    BY <2>2, <2>3, <2>4, WellFormedRegions DEF Owned
  <2>6. \A t, u \in T : t # u => \E r, q \in S :
            /\ r # q
            /\ t.base = r.base /\ t.size = r.size
            /\ u.base = q.base /\ u.size = q.size
    BY <2>5
  <2>7. T \subseteq Region /\ \A t \in T : \E r \in S : t.base = r.base /\ t.size = r.size
    BY <2>5
  <2>8. Owned(T)
    BY ONLY <2>2, <2>6, <2>7, SamePlaceOwned
  <2> QED BY <2>8 DEF T
<1> QED BY <1>2, <1>3

\* A region put where ensure_no_overlap allows it keeps the list owned.
LEMMA AddOwned ==
  ASSUME NEW regions, Owned(regions), NEW r \in Region,
         ~MapFails(regions, r.base, r.size)
  PROVE  Owned(regions \cup {r})
<1>1. r.base \in Addr /\ r.size \in Addr /\ r.base + r.size < Space
  BY RegionFields, SpaceAssumption DEF MapFails, Wrap, Addr
<1>2. ASSUME NEW q \in regions
      PROVE  ~\E a \in Addr : Contains(r, a) /\ Contains(q, a)
  <2>1. q \in Region /\ q.base + q.size < Space
    BY WellFormedRegions DEF Owned
  <2>2. ~Collides(q, r.base, r.size)
    BY DEF MapFails
  <2>3. End(q) = q.base + q.size /\ Wrap(r.base + r.size) = r.base + r.size
    BY <2>1, <1>1, EndValue DEF Wrap
  <2>4. Apart(r, q)
    BY <2>1, <2>2, <2>3, <1>1, RegionFields, SpaceAssumption DEF Collides, Apart, Addr
  <2> QED BY <2>1, <2>4, <1>1, SharedAddress
<1> QED BY <1>1, <1>2, WellFormedRegions DEF Owned, Unique

\* map_zeroed, map_mmap and the final map of an allocation keep the list owned.
LEMMA MapOwned ==
  ASSUME NEW regions, Owned(regions), NEW base \in Addr, NEW size \in Addr,
         NEW prot \in SUBSET Perm, NEW kind \in Kind, NEW file_offset \in Addr,
         ~map_fails(regions, base, size)
  PROVE  Owned(map_region(regions, base, size, prot, kind, file_offset))
<1> DEFINE b == page_align_down(base)
           s == page_align_up(size)
<1>1. b \in Addr /\ s \in Addr
  BY AlignType
<1>2. ~MapFails(regions, b, s)
  BY DEF map_fails
<1> HIDE DEF b, s
<1> DEFINE r == NewRegion(b, s, prot, kind, file_offset)
<1>3. [i \in 0 .. s - 1 |-> ZeroCell] \in [0 .. s - 1 -> Cell]
  BY ByteAssumption DEF ZeroCell, Cell
<1>4. r \in Region /\ r.base = b /\ r.size = s
  BY <1>1, <1>3, MakeRegion DEF NewRegion
<1> HIDE DEF r
<1>5. Owned(regions \cup {r})
  BY <1>2, <1>4, AddOwned
<1> QED BY <1>5 DEF map_region, r, b, s

\* Writes keep the list owned: they replace regions in place.
LEMMA WriteOwned ==
  ASSUME NEW regions, Owned(regions), NEW address \in Addr, NEW size \in Addr,
         NEW bytes \in [0 .. size - 1 -> Cell]
  PROVE  Owned(write_bytes(regions, address, size, bytes))
<1> DEFINE I == Reached(regions, address, size, "W")
           cells(r) == [k \in 0 .. r.size - 1 |->
                          IF Distance(address, r.base + k) \in I
                          THEN bytes[Distance(address, r.base + k)]
                          ELSE r.cells[k]]
           new(r) == [base |-> r.base, size |-> r.size, prot |-> r.prot,
                      kind |-> r.kind, file_offset |-> r.file_offset,
                      cells |-> cells(r)]
           T == write_bytes(regions, address, size, bytes)
<1>1. T = {new(r) : r \in regions}
  BY DEF write_bytes, UpdateCells
<1>2. I \subseteq 0 .. size - 1
  BY DEF Reached
<1> HIDE DEF I, T
<1>3. ASSUME NEW r \in regions
      PROVE  new(r) \in Region /\ new(r).base = r.base /\ new(r).size = r.size
  <2>1. r \in Region
    BY WellFormedRegions DEF Owned
  <2>2. cells(r) \in [0 .. r.size - 1 -> Cell]
    BY <2>1, <1>2, RegionFields
  <2> HIDE DEF cells
  <2> QED BY <2>1, <2>2, RegionFields, MakeRegion
<1> HIDE DEF new
<1>4. \A t \in T : \E r \in regions :
          t = new(r) /\ t \in Region /\ t.base = r.base /\ t.size = r.size
  BY <1>1, <1>3
<1>5. \A t, u \in T : t # u => \E r, s \in regions :
            /\ r # s
            /\ t.base = r.base /\ t.size = r.size
            /\ u.base = s.base /\ u.size = s.size
  BY <1>4
<1>6. Owned(T)
  BY <1>4, <1>5, SamePlaceOwned
<1> QED BY <1>6 DEF T

\* mark_initialized keeps the list owned.
LEMMA MarkOwned ==
  ASSUME NEW regions, Owned(regions), NEW address \in Addr, NEW size \in Addr,
         NEW initialized \in BOOLEAN
  PROVE  Owned(mark_initialized(regions, address, size, initialized))
<1> DEFINE I == Reached(regions, address, size, "R")
           cells(r) == [k \in 0 .. r.size - 1 |->
                          IF Distance(address, r.base + k) \in I
                          THEN [value |-> r.cells[k].value, initialized |-> initialized]
                          ELSE r.cells[k]]
           new(r) == [base |-> r.base, size |-> r.size, prot |-> r.prot,
                      kind |-> r.kind, file_offset |-> r.file_offset,
                      cells |-> cells(r)]
           T == mark_initialized(regions, address, size, initialized)
<1>1. T = {new(r) : r \in regions}
  BY DEF mark_initialized, UpdateCells
<1> HIDE DEF I, T
<1>2. ASSUME NEW r \in regions
      PROVE  new(r) \in Region /\ new(r).base = r.base /\ new(r).size = r.size
  <2>1. r \in Region
    BY WellFormedRegions DEF Owned
  <2>2. cells(r) \in [0 .. r.size - 1 -> Cell]
    BY <2>1, RegionFields DEF Cell
  <2> HIDE DEF cells
  <2> QED BY <2>1, <2>2, RegionFields, MakeRegion
<1> HIDE DEF new
<1>3. \A t \in T : \E r \in regions :
          t = new(r) /\ t \in Region /\ t.base = r.base /\ t.size = r.size
  BY <1>1, <1>2
<1>4. \A t, u \in T : t # u => \E r, s \in regions :
            /\ r # s
            /\ t.base = r.base /\ t.size = r.size
            /\ u.base = s.base /\ u.size = s.size
  BY <1>3
<1>5. Owned(T)
  BY <1>3, <1>4, SamePlaceOwned
<1> QED BY <1>5 DEF T

\* The search for a free range only tries addresses of the address space.
LEMMA SearchType ==
  ASSUME NEW regions, WellFormed(regions), NEW next \in Addr, NEW size \in Addr,
         NEW c \in SearchStops(regions, next, size)
  PROVE  c \in Addr
<1>1. \A r \in regions : End(r) \in Addr
  BY EndValue, WellFormedRegions
<1>2. \A r \in regions : page_align_up(End(r)) \in Addr
  BY <1>1, AlignType
<1> QED BY <1>2, AlignType DEF SearchStops

-----------------------------------------------------------------------------
(* The flat view: what the guest sees of the regions.                      *)

\* The byte of a region at an address it contains, and the byte that is not mapped.
ByteIn(r, a) ==
  [mapped |-> TRUE, prot |-> r.prot, kind |-> r.kind,
   offset |-> IF r.kind = "mmap" THEN Wrap(r.file_offset + (a - r.base)) ELSE 0,
   cell |-> r.cells[a - r.base]]

Nothing ==
  [mapped |-> FALSE, prot |-> {}, kind |-> "none", offset |-> 0, cell |-> ZeroCell]

\* A mapped byte with other permissions, and with another cell.
Protected(byte, prot) ==
  [mapped |-> TRUE, prot |-> prot, kind |-> byte.kind, offset |-> byte.offset,
   cell |-> byte.cell]

Stored(byte, cell) ==
  [mapped |-> TRUE, prot |-> byte.prot, kind |-> byte.kind, offset |-> byte.offset,
   cell |-> cell]

LEMMA ProtectedByte ==
  ASSUME NEW r, NEW t, NEW a, NEW prot, t.prot = prot, t.kind = r.kind, t.base = r.base,
         t.file_offset = r.file_offset, t.cells = r.cells
  PROVE  ByteIn(t, a) = Protected(ByteIn(r, a), prot)
BY DEF ByteIn, Protected

LEMMA StoredByte ==
  ASSUME NEW r, NEW t, NEW a, NEW cell, t.prot = r.prot, t.kind = r.kind, t.base = r.base,
         t.file_offset = r.file_offset, t.cells[a - r.base] = cell
  PROVE  ByteIn(t, a) = Stored(ByteIn(r, a), cell)
BY DEF ByteIn, Stored

\* Contains without the wrapping sum.
Spans(r, a) == r.base <= a /\ a < r.base + r.size

LEMMA ContainsSpans ==
  ASSUME NEW r \in Region, r.base + r.size < Space, NEW a
  PROVE  Contains(r, a) <=> Spans(r, a)
BY EndValue, RegionFields, SpaceAssumption DEF Contains, Spans, Addr

\* The regions of an owned list.
LEMMA OwnedRegion ==
  ASSUME NEW regions, Owned(regions), NEW r \in regions
  PROVE  /\ r \in Region /\ r.base + r.size < Space
         /\ r.base \in Nat /\ r.size \in Nat /\ r.base \in Addr /\ r.size \in Addr
         /\ End(r) = r.base + r.size
         /\ \A a : Contains(r, a) <=> Spans(r, a)
<1>1. r \in Region /\ r.base + r.size < Space
  BY WellFormedRegions DEF Owned
<1>2. r.base \in Addr /\ r.size \in Addr
  BY <1>1, RegionFields
<1>3. r.base \in Nat /\ r.size \in Nat
  BY <1>2, SpaceAssumption DEF Addr
<1>4. End(r) = r.base + r.size
  BY <1>1, EndValue
<1>5. \A a : Contains(r, a) <=> Spans(r, a)
  BY <1>1, ContainsSpans
<1> QED BY <1>1, <1>2, <1>3, <1>4, <1>5

\* find_region finds the owner.
LEMMA FlatIn ==
  ASSUME NEW regions, Unique(regions), NEW r \in regions, NEW a \in Addr, Contains(r, a)
  PROVE  /\ Mapped(regions, a) /\ find_region(regions, a) = r
         /\ FlatByte(regions, a) = ByteIn(r, a)
<1>1. Mapped(regions, a)
  BY DEF Mapped
<1>2. \A s \in regions : Contains(s, a) => s = r
  BY DEF Unique
<1>3. find_region(regions, a) = r
  BY <1>2 DEF find_region
<1> QED BY <1>1, <1>3 DEF FlatByte, ByteIn

LEMMA FlatOut ==
  ASSUME NEW regions, NEW a, ~Mapped(regions, a)
  PROVE  FlatByte(regions, a) = Nothing
BY DEF FlatByte, Nothing

LEMMA FlatMapped ==
  ASSUME NEW regions, NEW a
  PROVE  FlatByte(regions, a).mapped <=> Mapped(regions, a)
BY DEF FlatByte

\* Two lists whose regions agree at an address have the same byte there.
LEMMA SameByte ==
  ASSUME NEW S, NEW T, Unique(S), Unique(T), NEW a \in Addr,
         Mapped(S, a) => Mapped(T, a),
         \A t \in T : Contains(t, a) => \E r \in S : Contains(r, a) /\ ByteIn(t, a) = ByteIn(r, a)
  PROVE  FlatByte(T, a) = FlatByte(S, a)
<1>1. CASE Mapped(T, a)
  <2>1. PICK t \in T : Contains(t, a)
    BY <1>1 DEF Mapped
  <2>2. PICK r \in S : Contains(r, a) /\ ByteIn(t, a) = ByteIn(r, a)
    BY <2>1
  <2> QED BY <2>1, <2>2, FlatIn
<1>2. CASE ~Mapped(T, a)
  BY <1>2, FlatOut
<1> QED BY <1>1, <1>2

\* A part of a region shows the bytes of the region: permissions, contents, shadow
\* bits and file offsets (Region::clone_slice).
LEMMA PartByte ==
  ASSUME NEW r \in Region, r.base + r.size < Space, NEW p, Part(p, r),
         NEW a \in Addr, Spans(p, a)
  PROVE  Spans(r, a) /\ ByteIn(p, a) = ByteIn(r, a)
<1>1. /\ p \in Region /\ Within(p, r)
      /\ p = clone_slice(r, p.base, p.base - r.base, p.size)
  BY DEF Part
<1>2. /\ r.base \in Nat /\ r.size \in Nat /\ p.base \in Nat /\ p.size \in Nat
      /\ r.file_offset \in Nat /\ r.file_offset < Space /\ a \in Nat /\ Space \in Nat
  BY <1>1, RegionFields, SpaceAssumption DEF Addr
<1>3. Spans(r, a)
  BY <1>1, <1>2 DEF Within, Spans
<1>4. p.prot = r.prot /\ p.kind = r.kind
  BY <1>1 DEF clone_slice
<1>5. r.kind = "mmap" => p.file_offset = Wrap(r.file_offset + (p.base - r.base))
  BY <1>1 DEF clone_slice
<1>6. r.kind = "mmap" =>
        Wrap(p.file_offset + (a - p.base)) = Wrap(r.file_offset + (a - r.base))
  BY <1>1, <1>2, <1>5 DEF Wrap, Within, Spans
<1>7. p.cells[a - p.base] = r.cells[a - r.base]
  <2>1. a - p.base \in 0 .. p.size - 1
    BY <1>2 DEF Spans
  <2>2. p.cells = [i \in 0 .. p.size - 1 |-> r.cells[(p.base - r.base) + i]]
    BY <1>1 DEF clone_slice
  <2>3. p.cells[a - p.base] = r.cells[(p.base - r.base) + (a - p.base)]
    BY <2>1, <2>2
  <2>4. (p.base - r.base) + (a - p.base) = a - r.base
    BY <1>2
  <2> QED BY <2>3, <2>4
<1> QED BY <1>3, <1>4, <1>6, <1>7 DEF ByteIn

\* The pieces of a region cover it.
LEMMA PiecesCover ==
  ASSUME NEW r \in Region, r.base + r.size < Space,
         NEW b \in Addr, NEW e \in Addr, Splits(r, b, e), NEW a \in Addr, Spans(r, a)
  PROVE  \E p \in Pieces(r, b, e) : Spans(p, a)
<1>1. CASE Outside(r, b, e)
  BY <1>1 DEF Pieces
<1>2. CASE ~Outside(r, b, e)
  <2>1. b <= e
    BY <1>2 DEF Splits
  <2>2. Pieces(r, b, e) = Before(r, b) \cup Middle(r, b, e) \cup After(r, e)
    BY <1>2 DEF Pieces
  <2>3. r.base \in Nat /\ r.size \in Nat /\ a \in Nat /\ b \in Nat /\ e \in Nat
    BY RegionFields, SpaceAssumption DEF Addr
  <2>4. CASE b > r.base /\ a < CutStart(r, b)
    <3>1. PICK p \in Before(r, b) : p.base = r.base /\ p.base + p.size = CutStart(r, b)
      BY <1>2, <2>1, <2>4, PieceShapes
    <3> QED BY <2>2, <2>4, <3>1 DEF Spans
  <2>5. CASE e < r.base + r.size /\ a >= CutStop(r, e)
    <3>1. PICK p \in After(r, e) : p.base = CutStop(r, e) /\ p.base + p.size = r.base + r.size
      BY <1>2, <2>1, <2>5, PieceShapes
    <3> QED BY <2>2, <2>5, <3>1 DEF Spans
  <2>6. CASE (b > r.base => a >= CutStart(r, b)) /\ (e < r.base + r.size => a < CutStop(r, e))
    <3>1. PICK p \in Middle(r, b, e) : p.base = CutStart(r, b) /\ p.base + p.size = CutStop(r, e)
      BY <1>2, <2>1, PieceShapes
    <3>2. CutStart(r, b) <= a
      BY <2>3, <2>6 DEF CutStart, Larger, Spans
    <3>3. a < CutStop(r, e)
      BY <2>3, <2>6 DEF CutStop, Smaller, Spans
    <3> QED BY <2>2, <3>1, <3>2, <3>3 DEF Spans
  <2>7. CutStart(r, b) \in Nat /\ CutStop(r, e) \in Nat
    BY <1>2, <2>1, PieceShapes
  <2> QED BY <2>3, <2>4, <2>5, <2>6, <2>7
<1> QED BY <1>1, <1>2

\* A piece lies in the range or apart from it.
LEMMA PiecesCut ==
  ASSUME NEW r \in Region, r.base + r.size < Space,
         NEW b \in Addr, NEW e \in Addr, b <= e, NEW p \in Pieces(r, b, e)
  PROVE  \/ b <= p.base /\ p.base + p.size <= e
         \/ e <= p.base
         \/ p.base + p.size <= b
<1>0. End(r) = r.base + r.size
  BY EndValue
<1>1. CASE Outside(r, b, e)
  <2>1. p = r
    BY <1>1 DEF Pieces
  <2> QED BY <1>0, <1>1, <2>1, RegionFields, SpaceAssumption DEF Outside, Addr
<1>2. CASE ~Outside(r, b, e)
  <2>1. p \in Before(r, b) \cup Middle(r, b, e) \cup After(r, e)
    BY <1>2 DEF Pieces
  <2>2. CASE p \in Before(r, b)
    <3>1. p.base + p.size = b
      BY <1>2, <2>2, PieceShapes
    <3> QED BY <3>1, SpaceAssumption DEF Addr
  <2>3. CASE p \in Middle(r, b, e)
    BY <1>2, <2>3, PieceShapes
  <2>4. CASE p \in After(r, e)
    <3>1. p.base = e
      BY <1>2, <2>4, PieceShapes
    <3> QED BY <3>1, SpaceAssumption DEF Addr
  <2> QED BY <2>1, <2>2, <2>3, <2>4
<1> QED BY <1>1, <1>2

\* What is known of the pieces of an owned list.
LEMMA SplitPieces ==
  ASSUME NEW regions, Owned(regions), NEW b \in Addr, NEW size \in Addr,
         ~SplitAborts(regions, b, size)
  PROVE  /\ Wrap(b + size) \in Addr
         /\ \A r \in regions : Splits(r, b, Wrap(b + size))
         /\ \A p \in split_around(regions, b, size) :
              \E r \in regions : p \in Pieces(r, b, Wrap(b + size)) /\ (p = r \/ Part(p, r))
<1> DEFINE e == Wrap(b + size)
<1>1. e \in Addr
  BY SpaceAssumption DEF Wrap, Addr
<1>2. \A r \in regions : r \in Region /\ r.base + r.size < Space
  BY WellFormedRegions DEF Owned
<1>3. \A r \in regions : Splits(r, b, e)
  <2> SUFFICES ASSUME NEW r \in regions, ~Outside(r, b, e) PROVE b <= e
    BY DEF Splits
  <2>1. ~(e < b)
    BY DEF SplitAborts
  <2> QED BY <2>1, <1>1, SpaceAssumption DEF Addr
<1>4. \A p \in split_around(regions, b, size) : \E r \in regions : p \in Pieces(r, b, e)
  BY DEF split_around
<1> HIDE DEF e
<1>5. \A r \in regions : \A p \in Pieces(r, b, e) : p = r \/ Part(p, r)
  BY <1>1, <1>2, <1>3, PiecesType
<1> QED BY <1>1, <1>3, <1>4, <1>5 DEF e

\* split_around changes nothing that the guest sees.
LEMMA SplitView ==
  ASSUME NEW regions, Owned(regions), NEW b \in Addr, NEW size \in Addr,
         ~SplitAborts(regions, b, size), NEW a \in Addr
  PROVE  FlatByte(split_around(regions, b, size), a) = FlatByte(regions, a)
<1> DEFINE e == Wrap(b + size)
           T == split_around(regions, b, size)
<1>1. Owned(T)
  BY SplitOwned
<1>2. /\ e \in Addr
      /\ \A r \in regions : Splits(r, b, e)
      /\ \A p \in T : \E r \in regions : p \in Pieces(r, b, e) /\ (p = r \/ Part(p, r))
  BY SplitPieces
<1>3. T = UNION {Pieces(r, b, e) : r \in regions}
  BY DEF split_around
<1> HIDE DEF e, T
<1>4. Mapped(regions, a) => Mapped(T, a)
  <2> SUFFICES ASSUME NEW r \in regions, Contains(r, a) PROVE Mapped(T, a)
    BY DEF Mapped
  <2>1. r \in Region /\ r.base + r.size < Space /\ Spans(r, a)
    BY OwnedRegion
  <2>2. PICK p \in Pieces(r, b, e) : Spans(p, a)
    BY <1>2, <2>1, PiecesCover
  <2>3. p \in T
    BY <1>3
  <2> QED BY <1>1, <2>2, <2>3, OwnedRegion DEF Mapped
<1>5. ASSUME NEW p \in T, Contains(p, a)
      PROVE  \E r \in regions : Contains(r, a) /\ ByteIn(p, a) = ByteIn(r, a)
  <2>1. PICK r \in regions : p = r \/ Part(p, r)
    BY <1>2
  <2>2. CASE p = r
    BY <1>5, <2>2
  <2>3. CASE Part(p, r)
    <3>1. Spans(p, a)
      BY <1>1, <1>5, OwnedRegion
    <3>2. r \in Region /\ r.base + r.size < Space
      BY OwnedRegion
    <3>3. Spans(r, a) /\ ByteIn(p, a) = ByteIn(r, a)
      BY <2>3, <3>1, <3>2, PartByte
    <3> QED BY <3>3, OwnedRegion
  <2> QED BY <2>1, <2>2, <2>3
<1>6. Unique(regions) /\ Unique(T)
  BY <1>1 DEF Owned
<1>7. FlatByte(T, a) = FlatByte(regions, a)
  BY <1>4, <1>5, <1>6, SameByte
<1> QED BY <1>7 DEF T

\* The addresses of a range of pages: none when the range reaches the end of the
\* address space.
Span(b, s) == IF b + s < Space THEN b .. b + s - 1 ELSE {}
PageSpan(base, size) == Span(page_align_down(base), page_align_up(size))

\* After split_around the regions that the range covers are those that lie in it.
LEMMA SplitCovered ==
  ASSUME NEW regions, Owned(regions), NEW b \in Addr, NEW size \in Addr,
         ~SplitAborts(regions, b, size),
         NEW p \in split_around(regions, b, size), NEW a \in Addr, Contains(p, a)
  PROVE  Covered(p, b, size) <=> a \in Span(b, size)
<1> DEFINE e == Wrap(b + size)
           T == split_around(regions, b, size)
<1>1. Owned(T)
  BY SplitOwned
<1>2. /\ p \in Region /\ p.base \in Nat /\ p.size \in Nat /\ End(p) = p.base + p.size
      /\ Spans(p, a)
  BY <1>1, OwnedRegion
<1>3. a \in Nat /\ b \in Nat /\ size \in Nat /\ size < Space /\ b < Space /\ Space \in Nat
  BY SpaceAssumption DEF Addr
<1>4. CASE b + size < Space
  <2>1. e = b + size
    BY <1>4 DEF Wrap
  <2>2. PICK r \in regions : p \in Pieces(r, b, e)
    BY SplitPieces
  <2>3. r \in Region /\ r.base + r.size < Space /\ e \in Addr /\ b <= e
    BY <1>3, <1>4, <2>1, OwnedRegion DEF Addr
  <2> HIDE DEF e
  <2>4. \/ b <= p.base /\ p.base + p.size <= e
        \/ e <= p.base
        \/ p.base + p.size <= b
    BY <2>2, <2>3, PiecesCut
  <2>5. Covered(p, b, size) <=> p.base >= b /\ p.base + p.size <= e
    BY <1>2 DEF Covered, e
  <2>6. a \in Span(b, size) <=> b <= a /\ a < e
    BY <1>3, <1>4, <2>1 DEF Span
  <2> QED BY <1>2, <1>3, <1>4, <2>1, <2>4, <2>5, <2>6 DEF Spans
<1>5. CASE b + size >= Space
  <2>1. e = b + size - Space /\ e < b
    BY <1>3, <1>5 DEF Wrap
  <2>2. ~Covered(p, b, size)
    BY <1>2, <1>3, <2>1 DEF Covered
  <2>3. a \notin Span(b, size)
    BY <1>3, <1>5 DEF Span
  <2> QED BY <2>2, <2>3
<1> QED BY <1>3, <1>4, <1>5

\* The arguments of unmap and protect, aligned.
LEMMA RangeArguments ==
  ASSUME NEW regions, NEW base \in Addr, NEW size \in Addr,
         ~range_aborts(regions, base, size)
  PROVE  /\ page_align_down(base) \in Addr /\ page_align_up(size) \in Addr
         /\ size = 0 => PageSpan(base, size) = {}
         /\ size # 0 => ~SplitAborts(regions, page_align_down(base), page_align_up(size))
<1>1. page_align_down(base) \in Addr /\ page_align_up(size) \in Addr
  BY AlignType
<1>2. size = 0 => PageSpan(base, size) = {}
  <2> SUFFICES ASSUME size = 0 PROVE PageSpan(base, size) = {}
    OBVIOUS
  <2>1. page_align_up(size) = 0
    BY UpWhole, WholeSpace
  <2> QED BY <1>1, <2>1, SpaceAssumption DEF PageSpan, Span, Addr
<1> QED BY <1>1, <1>2 DEF range_aborts

\* unmap removes the bytes of its pages and changes no other.
LEMMA UnmapView ==
  ASSUME NEW regions, Owned(regions), NEW base \in Addr, NEW size \in Addr,
         ~range_aborts(regions, base, size), NEW a \in Addr
  PROVE  FlatByte(unmap(regions, base, size), a)
           = IF a \in PageSpan(base, size) THEN Nothing ELSE FlatByte(regions, a)
<1> DEFINE b == page_align_down(base)
           s == page_align_up(size)
           S == split_around(regions, b, s)
           T == unmap(regions, base, size)
<1>1. CASE size = 0
  BY <1>1, RangeArguments DEF unmap
<1>2. CASE size # 0
  <2>1. b \in Addr /\ s \in Addr /\ ~SplitAborts(regions, b, s)
    BY <1>2, RangeArguments
  <2>2. T = {r \in S : ~Covered(r, b, s)} /\ PageSpan(base, size) = Span(b, s)
    BY <1>2 DEF unmap, PageSpan
  <2> HIDE DEF b, s, T
  <2>3. Owned(S)
    BY <2>1, SplitOwned
  <2>4. FlatByte(S, a) = FlatByte(regions, a)
    BY <2>1, SplitView
  <2>5. \A r \in S : Contains(r, a) => (Covered(r, b, s) <=> a \in Span(b, s))
    BY <2>1, SplitCovered
  <2> HIDE DEF S
  <2>6. Owned(T) /\ T \subseteq S
    BY <2>2, <2>3, SubsetOwned
  <2>7. CASE a \in Span(b, s)
    <3>1. ~Mapped(T, a)
      BY <2>2, <2>5, <2>7 DEF Mapped
    <3> QED BY <2>2, <2>7, <3>1, FlatOut DEF T
  <2>8. CASE a \notin Span(b, s)
    <3>1. Mapped(S, a) => Mapped(T, a)
      BY <2>2, <2>5, <2>8 DEF Mapped
    <3>2. Unique(S) /\ Unique(T)
      BY <2>3, <2>6 DEF Owned
    <3>3. FlatByte(T, a) = FlatByte(S, a)
      BY <2>6, <3>1, <3>2, SameByte
    <3> QED BY <2>2, <2>4, <2>8, <3>3 DEF T
  <2> QED BY <2>7, <2>8
<1> QED BY <1>1, <1>2

\* protect sets the permissions of the mapped bytes of its pages and changes nothing
\* else.
LEMMA ProtectView ==
  ASSUME NEW regions, Owned(regions), NEW base \in Addr, NEW size \in Addr,
         NEW prot \in SUBSET Perm, ~range_aborts(regions, base, size), NEW a \in Addr
  PROVE  FlatByte(protect(regions, base, size, prot), a)
           = IF a \in PageSpan(base, size) /\ Mapped(regions, a)
             THEN Protected(FlatByte(regions, a), prot) ELSE FlatByte(regions, a)
<1> DEFINE b == page_align_down(base)
           s == page_align_up(size)
           S == split_around(regions, b, s)
           T == protect(regions, base, size, prot)
<1>1. CASE size = 0
  BY <1>1, RangeArguments DEF protect
<1>2. CASE size # 0
  <2>1. b \in Addr /\ s \in Addr /\ ~SplitAborts(regions, b, s)
    BY <1>2, RangeArguments
  <2>2. /\ T = {IF Covered(r, b, s) THEN WithProt(r, prot) ELSE r : r \in S}
        /\ PageSpan(base, size) = Span(b, s)
    BY <1>2 DEF protect, PageSpan
  <2>3. Owned(T)
    BY ProtectOwned
  <2> HIDE DEF b, s, T
  <2>4. Owned(S)
    BY <2>1, SplitOwned
  <2>5. FlatByte(S, a) = FlatByte(regions, a)
    BY <2>1, SplitView
  <2>6. \A r \in S : Contains(r, a) => (Covered(r, b, s) <=> a \in Span(b, s))
    BY <2>1, SplitCovered
  <2> HIDE DEF S
  <2>7. Unique(S) /\ Unique(T)
    BY <2>3, <2>4 DEF Owned
  <2>8. CASE ~Mapped(S, a)
    <3>1. ~Mapped(T, a)
      <4> SUFFICES ASSUME NEW t \in T, Contains(t, a) PROVE FALSE
        BY DEF Mapped
      <4>1. PICK r \in S : t = IF Covered(r, b, s) THEN WithProt(r, prot) ELSE r
        BY <2>2
      <4>2. t.base = r.base /\ t.size = r.size
        BY <4>1 DEF WithProt
      <4>3. Contains(r, a)
        BY <4>2 DEF Contains, End
      <4> QED BY <2>8, <4>3 DEF Mapped
    <3>2. ~Mapped(regions, a)
      BY <2>5, <2>8, FlatMapped
    <3> QED BY <2>5, <2>8, <3>1, <3>2, FlatOut DEF T
  <2>9. CASE Mapped(S, a)
    <3>1. PICK r \in S : Contains(r, a)
      BY <2>9 DEF Mapped
    <3>2. Mapped(regions, a)
      BY <2>5, <2>9, FlatMapped
    <3>3. FlatByte(regions, a) = ByteIn(r, a)
      BY <2>5, <2>7, <3>1, FlatIn
    <3> DEFINE t == IF Covered(r, b, s) THEN WithProt(r, prot) ELSE r
    <3>4. t \in T /\ Contains(t, a)
      BY <2>2, <3>1 DEF WithProt, Contains, End
    <3>5. FlatByte(T, a) = ByteIn(t, a)
      BY <2>7, <3>4, FlatIn
    <3>6. a \in Span(b, s) => ByteIn(t, a) = Protected(ByteIn(r, a), prot)
      <4> SUFFICES ASSUME a \in Span(b, s)
                   PROVE  ByteIn(t, a) = Protected(ByteIn(r, a), prot)
        OBVIOUS
      <4>1. t = WithProt(r, prot)
        BY <2>6, <3>1
      <4>2. /\ t.prot = prot /\ t.kind = r.kind /\ t.base = r.base
            /\ t.file_offset = r.file_offset /\ t.cells = r.cells
        BY <4>1 DEF WithProt
      <4> HIDE DEF t
      <4> QED BY <4>2, ProtectedByte
    <3>7. a \notin Span(b, s) => ByteIn(t, a) = ByteIn(r, a)
      BY <2>6, <3>1
    <3> QED BY <2>2, <3>2, <3>3, <3>5, <3>6, <3>7 DEF T
  <2> QED BY <2>8, <2>9
<1> QED BY <1>1, <1>2

\* A region put where ensure_no_overlap allows it shows its bytes in its range, which
\* was free, and changes no other byte.
LEMMA AddView ==
  ASSUME NEW regions, Owned(regions), NEW r \in Region,
         ~MapFails(regions, r.base, r.size), NEW a \in Addr
  PROVE  /\ r.base + r.size < Space /\ r.size # 0
         /\ Contains(r, a) <=> a \in Span(r.base, r.size)
         /\ Contains(r, a) => ~Mapped(regions, a)
         /\ FlatByte(regions \cup {r}, a)
              = IF a \in Span(r.base, r.size) THEN ByteIn(r, a) ELSE FlatByte(regions, a)
<1> DEFINE T == regions \cup {r}
<1>1. Owned(T) /\ r \in T
  BY AddOwned
<1>2. r.base \in Addr /\ r.size \in Addr /\ r.base + r.size < Space /\ r.size # 0
  BY RegionFields, SpaceAssumption DEF MapFails, Wrap, Addr
<1>3. Contains(r, a) <=> a \in Span(r.base, r.size)
  BY <1>2, ContainsSpans, SpaceAssumption DEF Spans, Span, Addr
<1>4. Unique(T) /\ Unique(regions)
  BY <1>1 DEF Owned
<1>5. Contains(r, a) => ~Mapped(regions, a)
  <2> SUFFICES ASSUME Contains(r, a), NEW q \in regions, Contains(q, a) PROVE FALSE
    BY DEF Mapped
  <2>1. q = r
    BY <1>4 DEF Unique
  <2>2. ~Collides(r, r.base, r.size)
    BY <2>1 DEF MapFails
  <2>3. End(r) = r.base + r.size /\ Wrap(r.base + r.size) = r.base + r.size
    BY <1>2, EndValue DEF Wrap
  <2> QED BY <1>2, <2>2, <2>3, SpaceAssumption DEF Collides, Addr
<1>6. CASE Contains(r, a)
  <2>1. FlatByte(T, a) = ByteIn(r, a)
    BY <1>1, <1>4, <1>6, FlatIn
  <2> QED BY <1>2, <1>3, <1>5, <1>6, <2>1
<1>7. CASE ~Contains(r, a)
  <2>1. \A t \in T : Contains(t, a) => t \in regions
    BY <1>7
  <2>2. Mapped(regions, a) => Mapped(T, a)
    BY DEF Mapped
  <2>3. FlatByte(T, a) = FlatByte(regions, a)
    BY <1>4, <2>1, <2>2, SameByte
  <2> QED BY <1>2, <1>3, <1>5, <1>7, <2>3
<1> QED BY <1>6, <1>7

\* map_zeroed and map_mmap map zero bytes in their pages, which were free, and change
\* no other byte.
LEMMA MapView ==
  ASSUME NEW regions, Owned(regions), NEW base \in Addr, NEW size \in Addr,
         NEW prot \in SUBSET Perm, NEW kind \in Kind, NEW file_offset \in Addr,
         ~map_fails(regions, base, size), NEW a \in Addr
  PROVE  /\ page_align_down(base) + page_align_up(size) < Space
         /\ page_align_up(size) # 0
         /\ a \in PageSpan(base, size) => ~Mapped(regions, a)
         /\ FlatByte(map_region(regions, base, size, prot, kind, file_offset), a)
              = IF a \in PageSpan(base, size)
                THEN [mapped |-> TRUE, prot |-> prot, kind |-> kind,
                      offset |-> IF kind = "mmap"
                                 THEN Wrap(file_offset + (a - page_align_down(base))) ELSE 0,
                      cell |-> ZeroCell]
                ELSE FlatByte(regions, a)
<1> DEFINE b == page_align_down(base)
           s == page_align_up(size)
           r == NewRegion(b, s, prot, kind, file_offset)
<1>1. b \in Addr /\ s \in Addr
  BY AlignType
<1>2. ~MapFails(regions, b, s) /\ PageSpan(base, size) = Span(b, s)
  BY DEF map_fails, PageSpan
<1>3. map_region(regions, base, size, prot, kind, file_offset) = regions \cup {r}
  BY DEF map_region
<1> HIDE DEF b, s
<1>4. [i \in 0 .. s - 1 |-> ZeroCell] \in [0 .. s - 1 -> Cell]
  BY ByteAssumption DEF ZeroCell, Cell
<1>5. r \in Region /\ r.base = b /\ r.size = s
  BY <1>1, <1>4, MakeRegion DEF NewRegion
<1>6. a \in Span(b, s) =>
        ByteIn(r, a) = [mapped |-> TRUE, prot |-> prot, kind |-> kind,
                        offset |-> IF kind = "mmap" THEN Wrap(file_offset + (a - b)) ELSE 0,
                        cell |-> ZeroCell]
  <2> SUFFICES ASSUME a \in Span(b, s)
               PROVE  ByteIn(r, a) = [mapped |-> TRUE, prot |-> prot, kind |-> kind,
                        offset |-> IF kind = "mmap" THEN Wrap(file_offset + (a - b)) ELSE 0,
                        cell |-> ZeroCell]
    OBVIOUS
  <2>1. a - b \in 0 .. s - 1
    BY <1>1, SpaceAssumption DEF Span, Addr
  <2> QED BY <2>1 DEF ByteIn, NewRegion
<1> HIDE DEF r
<1>7. /\ b + s < Space /\ s # 0
      /\ a \in Span(b, s) => ~Mapped(regions, a)
      /\ FlatByte(regions \cup {r}, a)
           = IF a \in Span(b, s) THEN ByteIn(r, a) ELSE FlatByte(regions, a)
  BY <1>2, <1>5, AddView
<1>8. CASE a \in Span(b, s)
  BY <1>2, <1>3, <1>6, <1>7, <1>8 DEF b, s
<1>9. CASE a \notin Span(b, s)
  BY <1>2, <1>3, <1>7, <1>9 DEF b, s
<1> QED BY <1>8, <1>9

\* An address is its distance away.
LEMMA DistanceBack ==
  ASSUME NEW address \in Addr, NEW a \in Addr
  PROVE  /\ Distance(address, a) \in Addr
         /\ Wrap(address + Distance(address, a)) = a
         /\ \A i \in Addr : Wrap(address + i) = a <=> i = Distance(address, a)
BY SpaceAssumption DEF Distance, Wrap, Addr

\* A byte can be accessed if and only if the flat view shows the permission.
LEMMA AccessibleView ==
  ASSUME NEW regions, Unique(regions), NEW a \in Addr, NEW perm
  PROVE  Accessible(regions, a, perm) <=> perm \in FlatByte(regions, a).prot
<1>1. CASE Mapped(regions, a)
  <2>1. PICK r \in regions : Contains(r, a)
    BY <1>1 DEF Mapped
  <2>2. FlatByte(regions, a).prot = r.prot
    BY <2>1, FlatIn DEF ByteIn
  <2>3. \A s \in regions : Contains(s, a) => s = r
    BY <2>1 DEF Unique
  <2> QED BY <2>1, <2>2, <2>3 DEF Accessible
<1>2. CASE ~Mapped(regions, a)
  BY <1>2, FlatOut DEF Accessible, Mapped, Nothing
<1> QED BY <1>1, <1>2

\* What a byte-by-byte access reaches is accessible.
LEMMA ReachedMapped ==
  ASSUME NEW regions, NEW address \in Addr, NEW size \in Addr, NEW perm, NEW a \in Addr,
         Distance(address, a) \in Reached(regions, address, size, perm)
  PROVE  Mapped(regions, a) /\ Distance(address, a) \in 0 .. size - 1
<1> DEFINE i == Distance(address, a)
<1>1. i \in 0 .. size - 1 /\ \A j \in 0 .. i : Accessible(regions, Wrap(address + j), perm)
  BY DEF Reached
<1>2. i \in 0 .. i /\ Wrap(address + i) = a
  BY <1>1, DistanceBack, SpaceAssumption DEF Addr
<1> QED BY <1>1, <1>2 DEF Accessible, Mapped

\* Regions replaced in place: the byte is that of the region now in its place.
LEMMA InPlaceView ==
  ASSUME NEW S, NEW T, Owned(S), Owned(T), NEW a \in Addr,
         \A t \in T : \E r \in S : t.base = r.base /\ t.size = r.size
  PROVE  /\ Mapped(T, a) => Mapped(S, a)
         /\ \A r \in S, t \in T : Contains(r, a) /\ t.base = r.base /\ t.size = r.size =>
              FlatByte(S, a) = ByteIn(r, a) /\ FlatByte(T, a) = ByteIn(t, a)
<1>1. \A r \in S, t \in T : t.base = r.base /\ t.size = r.size =>
        (Contains(t, a) <=> Contains(r, a))
  BY DEF Contains, End
<1>2. Mapped(T, a) => Mapped(S, a)
  BY <1>1 DEF Mapped
<1>3. Unique(S) /\ Unique(T)
  BY DEF Owned
<1> QED BY <1>1, <1>2, <1>3, FlatIn

\* The bytes that a write can store.
Strings(n) == [0 .. n - 1 -> Cell]

\* A write changes the cells of the bytes before the first fault, and nothing else.
LEMMA WriteView ==
  ASSUME NEW regions, Owned(regions), NEW address \in Addr, NEW size \in Addr,
         NEW bytes \in Strings(size), NEW a \in Addr
  PROVE  FlatByte(write_bytes(regions, address, size, bytes), a)
           = IF Distance(address, a) \in Reached(regions, address, size, "W")
             THEN Stored(FlatByte(regions, a), bytes[Distance(address, a)])
             ELSE FlatByte(regions, a)
<1> DEFINE I == Reached(regions, address, size, "W")
           i == Distance(address, a)
           cells(r) == [k \in 0 .. r.size - 1 |->
                          IF Distance(address, r.base + k) \in I
                          THEN bytes[Distance(address, r.base + k)]
                          ELSE r.cells[k]]
           new(r) == [base |-> r.base, size |-> r.size, prot |-> r.prot,
                      kind |-> r.kind, file_offset |-> r.file_offset,
                      cells |-> cells(r)]
           T == write_bytes(regions, address, size, bytes)
<1>1. T = {new(r) : r \in regions}
  BY DEF write_bytes, UpdateCells
<1>2. Owned(T)
  BY WriteOwned DEF Strings
<1>3. i \in I => Mapped(regions, a)
  BY ReachedMapped
<1> HIDE DEF I, T
<1>4. \A t \in T : \E r \in regions : t.base = r.base /\ t.size = r.size
  BY <1>1
<1>5. CASE ~Mapped(regions, a)
  <2>1. ~Mapped(T, a)
    BY <1>2, <1>4, <1>5, InPlaceView
  <2> QED BY <1>3, <1>5, <2>1, FlatOut DEF T, I
<1>6. CASE Mapped(regions, a)
  <2>1. PICK r \in regions : Contains(r, a)
    BY <1>6 DEF Mapped
  <2>2. Spans(r, a) /\ r \in Region /\ r.base \in Nat /\ r.size \in Nat
    BY <2>1, OwnedRegion
  <2>3. a - r.base \in 0 .. r.size - 1 /\ r.base + (a - r.base) = a
    BY <2>2, SpaceAssumption DEF Spans, Addr
  <2>4. cells(r)[a - r.base] = IF i \in I THEN bytes[i] ELSE r.cells[a - r.base]
    BY <2>3
  <2> DEFINE t == new(r)
  <2>5. /\ t \in T /\ t.base = r.base /\ t.size = r.size /\ t.prot = r.prot
        /\ t.kind = r.kind /\ t.file_offset = r.file_offset
        /\ t.cells[a - r.base] = IF i \in I THEN bytes[i] ELSE r.cells[a - r.base]
    BY <1>1, <2>4
  <2> HIDE DEF t, i
  <2>6. FlatByte(regions, a) = ByteIn(r, a) /\ FlatByte(T, a) = ByteIn(t, a)
    BY <1>2, <1>4, <2>1, <2>5, InPlaceView
  <2>7. i \in I => ByteIn(t, a) = Stored(ByteIn(r, a), bytes[i])
    BY <2>5, StoredByte
  <2>8. i \notin I => ByteIn(t, a) = ByteIn(r, a)
    BY <2>5 DEF ByteIn
  <2> QED BY <2>6, <2>7, <2>8 DEF T, I, i
<1> QED BY <1>5, <1>6

\* mark_initialized changes the shadow bits of the bytes before the first fault, and
\* nothing else.
LEMMA MarkView ==
  ASSUME NEW regions, Owned(regions), NEW address \in Addr, NEW size \in Addr,
         NEW initialized \in BOOLEAN, NEW a \in Addr
  PROVE  FlatByte(mark_initialized(regions, address, size, initialized), a)
           = IF Distance(address, a) \in Reached(regions, address, size, "R")
             THEN Stored(FlatByte(regions, a),
                         [value |-> FlatByte(regions, a).cell.value,
                          initialized |-> initialized])
             ELSE FlatByte(regions, a)
<1> DEFINE I == Reached(regions, address, size, "R")
           i == Distance(address, a)
           cells(r) == [k \in 0 .. r.size - 1 |->
                          IF Distance(address, r.base + k) \in I
                          THEN [value |-> r.cells[k].value, initialized |-> initialized]
                          ELSE r.cells[k]]
           new(r) == [base |-> r.base, size |-> r.size, prot |-> r.prot,
                      kind |-> r.kind, file_offset |-> r.file_offset,
                      cells |-> cells(r)]
           T == mark_initialized(regions, address, size, initialized)
<1>1. T = {new(r) : r \in regions}
  BY DEF mark_initialized, UpdateCells
<1>2. Owned(T)
  BY MarkOwned
<1>3. i \in I => Mapped(regions, a)
  BY ReachedMapped
<1> HIDE DEF I, T
<1>4. \A t \in T : \E r \in regions : t.base = r.base /\ t.size = r.size
  BY <1>1
<1>5. CASE ~Mapped(regions, a)
  <2>1. ~Mapped(T, a)
    BY <1>2, <1>4, <1>5, InPlaceView
  <2> QED BY <1>3, <1>5, <2>1, FlatOut DEF T, I
<1>6. CASE Mapped(regions, a)
  <2>1. PICK r \in regions : Contains(r, a)
    BY <1>6 DEF Mapped
  <2>2. Spans(r, a) /\ r \in Region /\ r.base \in Nat /\ r.size \in Nat
    BY <2>1, OwnedRegion
  <2>3. a - r.base \in 0 .. r.size - 1 /\ r.base + (a - r.base) = a
    BY <2>2, SpaceAssumption DEF Spans, Addr
  <2> DEFINE old == r.cells[a - r.base]
             cell == [value |-> old.value, initialized |-> initialized]
             t == new(r)
  <2>4. cells(r)[a - r.base] = IF i \in I THEN cell ELSE old
    BY <2>3
  <2>5. /\ t \in T /\ t.base = r.base /\ t.size = r.size /\ t.prot = r.prot
        /\ t.kind = r.kind /\ t.file_offset = r.file_offset
        /\ t.cells[a - r.base] = IF i \in I THEN cell ELSE old
    BY <1>1, <2>4
  <2>6. ByteIn(r, a).cell = old
    BY DEF ByteIn
  <2> HIDE DEF t, i
  <2>7. FlatByte(regions, a) = ByteIn(r, a) /\ FlatByte(T, a) = ByteIn(t, a)
    BY <1>2, <1>4, <2>1, <2>5, InPlaceView
  <2>8. i \in I => ByteIn(t, a) = Stored(ByteIn(r, a), cell)
    BY <2>5, StoredByte
  <2>9. i \notin I => ByteIn(t, a) = ByteIn(r, a)
    BY <2>5 DEF ByteIn
  <2> QED BY <2>6, <2>7, <2>8, <2>9 DEF T, I, i
<1> QED BY <1>5, <1>6

-----------------------------------------------------------------------------
(* Whole pages.                                                            *)

LEMMA PagedWhole ==
  ASSUME NEW regions
  PROVE  Paged(regions) <=> \A r \in regions : Whole(r.base) /\ Whole(r.size)
BY DEF Paged, Whole

\* The sum of two page addresses, wrapped.
LEMMA WholeWrap ==
  ASSUME NEW b \in Addr, NEW size \in Addr, Whole(b), Whole(size)
  PROVE  Whole(Wrap(b + size))
<1>1. b \in Int /\ size \in Int /\ Space \in Int /\ b + size \in Int
  BY SpaceAssumption DEF Addr
<1>2. Whole(b + size)
  BY <1>1, WholeSum
<1>3. Whole((b + size) - Space)
  BY <1>1, <1>2, WholeSum, WholeSpace
<1> QED BY <1>2, <1>3 DEF Wrap

LEMMA SplitPaged ==
  ASSUME NEW regions, Owned(regions), Paged(regions), NEW b \in Addr, NEW size \in Addr,
         Whole(b), Whole(size), ~SplitAborts(regions, b, size)
  PROVE  Paged(split_around(regions, b, size))
<1> DEFINE e == Wrap(b + size)
<1>1. Whole(e) /\ e \in Addr
  BY WholeWrap, SplitPieces
<1> SUFFICES ASSUME NEW p \in split_around(regions, b, size)
             PROVE  Whole(p.base) /\ Whole(p.size)
  BY PagedWhole
<1>2. PICK r \in regions : p \in Pieces(r, b, e) /\ Splits(r, b, e)
  BY SplitPieces
<1> HIDE DEF e
<1>3. /\ r \in Region /\ r.base + r.size < Space /\ r.base \in Nat /\ r.size \in Nat
      /\ Whole(r.base) /\ Whole(r.size)
  BY OwnedRegion, PagedWhole
<1>4. p \in Region /\ p.base \in Nat /\ p.size \in Nat
  BY <1>1, <1>2, <1>3, PiecesType, RegionFields, SpaceAssumption DEF Addr
<1>5. CASE Outside(r, b, e)
  BY <1>2, <1>3, <1>5 DEF Pieces
<1>6. CASE ~Outside(r, b, e)
  <2>1. b <= e
    BY <1>2, <1>6 DEF Splits
  <2>2. p \in Before(r, b) \cup Middle(r, b, e) \cup After(r, e)
    BY <1>2, <1>6 DEF Pieces
  <2>0. /\ r.base \in Int /\ r.size \in Int /\ r.base + r.size \in Int
        /\ p.base \in Int /\ p.base + p.size \in Int
    BY <1>3, <1>4
  <2>3. Whole(r.base + r.size)
    BY <1>3, <2>0, WholeSum
  <2>4. Whole(CutStart(r, b)) /\ Whole(CutStop(r, e))
    BY <1>1, <1>3, <2>3 DEF CutStart, CutStop, Larger, Smaller
  <2>5. Whole(p.base) /\ Whole(p.base + p.size)
    BY <1>1, <1>3, <1>6, <2>1, <2>2, <2>3, <2>4, PieceShapes
  <2>6. Whole((p.base + p.size) - p.base)
    BY <2>0, <2>5, WholeSum
  <2>7. (p.base + p.size) - p.base = p.size
    BY <1>4
  <2> QED BY <2>5, <2>6, <2>7
<1> QED BY <1>5, <1>6

\* Alignment of the arguments of the operations.
LEMMA AlignedArguments ==
  ASSUME NEW base \in Addr, NEW size \in Addr
  PROVE  /\ page_align_down(base) \in Addr /\ Whole(page_align_down(base))
         /\ page_align_up(size) \in Addr /\ Whole(page_align_up(size))
<1>1. base \in Int
  BY SpaceAssumption DEF Addr
<1> QED BY <1>1, AlignType, DownWhole, UpWhole

LEMMA UnmapPaged ==
  ASSUME NEW regions, Owned(regions), Paged(regions), NEW base \in Addr, NEW size \in Addr,
         ~range_aborts(regions, base, size)
  PROVE  Paged(unmap(regions, base, size))
<1> DEFINE b == page_align_down(base)
           s == page_align_up(size)
<1>1. b \in Addr /\ s \in Addr /\ Whole(b) /\ Whole(s)
  BY AlignedArguments
<1>2. size # 0 => ~SplitAborts(regions, b, s)
  BY DEF range_aborts
<1>3. unmap(regions, base, size) =
        IF size = 0 THEN regions ELSE {r \in split_around(regions, b, s) : ~Covered(r, b, s)}
  BY DEF unmap
<1> HIDE DEF b, s
<1>4. size # 0 => Paged(split_around(regions, b, s))
  BY <1>1, <1>2, SplitPaged
<1> QED BY <1>3, <1>4 DEF Paged

LEMMA ProtectPaged ==
  ASSUME NEW regions, Owned(regions), Paged(regions), NEW base \in Addr, NEW size \in Addr,
         NEW prot, ~range_aborts(regions, base, size)
  PROVE  Paged(protect(regions, base, size, prot))
<1> DEFINE b == page_align_down(base)
           s == page_align_up(size)
<1>1. b \in Addr /\ s \in Addr /\ Whole(b) /\ Whole(s)
  BY AlignedArguments
<1>2. size # 0 => ~SplitAborts(regions, b, s)
  BY DEF range_aborts
<1>3. protect(regions, base, size, prot) =
        IF size = 0 THEN regions
        ELSE {IF Covered(r, b, s) THEN WithProt(r, prot) ELSE r :
                r \in split_around(regions, b, s)}
  BY DEF protect
<1> HIDE DEF b, s
<1>4. size # 0 => Paged(split_around(regions, b, s))
  BY <1>1, <1>2, SplitPaged
<1>5. \A r : WithProt(r, prot).base = r.base /\ WithProt(r, prot).size = r.size
  BY DEF WithProt
<1> QED BY <1>3, <1>4, <1>5 DEF Paged

LEMMA MapPaged ==
  ASSUME NEW regions, Paged(regions), NEW base \in Addr, NEW size \in Addr,
         NEW prot, NEW kind, NEW file_offset
  PROVE  Paged(map_region(regions, base, size, prot, kind, file_offset))
<1>1. /\ page_align_down(base) % PageSize = 0
      /\ page_align_up(size) % PageSize = 0
  BY AlignedArguments DEF Whole
<1> QED BY <1>1 DEF map_region, NewRegion, Paged

LEMMA AccessPaged ==
  ASSUME NEW regions, Paged(regions), NEW address, NEW size
  PROVE  /\ \A bytes : Paged(write_bytes(regions, address, size, bytes))
         /\ \A initialized : Paged(mark_initialized(regions, address, size, initialized))
BY DEF Paged, write_bytes, mark_initialized, UpdateCells

-----------------------------------------------------------------------------
(* Empty regions.                                                          *)

\* Empty regions lie between two mapped bytes.
Enclosed(regions) ==
  \A r \in regions : r.size = 0 => Mapped(regions, r.base - 1) /\ Mapped(regions, r.base)

\* A list in which every empty region was there and no byte has been lost.
LEMMA EnclosedFrom ==
  ASSUME NEW S, NEW T, Owned(S), Enclosed(S),
         \A t \in T : t.size = 0 => \E r \in S : r.base = t.base /\ r.size = 0,
         \A a \in Addr : Mapped(S, a) => Mapped(T, a)
  PROVE  Enclosed(T)
<1> SUFFICES ASSUME NEW t \in T, t.size = 0
             PROVE  Mapped(T, t.base - 1) /\ Mapped(T, t.base)
  BY DEF Enclosed
<1>1. PICK r \in S : r.base = t.base /\ r.size = 0
  OBVIOUS
<1>2. Mapped(S, r.base - 1) /\ Mapped(S, r.base)
  BY <1>1 DEF Enclosed
<1>3. r.base \in Addr /\ r.base - 1 \in Addr
  <2>1. PICK q \in S : Contains(q, r.base - 1)
    BY <1>2 DEF Mapped
  <2> QED BY <2>1, OwnedRegion, SpaceAssumption DEF Spans, Addr
<1> QED BY <1>1, <1>2, <1>3

\* An empty piece that split_around cuts lies inside the region it is cut from.
LEMMA SplitEmpty ==
  ASSUME NEW regions, Owned(regions), Enclosed(regions), NEW b \in Addr, NEW size \in Addr,
         ~SplitAborts(regions, b, size), NEW p \in split_around(regions, b, size), p.size = 0
  PROVE  /\ p.base \in Addr /\ p.base - 1 \in Addr
         /\ Mapped(regions, p.base - 1) /\ Mapped(regions, p.base)
<1> DEFINE e == Wrap(b + size)
<1>1. e \in Addr
  BY SplitPieces
<1>2. PICK r \in regions : p \in Pieces(r, b, e) /\ Splits(r, b, e)
  BY SplitPieces
<1> HIDE DEF e
<1>3. /\ r \in Region /\ r.base + r.size < Space /\ r.base \in Nat /\ r.size \in Nat
      /\ \A a : Contains(r, a) <=> Spans(r, a)
  BY OwnedRegion
<1>4. /\ p \in Region /\ p.base \in Nat /\ p.base \in Addr
      /\ b \in Nat /\ e \in Nat /\ Within(p, r)
  BY <1>1, <1>2, <1>3, PiecesType, RegionFields, SpaceAssumption DEF Addr
<1>5. CASE r.size = 0
  <2>1. p.base = r.base
    BY <1>3, <1>4, <1>5 DEF Within
  <2> QED BY <1>4, <1>5, <2>1, OwnedRegion, SpaceAssumption DEF Enclosed, Mapped, Spans, Addr
<1>6. CASE r.size # 0
  <2>1. ~Outside(r, b, e) /\ b <= e
    BY <1>2, <1>6 DEF Pieces, Splits
  <2>2. p \in Before(r, b) \cup Middle(r, b, e) \cup After(r, e)
    BY <1>2, <2>1 DEF Pieces
  <2>3. /\ e > r.base /\ b < r.base + r.size
        /\ CutStart(r, b) \in Nat /\ CutStop(r, e) \in Nat /\ CutStart(r, b) >= r.base
        /\ b > r.base => CutStart(r, b) = b
        /\ e < r.base + r.size => CutStop(r, e) = e
        /\ p \in Before(r, b) =>
             b > r.base /\ p.base = r.base /\ p.base + p.size = CutStart(r, b)
        /\ p \in Middle(r, b, e) => p.base = CutStart(r, b) /\ p.base + p.size = CutStop(r, e)
        /\ p \in After(r, e) =>
             e < r.base + r.size /\ p.base = CutStop(r, e) /\ p.base + p.size = r.base + r.size
    BY <1>1, <1>3, <2>1, PieceShapes
  <2>4. p \in Middle(r, b, e)
    BY <1>3, <1>4, <2>2, <2>3
  <2>5. CutStart(r, b) = CutStop(r, e) /\ p.base = CutStart(r, b)
    BY <1>4, <2>3, <2>4
  <2>6. r.base < p.base /\ p.base < r.base + r.size
    BY <1>3, <1>4, <1>6, <2>3, <2>5 DEF CutStart, CutStop, Larger, Smaller
  <2>7. Contains(r, p.base) /\ Contains(r, p.base - 1)
    BY <1>3, <1>4, <2>6 DEF Spans
  <2> QED BY <1>3, <1>4, <2>6, <2>7, SpaceAssumption DEF Mapped, Addr
<1> QED BY <1>5, <1>6

LEMMA UnmapEnclosed ==
  ASSUME NEW regions, Owned(regions), Enclosed(regions), NEW base \in Addr, NEW size \in Addr,
         ~range_aborts(regions, base, size)
  PROVE  Enclosed(unmap(regions, base, size))
<1> DEFINE b == page_align_down(base)
           s == page_align_up(size)
           S == split_around(regions, b, s)
           T == unmap(regions, base, size)
<1>1. CASE size = 0
  BY <1>1 DEF unmap
<1>2. CASE size # 0
  <2>1. b \in Addr /\ s \in Addr /\ ~SplitAborts(regions, b, s)
    BY <1>2, RangeArguments
  <2>2. T = {r \in S : ~Covered(r, b, s)} /\ PageSpan(base, size) = Span(b, s)
    BY <1>2 DEF unmap, PageSpan
  <2>3. \A a \in Addr : Mapped(regions, a) /\ a \notin Span(b, s) => Mapped(T, a)
    <3> SUFFICES ASSUME NEW a \in Addr, Mapped(regions, a), a \notin Span(b, s)
                 PROVE  Mapped(T, a)
      OBVIOUS
    <3>1. FlatByte(T, a) = FlatByte(regions, a)
      BY <2>2, UnmapView
    <3> QED BY <3>1, FlatMapped
  <2> HIDE DEF b, s, T
  <2> SUFFICES ASSUME NEW p \in T, p.size = 0
               PROVE  Mapped(T, p.base - 1) /\ Mapped(T, p.base)
    BY DEF Enclosed, T
  <2>4. p \in S /\ ~Covered(p, b, s)
    BY <2>2
  <2>5. /\ p.base \in Addr /\ p.base - 1 \in Addr
        /\ Mapped(regions, p.base - 1) /\ Mapped(regions, p.base)
    BY <2>1, <2>4, SplitEmpty
  <2>6. End(p) = p.base
    <3>1. Owned(S)
      BY <2>1, SplitOwned
    <3> HIDE DEF S
    <3>2. End(p) = p.base + p.size /\ p.base \in Nat
      BY <2>4, <3>1, OwnedRegion
    <3> QED BY <3>2
  <2>7. p.base \notin Span(b, s) /\ p.base - 1 \notin Span(b, s)
    BY <2>1, <2>4, <2>5, <2>6, SpaceAssumption DEF Covered, Span, Wrap, Addr
  <2> QED BY <2>3, <2>5, <2>7
<1> QED BY <1>1, <1>2

LEMMA ProtectEnclosed ==
  ASSUME NEW regions, Owned(regions), Enclosed(regions), NEW base \in Addr, NEW size \in Addr,
         NEW prot \in SUBSET Perm, ~range_aborts(regions, base, size)
  PROVE  Enclosed(protect(regions, base, size, prot))
<1> DEFINE b == page_align_down(base)
           s == page_align_up(size)
           S == split_around(regions, b, s)
           T == protect(regions, base, size, prot)
<1>1. CASE size = 0
  BY <1>1 DEF protect
<1>2. CASE size # 0
  <2>1. b \in Addr /\ s \in Addr /\ ~SplitAborts(regions, b, s)
    BY <1>2, RangeArguments
  <2>2. T = {IF Covered(r, b, s) THEN WithProt(r, prot) ELSE r : r \in S}
    BY <1>2 DEF protect
  <2>3. \A a \in Addr : Mapped(regions, a) => Mapped(T, a)
    <3> SUFFICES ASSUME NEW a \in Addr, Mapped(regions, a) PROVE Mapped(T, a)
      OBVIOUS
    <3>1. FlatByte(T, a) \in {FlatByte(regions, a), Protected(FlatByte(regions, a), prot)}
      BY ProtectView
    <3>2. FlatByte(T, a).mapped
      BY <3>1, FlatMapped DEF Protected
    <3> QED BY <3>2, FlatMapped
  <2> HIDE DEF b, s, T
  <2> SUFFICES ASSUME NEW t \in T, t.size = 0
               PROVE  Mapped(T, t.base - 1) /\ Mapped(T, t.base)
    BY DEF Enclosed, T
  <2>4. PICK p \in S : t = IF Covered(p, b, s) THEN WithProt(p, prot) ELSE p
    BY <2>2
  <2>5. t.base = p.base /\ p.size = 0
    BY <2>4 DEF WithProt
  <2>6. /\ p.base \in Addr /\ p.base - 1 \in Addr
        /\ Mapped(regions, p.base - 1) /\ Mapped(regions, p.base)
    BY <2>1, <2>4, <2>5, SplitEmpty
  <2> QED BY <2>3, <2>5, <2>6
<1> QED BY <1>1, <1>2

LEMMA AddEnclosed ==
  ASSUME NEW regions, Owned(regions), Enclosed(regions), NEW r, r.size # 0
  PROVE  Enclosed(regions \cup {r})
BY DEF Enclosed, Mapped

LEMMA MapEnclosed ==
  ASSUME NEW regions, Owned(regions), Enclosed(regions), NEW base, NEW size,
         NEW prot, NEW kind, NEW file_offset, ~map_fails(regions, base, size)
  PROVE  Enclosed(map_region(regions, base, size, prot, kind, file_offset))
<1> DEFINE r == NewRegion(page_align_down(base), page_align_up(size), prot, kind, file_offset)
<1>1. r.size # 0
  BY DEF NewRegion, map_fails, MapFails
<1>2. map_region(regions, base, size, prot, kind, file_offset) = regions \cup {r}
  BY DEF map_region
<1> HIDE DEF r
<1> QED BY <1>1, <1>2, AddEnclosed

\* Regions that stay where they are enclose the same empty regions.
LEMMA SamePlaceEnclosed ==
  ASSUME NEW regions, Enclosed(regions), NEW T,
         \A t \in T : \E r \in regions : r.base = t.base /\ r.size = t.size,
         \A r \in regions : \E t \in T : r.base = t.base /\ r.size = t.size
  PROVE  Enclosed(T)
<1>1. \A r, t : r.base = t.base /\ r.size = t.size => \A a : Contains(r, a) => Contains(t, a)
  BY DEF Contains, End
<1>2. \A a : Mapped(regions, a) => Mapped(T, a)
  BY <1>1, Zenon DEF Mapped
<1> QED BY <1>2 DEF Enclosed

LEMMA WriteEnclosed ==
  ASSUME NEW regions, Owned(regions), Enclosed(regions), NEW address, NEW size, NEW bytes
  PROVE  Enclosed(write_bytes(regions, address, size, bytes))
<1> DEFINE T == write_bytes(regions, address, size, bytes)
<1>1. \A t \in T : \E r \in regions : r.base = t.base /\ r.size = t.size
  BY DEF write_bytes, UpdateCells
<1>2. ASSUME NEW r \in regions PROVE \E t \in T : r.base = t.base /\ r.size = t.size
  <2> DEFINE t == [base |-> r.base, size |-> r.size, prot |-> r.prot, kind |-> r.kind,
                   file_offset |-> r.file_offset,
                   cells |-> [k \in 0 .. r.size - 1 |->
                     IF Distance(address, r.base + k) \in Reached(regions, address, size, "W")
                     THEN bytes[Distance(address, r.base + k)] ELSE r.cells[k]]]
  <2>1. t \in T
    BY DEF write_bytes, UpdateCells
  <2>2. t.base = r.base /\ t.size = r.size
    OBVIOUS
  <2> QED BY <2>1, <2>2
<1> HIDE DEF T
<1>3. Enclosed(T)
  BY <1>1, <1>2, SamePlaceEnclosed
<1> QED BY <1>3 DEF T

LEMMA MarkEnclosed ==
  ASSUME NEW regions, Owned(regions), Enclosed(regions), NEW address, NEW size, NEW initialized
  PROVE  Enclosed(mark_initialized(regions, address, size, initialized))
<1> DEFINE T == mark_initialized(regions, address, size, initialized)
<1>1. \A t \in T : \E r \in regions : r.base = t.base /\ r.size = t.size
  BY DEF mark_initialized, UpdateCells
<1>2. ASSUME NEW r \in regions PROVE \E t \in T : r.base = t.base /\ r.size = t.size
  <2> DEFINE t == [base |-> r.base, size |-> r.size, prot |-> r.prot, kind |-> r.kind,
                   file_offset |-> r.file_offset,
                   cells |-> [k \in 0 .. r.size - 1 |->
                     IF Distance(address, r.base + k) \in Reached(regions, address, size, "R")
                     THEN [value |-> r.cells[k].value, initialized |-> initialized] ELSE r.cells[k]]]
  <2>1. t \in T
    BY DEF mark_initialized, UpdateCells
  <2>2. t.base = r.base /\ t.size = r.size
    OBVIOUS
  <2> QED BY <2>1, <2>2
<1> HIDE DEF T
<1>3. Enclosed(T)
  BY <1>1, <1>2, SamePlaceEnclosed
<1> QED BY <1>3 DEF T
=============================================================================
