----------------------------- MODULE HostProofs -----------------------------
(***************************************************************************)
(* Proofs about what passes between the host and the guest.                *)
(*                                                                         *)
(* GuestIO, for every memory, every protection of it, any number of        *)
(* buffers that may be empty, overlap and end outside of it, and all that  *)
(* the host may return.  The recursive functions that go through a list of *)
(* buffers are taken apart by induction on the number of buffers done.     *)
(*                                                                         *)
(* Images, for every file that a linker may write, every order of its      *)
(* headers, and any descriptors: what load_object accepts is where the     *)
(* file says and stays there.  The headers are taken one by one, by the    *)
(* same induction.                                                         *)
(***************************************************************************)
EXTENDS GuestIO, Images, SequenceTheorems, WellFoundedInduction, TLAPS

-----------------------------------------------------------------------------
(* Induction and recursion over the elements of a list.                    *)

LEMMA Induction ==
  ASSUME NEW n \in Nat, NEW P, 0 \in P, \A i \in 1 .. n : i - 1 \in P => i \in P
  PROVE  \A i \in 0 .. n : i \in P
<1> DEFINE T == {i \in 0 .. n : i \notin P}
           R == OpToRel(<, Nat)
<1> SUFFICES ASSUME T # {} PROVE FALSE
  OBVIOUS
<1>1. IsWellFoundedOn(R, Nat)
  BY NatLessThanWellFounded
<1>2. \A x, y \in Nat : x < y => <<x, y>> \in R
  BY DEF OpToRel
<1>3. T \in SUBSET Nat
  OBVIOUS
<1> HIDE DEF R, T
<1>4. PICK x \in T : \A y \in T : ~(<<y, x>> \in R)
  BY <1>1, <1>3, WFMin
<1>5. x \in 0 .. n /\ x \notin P
  BY <1>4 DEF T
<1>6. x \in 1 .. n /\ x - 1 \in 0 .. n
  BY <1>5
<1>7. x - 1 \notin P
  BY <1>5, <1>6
<1>8. x - 1 \in T /\ x - 1 \in Nat /\ x \in Nat /\ x - 1 < x
  BY <1>6, <1>7 DEF T
<1> QED BY <1>2, <1>4, <1>8

\* A function whose value at i is made from its value at i - 1.
Run(f, n, S, first, step) ==
  /\ f \in [0 .. n -> S]
  /\ f[0] = first
  /\ \A i \in 1 .. n : f[i] = step[<<i, f[i - 1]>>]

LEMMA Recursion ==
  ASSUME NEW n \in Nat, NEW S, NEW first \in S, NEW step \in [(1 .. n) \X S -> S]
  PROVE  \E f : Run(f, n, S, first, step)
<1> DEFINE Good(k, f) == /\ f \in [0 .. k -> S] /\ f[0] = first
                         /\ \A i \in 1 .. k : f[i] = step[<<i, f[i - 1]>>]
           P == {k \in 0 .. n : \E f \in [0 .. k -> S] : Good(k, f)}
<1>1. 0 \in P
  <2> DEFINE f == [i \in 0 .. 0 |-> first]
  <2>1. f \in [0 .. 0 -> S] /\ Good(0, f)
    OBVIOUS
  <2>2. 0 \in 0 .. n
    OBVIOUS
  <2> HIDE DEF f, Good
  <2>3. \E h \in [0 .. 0 -> S] : Good(0, h)
    BY <2>1
  <2> QED BY <2>2, <2>3
<1>2. ASSUME NEW k \in 1 .. n, k - 1 \in P PROVE k \in P
  <2>1. PICK f \in [0 .. k - 1 -> S] : Good(k - 1, f)
    BY <1>2
  <2> DEFINE next == step[<<k, f[k - 1]>>]
             g == [i \in 0 .. k |-> IF i = k THEN next ELSE f[i]]
  <2>2. f[k - 1] \in S /\ next \in S
    BY <2>1
  <2> HIDE DEF next
  <2>3. g \in [0 .. k -> S]
    BY <2>1, <2>2
  <2>4. g[0] = first
    BY <2>1
  <2>5. ASSUME NEW i \in 1 .. k PROVE g[i] = step[<<i, g[i - 1]>>]
    <3>1. i - 1 \in 0 .. k /\ i - 1 # k /\ g[i - 1] = f[i - 1]
      BY DEF g
    <3>2. CASE i = k
      BY <3>1, <3>2 DEF g, next
    <3>3. CASE i # k
      <4>1. i \in 1 .. k - 1 /\ g[i] = f[i]
        BY <3>3
      <4> QED BY <2>1, <3>1, <4>1
    <3> QED BY <3>2, <3>3
  <2>6. Good(k, g)
    BY <2>3, <2>4, <2>5
  <2>7. k \in 0 .. n
    OBVIOUS
  <2> HIDE DEF g, Good
  <2>8. \E h \in [0 .. k -> S] : Good(k, h)
    BY <2>3, <2>6
  <2> QED BY <2>7, <2>8
<1> HIDE DEF P
<1>3. n \in P
  BY <1>1, <1>2, Induction
<1> QED BY <1>3 DEF P, Run

-----------------------------------------------------------------------------
(* Lists of buffers.                                                       *)

Buffer == [base : Address, length : Nat]

\* The addresses of one buffer, and of the first i buffers of a list.
Chunk(v) == [k \in 1 .. v.length |-> v.base + k - 1]
Followed(s, v) == s \o Chunk(v)
FlatUpTo(iov) ==
  CHOOSE f : f = [i \in 0 .. Len(iov) |-> IF i = 0 THEN <<>> ELSE Followed(f[i - 1], iov[i])]

AreOffsets(o, iov) ==
  /\ o \in [0 .. Len(iov) -> Nat]
  /\ o[0] = 0
  /\ \A i \in 1 .. Len(iov) : o[i] = o[i - 1] + iov[i].length

ArePlaces(p, iov) ==
  /\ p \in [0 .. Len(iov) -> Seq(Nat)]
  /\ p[0] = <<>>
  /\ \A i \in 1 .. Len(iov) : p[i] = Followed(p[i - 1], iov[i])

LEMMA BufferParts ==
  ASSUME NEW iov \in Seq(Buffer), NEW i \in 1 .. Len(iov)
  PROVE  /\ iov[i] \in Buffer /\ iov[i].base \in Nat /\ iov[i].length \in Nat
         /\ iov[i].base \in Address
<1>1. iov[i] \in Buffer
  OBVIOUS
<1>2. Address \subseteq Nat
  BY GuestIOAssumption DEF Address
<1> QED BY <1>1, <1>2 DEF Buffer

LEMMA ChunkIsSequence ==
  ASSUME NEW v \in Buffer
  PROVE  /\ Chunk(v) \in Seq(Nat) /\ Len(Chunk(v)) = v.length
         /\ \A k \in 1 .. v.length : Chunk(v)[k] = v.base + k - 1
<1>1. v.base \in Nat /\ v.length \in Nat
  BY GuestIOAssumption DEF Buffer, Address
<1>2. \A k \in 1 .. v.length : v.base + k - 1 \in Nat
  BY <1>1
<1>3. Chunk(v) \in [1 .. v.length -> Nat]
  BY <1>2 DEF Chunk
<1> QED BY <1>1, <1>3 DEF Chunk

LEMMA OffsetsValue ==
  ASSUME NEW iov \in Seq(Buffer)
  PROVE  AreOffsets(Offsets(iov), iov)
<1> DEFINE n == Len(iov)
           F(f) == [i \in 0 .. n |-> IF i = 0 THEN 0 ELSE f[i - 1] + iov[i].length]
           step == [x \in (1 .. n) \X Nat |-> x[2] + iov[x[1]].length]
           c == Offsets(iov)
<1>1. n \in Nat /\ \A i \in 1 .. n : iov[i].length \in Nat
  BY BufferParts
<1>2. step \in [(1 .. n) \X Nat -> Nat] /\ \A i \in 1 .. n, x \in Nat : step[<<i, x>>] = x + iov[i].length
  BY <1>1
<1>3. c = CHOOSE f : f = F(f)
  BY DEF Offsets
<1> HIDE DEF n, step, c
<1>4. PICK g : Run(g, n, Nat, 0, step)
  BY <1>1, <1>2, Recursion, Zenon
<1>5. \A i \in 1 .. n : i - 1 \in 0 .. n
  BY <1>1
<1>51. g \in [0 .. n -> Nat] /\ g[0] = 0 /\ \A i \in 1 .. n : g[i] = g[i - 1] + iov[i].length
  BY <1>2, <1>4, <1>5 DEF Run
<1>6. g = F(g)
  BY <1>1, <1>51
<1>7. c = F(c)
  BY <1>3, <1>6
<1>8. c[0] = 0 /\ \A i \in 1 .. n : c[i] = c[i - 1] + iov[i].length
  BY <1>1, <1>7
<1> DEFINE P == {i \in 0 .. n : c[i] \in Nat}
<1>9. 0 \in P /\ \A i \in 1 .. n : i - 1 \in P => i \in P
  <2>1. 0 \in P
    BY <1>1, <1>8
  <2>2. ASSUME NEW i \in 1 .. n, i - 1 \in P PROVE i \in P
    <3>1. PICK x \in Nat : x = c[i - 1]
      BY <2>2
    <3>2. PICK y \in Nat : y = iov[i].length
      BY <1>1
    <3>3. c[i] = x + y /\ x + y \in Nat
      BY <1>8, <3>1, <3>2
    <3>4. i \in 0 .. n
      BY <1>1
    <3> QED BY <3>3, <3>4
  <2> QED BY <2>1, <2>2
<1> HIDE DEF P
<1>10. \A i \in 0 .. n : i \in P
  BY <1>1, <1>9, Induction
<1>11. \A i \in 0 .. n : c[i] \in Nat
  BY <1>10 DEF P
<1>12. c \in [0 .. n -> Nat]
  BY <1>7, <1>11
<1> QED BY <1>8, <1>12 DEF AreOffsets, n, c

LEMMA PlacesValue ==
  ASSUME NEW iov \in Seq(Buffer)
  PROVE  /\ ArePlaces(FlatUpTo(iov), iov)
         /\ Flat(iov) = FlatUpTo(iov)[Len(iov)]
<1> DEFINE n == Len(iov)
           S == Seq(Nat)
           none == <<>>
           F(f) == [i \in 0 .. n |-> IF i = 0 THEN none ELSE Followed(f[i - 1], iov[i])]
           step == [x \in (1 .. n) \X S |-> Followed(x[2], iov[x[1]])]
           c == FlatUpTo(iov)
<1>0. Flat(iov) = c[n]
  BY DEF Flat, FlatUpTo, Chunk, Followed
<1>1. n \in Nat /\ none \in S
  OBVIOUS
<1>2. \A i \in 1 .. n, s \in S : Followed(s, iov[i]) \in S
  <2>1. \A i \in 1 .. n : Chunk(iov[i]) \in S
    BY BufferParts, ChunkIsSequence
  <2> QED BY <2>1 DEF Followed
<1>3. c = CHOOSE f : f = F(f)
  BY DEF FlatUpTo
<1> HIDE DEF n, c, S, none
<1>4. step \in [(1 .. n) \X S -> S] /\ \A i \in 1 .. n, s \in S : step[<<i, s>>] = Followed(s, iov[i])
  BY <1>2
<1> HIDE DEF step
<1>5. PICK g : Run(g, n, S, none, step)
  BY <1>1, <1>4, Recursion, Zenon
<1>6. \A i \in 1 .. n : i - 1 \in 0 .. n
  BY <1>1
<1>7. g \in [0 .. n -> S] /\ g[0] = none /\ \A i \in 1 .. n : g[i] = Followed(g[i - 1], iov[i])
  BY <1>4, <1>5, <1>6 DEF Run
<1>8. g = F(g)
  BY <1>1, <1>7
<1>9. c = F(c)
  BY <1>3, <1>8
<1>10. c[0] = none /\ \A i \in 1 .. n : c[i] = Followed(c[i - 1], iov[i])
  BY <1>1, <1>9
<1> DEFINE P == {i \in 0 .. n : c[i] \in S}
<1>11. 0 \in P /\ \A i \in 1 .. n : i - 1 \in P => i \in P
  BY <1>1, <1>2, <1>10
<1> HIDE DEF P
<1>12. \A i \in 0 .. n : i \in P
  BY <1>1, <1>11, Induction
<1>13. \A i \in 0 .. n : c[i] \in S
  BY <1>12 DEF P
<1>14. c \in [0 .. n -> S]
  BY <1>9, <1>13
<1> QED BY <1>0, <1>10, <1>14 DEF ArePlaces, n, c, S, none

\* Where the addresses of buffer i are among those of the list.
LaidOut(iov, o, p, i) ==
  /\ i - 1 \in 0 .. Len(iov) /\ o[i - 1] \in Nat /\ o[i] = o[i - 1] + iov[i].length
  /\ Len(p[i - 1]) = o[i - 1] /\ Len(p[i]) = o[i]
  /\ \A k \in 1 .. o[i - 1] : p[i][k] = p[i - 1][k]
  /\ \A k \in o[i - 1] + 1 .. o[i] : p[i][k] = iov[i].base + (k - o[i - 1]) - 1

LEMMA Layout ==
  ASSUME NEW iov \in Seq(Buffer), NEW o, NEW p, AreOffsets(o, iov), ArePlaces(p, iov),
         NEW i \in 1 .. Len(iov)
  PROVE  LaidOut(iov, o, p, i)
<1> DEFINE n == Len(iov)
           P == {j \in 0 .. n : Len(p[j]) = o[j]}
<1>1. n \in Nat
  OBVIOUS
<1>2. ASSUME NEW j \in 1 .. n
      PROVE  /\ j - 1 \in 0 .. n /\ j \in 0 .. n /\ p[j - 1] \in Seq(Nat) /\ Chunk(iov[j]) \in Seq(Nat)
             /\ Len(Chunk(iov[j])) = iov[j].length /\ iov[j].length \in Nat
             /\ p[j] = p[j - 1] \o Chunk(iov[j])
             /\ o[j - 1] \in Nat /\ o[j] = o[j - 1] + iov[j].length
             /\ \A k \in 1 .. iov[j].length : Chunk(iov[j])[k] = iov[j].base + k - 1
             /\ iov[j].base \in Nat
  <2>1. j - 1 \in 0 .. n /\ j \in 0 .. n
    OBVIOUS
  <2>2. iov[j] \in Buffer /\ iov[j].length \in Nat /\ iov[j].base \in Nat
    BY BufferParts
  <2> QED BY <2>1, <2>2, ChunkIsSequence DEF AreOffsets, ArePlaces, Followed
<1>3. ASSUME NEW j \in 1 .. n PROVE Len(p[j]) = Len(p[j - 1]) + iov[j].length
  <2>1. PICK s \in Seq(Nat) : s = p[j - 1]
    BY <1>2
  <2>2. PICK t \in Seq(Nat) : t = Chunk(iov[j])
    BY <1>2
  <2>3. Len(s \o t) = Len(s) + Len(t)
    OBVIOUS
  <2> QED BY <1>2, <2>1, <2>2, <2>3
<1>4. 0 \in P
  BY DEF ArePlaces, AreOffsets
<1>5. ASSUME NEW j \in 1 .. n, j - 1 \in P PROVE j \in P
  BY <1>2, <1>3, <1>5
<1>51. \A j \in 1 .. n : j - 1 \in P => j \in P
  BY <1>5
<1> HIDE DEF P
<1>6. \A j \in 0 .. n : j \in P
  BY <1>1, <1>4, <1>51, Induction
<1>7. Len(p[i - 1]) = o[i - 1] /\ Len(p[i]) = o[i]
  BY <1>2, <1>6 DEF P
<1>8. PICK s \in Seq(Nat) : s = p[i - 1]
  BY <1>2
<1>9. PICK t \in Seq(Nat) : t = Chunk(iov[i])
  BY <1>2
<1>10. p[i] = s \o t /\ Len(s) = o[i - 1] /\ Len(t) = iov[i].length
  BY <1>2, <1>7, <1>8, <1>9
<1>11. ASSUME NEW k \in 1 .. o[i - 1] PROVE p[i][k] = p[i - 1][k]
  <2>1. k \in 1 .. Len(s)
    BY <1>10
  <2>2. (s \o t)[k] = s[k]
    BY <2>1
  <2> QED BY <1>8, <1>10, <2>2
<1>12. ASSUME NEW k \in o[i - 1] + 1 .. o[i]
       PROVE  p[i][k] = iov[i].base + (k - o[i - 1]) - 1
  <2>1. k \in Len(s) + 1 .. Len(s) + Len(t)
    BY <1>2, <1>10
  <2>2. (s \o t)[k] = t[k - Len(s)]
    BY <2>1
  <2>3. k - Len(s) \in 1 .. iov[i].length
    BY <1>10, <2>1, SMTT(40)
  <2> QED BY <1>2, <1>9, <1>10, <2>2, <2>3
<1> QED BY <1>2, <1>7, <1>11, <1>12 DEF LaidOut

-----------------------------------------------------------------------------
(* Copies to the guest.                                                    *)

\* t more bytes go to the places from base on.
LEMMA StoredMore ==
  ASSUME NEW d \in Nat, NEW t \in Nat, NEW m, NEW p, NEW q, NEW bytes, NEW a \in Nat, NEW base \in Nat,
         NEW old, NEW cell, Stored(m, p, bytes, d, a, old),
         \A k \in 1 .. d : q[k] = p[k],
         \A k \in d + 1 .. d + t : q[k] = base + (k - d) - 1,
         a \in base .. base + t - 1 => cell = bytes[d + (a - base + 1)],
         a \notin base .. base + t - 1 => cell = old
  PROVE  Stored(m, q, bytes, d + t, a, cell)
<1>1. CASE a \in base .. base + t - 1
  <2>1. PICK k \in Int : k = d + (a - base + 1)
    OBVIOUS
  <2>2. k \in d + 1 .. d + t /\ k \in 1 .. d + t /\ q[k] = a
    BY <1>1, <2>1
  <2>3. \A later \in k + 1 .. d + t : q[later] # a
    BY <2>1, <2>2
  <2> QED BY <1>1, <2>1, <2>2, <2>3 DEF Stored
<1>2. CASE a \notin base .. base + t - 1
  <2>1. ASSUME NEW l \in d + 1 .. d + t PROVE q[l] # a
    BY <1>2
  <2>2. \A l \in 1 .. d + t : l \in 1 .. d \/ l \in d + 1 .. d + t
    OBVIOUS
  <2>3. CASE (\A k \in 1 .. d : p[k] # a) /\ old = m[a]
    <3>1. \A k \in 1 .. d + t : q[k] # a
      BY <2>1, <2>2, <2>3
    <3> QED BY <1>2, <2>3, <3>1 DEF Stored
  <2>4. ASSUME NEW k \in 1 .. d, p[k] = a, old = bytes[k], \A later \in k + 1 .. d : p[later] # a
        PROVE  Stored(m, q, bytes, d + t, a, cell)
    <3>1. k \in 1 .. d + t /\ q[k] = a
      BY <2>4
    <3>2. \A later \in k + 1 .. d + t : later \in k + 1 .. d \/ later \in d + 1 .. d + t
      OBVIOUS
    <3>3. \A later \in k + 1 .. d : q[later] # a
      BY <2>4
    <3>4. \A later \in k + 1 .. d + t : q[later] # a
      BY <2>1, <3>2, <3>3
    <3> QED BY <1>2, <2>4, <3>1, <3>4 DEF Stored
  <2> QED BY <2>3, <2>4 DEF Stored
<1> QED BY <1>1, <1>2

\* A buffer into which nothing can fall outside of what may be written.
LEMMA Copying ==
  ASSUME NEW m \in [Address -> Cell], NEW base \in Nat, NEW bytes \in Seq(Cell)
  PROVE  /\ copy_to_guest(m, base, bytes) \in [Address -> Cell]
         /\ \A a \in Address : copy_to_guest(m, base, bytes)[a] # m[a]
              => a \in Writable /\ a \in base .. base + Len(bytes) - 1
         /\ \A a \in Address : a \notin base .. base + Len(bytes) - 1
              => copy_to_guest(m, base, bytes)[a] = m[a]
         /\ ~Faults(base, Len(bytes), Writable) =>
              \A a \in base .. base + Len(bytes) - 1 :
                a \in Address /\ copy_to_guest(m, base, bytes)[a] = bytes[a - base + 1]
<1> DEFINE n == Len(bytes)
           c == copy_to_guest(m, base, bytes)
           writes(a) == a \in base .. base + n - 1 /\ ~Faults(base, a - base + 1, Writable)
<1>1. c = [a \in Address |-> IF writes(a) THEN bytes[a - base + 1] ELSE m[a]]
  BY DEF copy_to_guest
<1>2. n \in Nat /\ Address \subseteq Int
  BY DEF Address
<1>3. ASSUME NEW a \in base .. base + n - 1
      PROVE  bytes[a - base + 1] \in Cell
  <2>1. a - base + 1 \in 1 .. n
    BY <1>2
  <2> QED BY <2>1
<1>4. ASSUME NEW a \in Int, writes(a) PROVE a \in Writable
  <2>1. a - base \in 0 .. (a - base + 1) - 1 /\ base + (a - base) = a
    BY <1>2, <1>4
  <2> QED BY <1>4, <2>1 DEF Faults
<1>5. ASSUME ~Faults(base, n, Writable), NEW a \in base .. base + n - 1
      PROVE  writes(a) /\ a \in Address
  <2>1. \A k \in 0 .. (a - base + 1) - 1 : k \in 0 .. n - 1
    BY <1>2
  <2>2. ~Faults(base, a - base + 1, Writable)
    BY <1>5, <2>1 DEF Faults
  <2>3. a \in Writable
    BY <1>2, <1>4, <2>2
  <2> QED BY <2>2, <2>3, GuestIOAssumption
<1> HIDE DEF n, c
<1>6. c \in [Address -> Cell]
  BY <1>1, <1>3
<1> HIDE DEF writes
<1>7. \A a \in Address : c[a] = IF writes(a) THEN bytes[a - base + 1] ELSE m[a]
  BY <1>1
<1>8. \A a \in Int : writes(a) => a \in Writable /\ a \in base .. base + n - 1
  BY <1>4 DEF writes
<1>9. /\ \A a \in Address : c[a] # m[a] => a \in Writable /\ a \in base .. base + n - 1
      /\ \A a \in Address : a \notin base .. base + n - 1 => c[a] = m[a]
  BY <1>2, <1>7, <1>8
<1>10. ~Faults(base, n, Writable) =>
         \A a \in base .. base + n - 1 : a \in Address /\ c[a] = bytes[a - base + 1]
  BY <1>5, <1>7
<1> QED BY <1>6, <1>9, <1>10 DEF n, c

-----------------------------------------------------------------------------
(* readv's loop over the buffers.                                          *)

State(bytes) == [mem : [Address -> Cell], remaining : 0 .. Len(bytes), fault : BOOLEAN]
FirstState(bytes) == [mem |-> mem, remaining |-> Len(bytes), fault |-> FALSE]

AreStates(s, iov, bytes) ==
  /\ s \in [0 .. Len(iov) -> State(bytes)]
  /\ s[0] = FirstState(bytes)
  /\ \A i \in 1 .. Len(iov) : s[i] = ScatterStep(bytes, s[i - 1], iov[i])

\* What one buffer takes.
LEMMA OneBuffer ==
  ASSUME NEW bytes \in Seq(Cell), NEW s \in State(bytes), NEW v \in Buffer,
         NEW s2, s2 = ScatterStep(bytes, s, v)
  PROVE  /\ s2 \in State(bytes)
         /\ s.fault \/ s.remaining = 0 => s2 = s
         /\ \A a \in Address : s2.mem[a] # s.mem[a]
              => a \in Writable /\ a \in v.base .. v.base + v.length - 1
         /\ ~s.fault /\ ~s2.fault /\ s.remaining # 0 =>
              LET d == Len(bytes) - s.remaining
                  t == Lesser(s.remaining, v.length)
              IN  /\ s2.remaining = s.remaining - t
                  /\ \A a \in Address :
                       /\ a \in v.base .. v.base + t - 1 => s2.mem[a] = bytes[d + (a - v.base + 1)]
                       /\ a \notin v.base .. v.base + t - 1 => s2.mem[a] = s.mem[a]
<1> DEFINE d == Len(bytes) - s.remaining
           t == Lesser(s.remaining, v.length)
           part == SubSeq(bytes, d + 1, d + t)
           m2 == copy_to_guest(s.mem, v.base, part)
<1>1. /\ s.mem \in [Address -> Cell] /\ s.remaining \in 0 .. Len(bytes) /\ s.fault \in BOOLEAN
      /\ v.base \in Nat /\ v.length \in Nat /\ Len(bytes) \in Nat
  BY GuestIOAssumption DEF State, Buffer, Address
<1>2. d \in Nat /\ t \in Nat /\ t <= s.remaining /\ t <= v.length /\ d + t <= Len(bytes) /\ d + t \in Nat
  BY <1>1 DEF Lesser
<1>3. s.fault \/ s.remaining = 0 => s2 = s
  BY DEF ScatterStep
<1>4. ~(s.fault \/ s.remaining = 0) =>
         s2 = [mem |-> m2, remaining |-> s.remaining - t, fault |-> Faults(v.base, t, Writable)]
  BY DEF ScatterStep
<1> HIDE DEF d, t
<1>5. part \in Seq(Cell) /\ Len(part) = t /\ \A k \in 1 .. t : part[k] = bytes[d + k]
  <2>1. \A k \in 1 .. t : d + k \in 1 .. Len(bytes) /\ bytes[d + k] \in Cell
    BY <1>1, <1>2
  <2>2. part = [k \in 1 .. t |-> bytes[d + k]]
    <3>1. Len(part) = t /\ part \in Seq(Cell)
      BY <1>1, <1>2, SMTT(40)
    <3>2. \A k \in 1 .. t : part[k] = bytes[d + k]
      <4> SUFFICES ASSUME NEW k \in 1 .. t PROVE part[k] = bytes[d + k]
        OBVIOUS
      <4>1. part[k] = bytes[(d + 1) + k - 1] /\ (d + 1) + k - 1 = d + k
        BY <1>1, <1>2, <3>1
      <4> QED BY <4>1
    <3>3. part = [k \in 1 .. Len(part) |-> part[k]]
      BY <3>1
    <3> QED BY <3>1, <3>2, <3>3
  <2>3. part \in [1 .. t -> Cell]
    BY <2>1, <2>2
  <2> HIDE DEF part
  <2> QED BY <1>2, <2>2, <2>3
<1> HIDE DEF part
<1>6. /\ m2 \in [Address -> Cell]
      /\ \A a \in Address : m2[a] # s.mem[a] => a \in Writable /\ a \in v.base .. v.base + t - 1
      /\ \A a \in Address : a \notin v.base .. v.base + t - 1 => m2[a] = s.mem[a]
      /\ ~Faults(v.base, t, Writable) =>
           \A a \in v.base .. v.base + t - 1 : a \in Address /\ m2[a] = part[a - v.base + 1]
  <2>1. PICK base \in Nat : base = v.base
    BY <1>1
  <2>2. PICK memory \in [Address -> Cell] : memory = s.mem
    BY <1>1
  <2>3. PICK copied \in Seq(Cell) : copied = part
    BY <1>5
  <2>4. PICK m : m = copy_to_guest(memory, base, copied)
    OBVIOUS
  <2>5. Len(copied) = t
    BY <1>5, <2>3
  <2> HIDE DEF part
  <2>6. m = m2
    BY <2>1, <2>2, <2>3, <2>4
  <2>7. /\ m \in [Address -> Cell]
        /\ \A a \in Address : m[a] # memory[a] => a \in Writable /\ a \in base .. base + Len(copied) - 1
        /\ \A a \in Address : a \notin base .. base + Len(copied) - 1 => m[a] = memory[a]
        /\ ~Faults(base, Len(copied), Writable) =>
             \A a \in base .. base + Len(copied) - 1 : a \in Address /\ m[a] = copied[a - base + 1]
    BY <2>4, Copying, Zenon
  <2> QED BY <2>1, <2>2, <2>3, <2>5, <2>6, <2>7, Zenon
<1> HIDE DEF m2
<1>7. s2 \in State(bytes)
  <2>1. CASE s.fault \/ s.remaining = 0
    BY <1>3, <2>1
  <2>2. CASE ~(s.fault \/ s.remaining = 0)
    <3>1. Faults(v.base, t, Writable) \in BOOLEAN
      BY DEF Faults
    <3>2. s.remaining - t \in 0 .. Len(bytes)
      BY <1>1, <1>2
    <3> QED BY <1>4, <1>6, <2>2, <3>1, <3>2 DEF State
  <2> QED BY <2>1, <2>2
<1>8. \A a \in Address : s2.mem[a] # s.mem[a] => a \in Writable /\ a \in v.base .. v.base + v.length - 1
  <2>1. CASE s.fault \/ s.remaining = 0
    BY <1>3, <2>1
  <2>2. CASE ~(s.fault \/ s.remaining = 0)
    <3>1. s2.mem = m2
      BY <1>4, <2>2
    <3>2. \A a \in v.base .. v.base + t - 1 : a \in v.base .. v.base + v.length - 1
      BY <1>1, <1>2
    <3> QED BY <1>6, <3>1, <3>2
  <2> QED BY <2>1, <2>2
<1>9. ASSUME ~s.fault, ~s2.fault, s.remaining # 0
      PROVE  /\ s2.remaining = s.remaining - t
             /\ \A a \in Address :
                  /\ a \in v.base .. v.base + t - 1 => s2.mem[a] = bytes[d + (a - v.base + 1)]
                  /\ a \notin v.base .. v.base + t - 1 => s2.mem[a] = s.mem[a]
  <2>1. s2.mem = m2 /\ s2.remaining = s.remaining - t /\ ~Faults(v.base, t, Writable)
    BY <1>4, <1>9
  <2>2. ASSUME NEW a \in Address, a \in v.base .. v.base + t - 1
        PROVE  s2.mem[a] = bytes[d + (a - v.base + 1)]
    <3>1. a - v.base + 1 \in 1 .. t
      BY <1>1, <1>2, <2>2, SMTT(40)
    <3> QED BY <1>5, <1>6, <2>1, <2>2, <3>1
  <2> QED BY <1>6, <2>1, <2>2
<1> QED BY <1>3, <1>7, <1>8, <1>9 DEF d, t

LEMMA StatesValue ==
  ASSUME mem \in [Address -> Cell], NEW iov \in Seq(Buffer), NEW bytes \in Seq(Cell)
  PROVE  \E s : AreStates(s, iov, bytes) /\ Scatter(iov, bytes) = s[Len(iov)]
<1> DEFINE n == Len(iov)
           S == State(bytes)
           first == FirstState(bytes)
           F(f) == [i \in 0 .. n |-> IF i = 0 THEN first ELSE ScatterStep(bytes, f[i - 1], iov[i])]
           step == [x \in (1 .. n) \X S |-> ScatterStep(bytes, x[2], iov[x[1]])]
           c == CHOOSE f : f = F(f)
<1>0. Scatter(iov, bytes) = c[n]
  BY DEF Scatter, FirstState
<1>1. n \in Nat /\ first \in S
  BY DEF State, FirstState
<1>2. \A i \in 1 .. n, s \in S : ScatterStep(bytes, s, iov[i]) \in S
  BY BufferParts, OneBuffer
<1>3. c = CHOOSE f : f = F(f)
  OBVIOUS
<1> HIDE DEF n, c, S, first
<1>4. /\ step \in [(1 .. n) \X S -> S]
      /\ \A i \in 1 .. n, s \in S : step[<<i, s>>] = ScatterStep(bytes, s, iov[i])
  BY <1>2
<1> HIDE DEF step
<1>5. PICK g : Run(g, n, S, first, step)
  BY <1>1, <1>4, Recursion, Zenon
<1>6. \A i \in 1 .. n : i - 1 \in 0 .. n
  BY <1>1
<1>7. g \in [0 .. n -> S] /\ g[0] = first /\ \A i \in 1 .. n : g[i] = ScatterStep(bytes, g[i - 1], iov[i])
  BY <1>4, <1>5, <1>6 DEF Run
<1>8. g = F(g)
  BY <1>1, <1>7
<1>9. c = F(c)
  BY <1>3, <1>8
<1>10. c[0] = first /\ \A i \in 1 .. n : c[i] = ScatterStep(bytes, c[i - 1], iov[i])
  BY <1>1, <1>9
<1> DEFINE P == {i \in 0 .. n : c[i] \in S}
<1>11. 0 \in P /\ \A i \in 1 .. n : i - 1 \in P => i \in P
  BY <1>1, <1>2, <1>10
<1> HIDE DEF P
<1>12. \A i \in 0 .. n : i \in P
  BY <1>1, <1>11, Induction
<1>13. \A i \in 0 .. n : c[i] \in S
  BY <1>12 DEF P
<1>14. c \in [0 .. n -> S]
  BY <1>9, <1>13
<1>15. AreStates(c, iov, bytes)
  BY <1>10, <1>14 DEF AreStates, n, S, first
<1> QED BY <1>0, <1>15 DEF n

\* When d bytes have been copied to the places of the first buffers.
Halfway(s, p, o, bytes, i) ==
  /\ \A a \in Address : s[i].mem[a] # mem[a] => a \in Writable /\ \E k \in 1 .. o[i] : p[i][k] = a
  /\ ~s[i].fault =>
       /\ Len(bytes) - s[i].remaining = Lesser(o[i], Len(bytes))
       /\ \A a \in Address : Stored(mem, p[i], bytes, Lesser(o[i], Len(bytes)), a, s[i].mem[a])

LEMMA HalfwayStep ==
  ASSUME mem \in [Address -> Cell], NEW iov \in Seq(Buffer), NEW bytes \in Seq(Cell),
         NEW o, NEW p, NEW s, AreOffsets(o, iov), ArePlaces(p, iov), AreStates(s, iov, bytes),
         NEW i \in 1 .. Len(iov), Halfway(s, p, o, bytes, i - 1)
  PROVE  Halfway(s, p, o, bytes, i)
<1>1. PICK v \in Buffer : v = iov[i]
  BY BufferParts
<1>2. v.base \in Nat /\ v.length \in Nat /\ Len(bytes) \in Nat /\ Address \subseteq Nat
  BY GuestIOAssumption DEF Buffer, Address
<1>20. /\ o[i - 1] \in Nat /\ o[i] = o[i - 1] + iov[i].length
       /\ \A k \in 1 .. o[i - 1] : p[i][k] = p[i - 1][k]
       /\ \A k \in o[i - 1] + 1 .. o[i] : p[i][k] = iov[i].base + (k - o[i - 1]) - 1
  <2>1. LaidOut(iov, o, p, i)
    BY Layout, Zenon
  <2> QED BY <2>1, Zenon DEF LaidOut
<1>3. PICK x \in Nat : x = o[i - 1]
  BY <1>20
<1>21. o[i] = x + v.length /\ x + v.length \in Nat
  BY <1>1, <1>2, <1>3, <1>20
<1>4. PICK y \in Nat : y = o[i]
  BY <1>21
<1>5. /\ y = x + v.length
      /\ \A k \in 1 .. x : p[i][k] = p[i - 1][k]
      /\ \A k \in x + 1 .. y : p[i][k] = v.base + (k - x) - 1
  BY <1>1, <1>3, <1>4, <1>20, <1>21
<1>6. PICK before \in State(bytes) : before = s[i - 1]
  <2>1. i - 1 \in 0 .. Len(iov)
    OBVIOUS
  <2> QED BY <2>1 DEF AreStates
<1>7. PICK after \in State(bytes) : after = s[i]
  <2>1. i \in 0 .. Len(iov)
    OBVIOUS
  <2> QED BY <2>1 DEF AreStates
<1>8. after = ScatterStep(bytes, before, v)
  BY <1>1, <1>6, <1>7 DEF AreStates
<1> DEFINE d == Len(bytes) - before.remaining
           t == Lesser(before.remaining, v.length)
<1>9. before.remaining \in 0 .. Len(bytes) /\ before.fault \in BOOLEAN /\ after.fault \in BOOLEAN
  BY DEF State
<1>10. /\ before.fault \/ before.remaining = 0 => after = before
       /\ \A a \in Address : after.mem[a] # before.mem[a]
            => a \in Writable /\ a \in v.base .. v.base + v.length - 1
       /\ ~before.fault /\ ~after.fault /\ before.remaining # 0 =>
            /\ after.remaining = before.remaining - t
            /\ \A a \in Address :
                 /\ a \in v.base .. v.base + t - 1 => after.mem[a] = bytes[d + (a - v.base + 1)]
                 /\ a \notin v.base .. v.base + t - 1 => after.mem[a] = before.mem[a]
  BY <1>8, OneBuffer
<1>11. d \in Nat /\ t \in Nat /\ t <= before.remaining /\ t <= v.length
  BY <1>2, <1>9 DEF Lesser
<1>12. /\ \A a \in Address : before.mem[a] # mem[a] => a \in Writable /\ \E k \in 1 .. x : p[i - 1][k] = a
       /\ ~before.fault =>
            /\ d = Lesser(x, Len(bytes))
            /\ \A a \in Address : Stored(mem, p[i - 1], bytes, d, a, before.mem[a])
  BY <1>3, <1>6 DEF Halfway
<1> HIDE DEF d, t
<1>13. ASSUME NEW a \in Address, after.mem[a] # mem[a]
       PROVE  a \in Writable /\ \E k \in 1 .. y : p[i][k] = a
  <2>1. CASE after.mem[a] # before.mem[a]
    <3>1. a \in Writable /\ a \in v.base .. v.base + v.length - 1 /\ a \in Nat
      BY <1>2, <1>10, <2>1
    <3>2. PICK k \in Int : k = x + (a - v.base + 1)
      BY <1>2
    <3>3. k \in x + 1 .. y /\ k \in 1 .. y /\ v.base + (k - x) - 1 = a
      <4>1. PICK b \in Nat : b = v.base
        BY <1>2
      <4>2. PICK l \in Nat : l = v.length
        BY <1>2
      <4>3. a \in b .. b + l - 1 /\ k = x + (a - b + 1) /\ y = x + l
        BY <1>5, <3>1, <3>2, <4>1, <4>2
      <4>4. k \in x + 1 .. y /\ k \in 1 .. y /\ b + (k - x) - 1 = a
        BY <3>1, <4>3
      <4> QED BY <4>1, <4>4
    <3> QED BY <1>5, <3>1, <3>3
  <2>2. CASE after.mem[a] = before.mem[a]
    <3>1. PICK k \in 1 .. x : p[i - 1][k] = a
      BY <1>12, <1>13, <2>2
    <3>2. a \in Writable
      BY <1>12, <1>13, <2>2
    <3>3. k \in 1 .. y /\ p[i][k] = a
      BY <1>2, <1>5, <3>1
    <3> QED BY <3>2, <3>3
  <2> QED BY <2>1, <2>2
<1>14. ASSUME ~after.fault
       PROVE  /\ Len(bytes) - after.remaining = Lesser(y, Len(bytes))
              /\ \A a \in Address : Stored(mem, p[i], bytes, Lesser(y, Len(bytes)), a, after.mem[a])
  <2>1. ~before.fault
    BY <1>10, <1>14
  <2>2. CASE before.remaining = 0
    <3>1. after = before /\ d = Len(bytes)
      BY <1>2, <1>10, <2>2 DEF d
    <3>2. Lesser(y, Len(bytes)) = Len(bytes) /\ Len(bytes) <= x
      BY <1>2, <1>5, <1>12, <2>1, <3>1 DEF Lesser
    <3>3. \A k \in 1 .. d : p[i][k] = p[i - 1][k]
      BY <1>2, <1>5, <3>1, <3>2
    <3>4. ASSUME NEW a \in Address PROVE Stored(mem, p[i], bytes, d, a, after.mem[a])
      <4>1. Stored(mem, p[i - 1], bytes, d, a, after.mem[a])
        BY <1>12, <2>1, <3>1
      <4>2. \A k \in 1 .. d : \A later \in k + 1 .. d : later \in 1 .. d
        BY <1>11
      <4> QED BY <3>3, <4>1, <4>2, SMTT(40) DEF Stored
    <3> QED BY <1>2, <2>2, <3>1, <3>2, <3>4
  <2>3. CASE before.remaining # 0
    <3>1. /\ after.remaining = before.remaining - t
          /\ \A a \in Address :
               /\ a \in v.base .. v.base + t - 1 => after.mem[a] = bytes[d + (a - v.base + 1)]
               /\ a \notin v.base .. v.base + t - 1 => after.mem[a] = before.mem[a]
      BY <1>10, <1>14, <2>1, <2>3
    <3>2. d = x /\ x < Len(bytes)
      BY <1>2, <1>9, <1>12, <2>1, <2>3 DEF Lesser, d
    <3>3. d + t = Lesser(y, Len(bytes)) /\ d + t <= y
      <4>1. PICK r \in Nat : r = before.remaining
        BY <1>2, <1>9
      <4>2. PICK l \in Nat : l = v.length
        BY <1>2
      <4>3. PICK z \in Nat : z = Len(bytes)
        BY <1>2
      <4>4. x = z - r /\ y = x + l /\ t = Lesser(r, l)
        BY <1>5, <3>2, <4>1, <4>2, <4>3 DEF d, t
      <4>5. x + t = Lesser(y, z) /\ x + t <= y
        BY <4>4 DEF Lesser
      <4> QED BY <3>2, <4>3, <4>5
    <3>4. Len(bytes) - after.remaining = Lesser(y, Len(bytes))
      BY <1>2, <1>9, <1>11, <3>1, <3>3 DEF d
    <3>5. \A k \in 1 .. d : p[i][k] = p[i - 1][k]
      BY <1>5, <3>2
    <3>6. \A k \in d + 1 .. d + t : p[i][k] = v.base + (k - d) - 1
      BY <1>5, <1>11, <3>2, <3>3
    <3>7. ASSUME NEW a \in Address PROVE Stored(mem, p[i], bytes, d + t, a, after.mem[a])
      <4>1. Stored(mem, p[i - 1], bytes, d, a, before.mem[a]) /\ a \in Nat
        BY <1>2, <1>12, <2>1
      <4>2. PICK new : new = after.mem[a]
        OBVIOUS
      <4>3. PICK old : old = before.mem[a]
        OBVIOUS
      <4>4. /\ a \in v.base .. v.base + t - 1 => new = bytes[d + (a - v.base + 1)]
            /\ a \notin v.base .. v.base + t - 1 => new = old
        BY <3>1, <4>2, <4>3
      <4>5. PICK base \in Nat : base = v.base
        BY <1>2
      <4>6. PICK q : q = p[i]
        OBVIOUS
      <4>7. PICK q1 : q1 = p[i - 1]
        OBVIOUS
      <4>8. Stored(mem, q, bytes, d + t, a, new)
        <5>1. \A k \in 1 .. d : q[k] = q1[k]
          BY <3>5, <4>6, <4>7
        <5>2. \A k \in d + 1 .. d + t : q[k] = base + (k - d) - 1
          BY <3>6, <4>5, <4>6
        <5>3. Stored(mem, q1, bytes, d, a, old)
          BY <4>1, <4>3, <4>7
        <5>4. /\ a \in base .. base + t - 1 => new = bytes[d + (a - base + 1)]
              /\ a \notin base .. base + t - 1 => new = old
          BY <4>4, <4>5
        <5> QED BY <1>11, <4>1, <5>1, <5>2, <5>3, <5>4, StoredMore
      <4> QED BY <4>2, <4>6, <4>8
    <3> QED BY <3>3, <3>4, <3>7
  <2> QED BY <2>2, <2>3
<1> QED BY <1>4, <1>7, <1>13, <1>14 DEF Halfway

\* What the loop leaves in memory.
LEMMA Scattering ==
  ASSUME mem \in [Address -> Cell], NEW iov \in Seq(Buffer), NEW bytes \in Seq(Cell),
         Len(bytes) <= Total(iov), NEW result, result = Scatter(iov, bytes)
  PROVE  /\ result.mem \in [Address -> Cell]
         /\ result.fault \in BOOLEAN
         /\ \A a \in Address : result.mem[a] # mem[a] => a \in ToSet(Flat(iov)) \cap Writable
         /\ ~result.fault =>
              \A a \in Address : Stored(mem, Flat(iov), bytes, Len(bytes), a, result.mem[a])
<1> DEFINE n == Len(iov)
<1>1. PICK s : AreStates(s, iov, bytes) /\ Scatter(iov, bytes) = s[Len(iov)]
  BY StatesValue
<1>2. PICK o : o = Offsets(iov) /\ AreOffsets(o, iov)
  BY OffsetsValue
<1>3. PICK p : p = FlatUpTo(iov) /\ ArePlaces(p, iov) /\ Flat(iov) = p[Len(iov)]
  BY PlacesValue
<1> DEFINE P == {i \in 0 .. n : Halfway(s, p, o, bytes, i)}
<1>4. n \in Nat /\ Len(bytes) \in Nat
  OBVIOUS
<1>5. 0 \in P
  <2>1. s[0].mem = mem /\ s[0].remaining = Len(bytes) /\ o[0] = 0
    BY <1>1, <1>2 DEF AreStates, FirstState, AreOffsets
  <2>2. Lesser(0, Len(bytes)) = 0 /\ Len(bytes) - Len(bytes) = 0
    BY <1>4 DEF Lesser
  <2>3. \A a \in Address : Stored(mem, p[0], bytes, 0, a, mem[a])
    BY DEF Stored
  <2>4. Halfway(s, p, o, bytes, 0)
    BY <2>1, <2>2, <2>3 DEF Halfway
  <2> QED BY <1>4, <2>4
<1>6. \A i \in 1 .. n : i - 1 \in P => i \in P
  <2> SUFFICES ASSUME NEW i \in 1 .. n, i - 1 \in P PROVE i \in P
    OBVIOUS
  <2>1. Halfway(s, p, o, bytes, i)
    BY <1>1, <1>2, <1>3, HalfwayStep
  <2> QED BY <1>4, <2>1
<1>7. Halfway(s, p, o, bytes, n)
  <2> HIDE DEF P, n
  <2>1. n \in P
    <3>1. \A i \in 0 .. n : i \in P
      BY <1>4, <1>5, <1>6, Induction
    <3> QED BY <1>4, <3>1
  <2> QED BY <2>1 DEF P
<1>8. result = s[n] /\ result \in State(bytes)
  BY <1>1, <1>4 DEF AreStates
<1>9. o[n] = Total(iov) /\ o[n] \in Nat
  BY <1>2, <1>4 DEF AreOffsets, Total
<1>10. Lesser(o[n], Len(bytes)) = Len(bytes)
  BY <1>4, <1>9 DEF Lesser
<1>11. p[n] \in Seq(Nat) /\ Len(p[n]) = o[n]
  <2>1. CASE n = 0
    BY <1>2, <1>3, <2>1 DEF ArePlaces, AreOffsets
  <2>2. CASE n # 0
    <3>1. n \in 1 .. Len(iov) /\ n \in 0 .. Len(iov)
      BY <1>4, <2>2
    <3>2. Len(p[n]) = o[n]
      BY <1>2, <1>3, <3>1, Layout DEF LaidOut
    <3> QED BY <1>3, <3>1, <3>2 DEF ArePlaces
  <2> QED BY <2>1, <2>2
<1>12. ToSet(Flat(iov)) = {p[n][k] : k \in 1 .. o[n]}
  <2>1. PICK q \in Seq(Nat) : q = p[n]
    BY <1>11
  <2>2. DOMAIN q = 1 .. o[n]
    BY <1>11, <2>1
  <2> QED BY <1>3, <2>1, <2>2 DEF ToSet
<1> HIDE DEF n
<1>13. \A a \in Address : result.mem[a] # mem[a] => a \in ToSet(Flat(iov)) \cap Writable
  BY <1>7, <1>8, <1>12 DEF Halfway
<1>14. ~result.fault => \A a \in Address : Stored(mem, Flat(iov), bytes, Len(bytes), a, result.mem[a])
  BY <1>3, <1>7, <1>8, <1>10 DEF Halfway, n
<1>15. result.mem \in [Address -> Cell] /\ result.fault \in BOOLEAN
  BY <1>8 DEF State
<1> QED BY <1>13, <1>14, <1>15

-----------------------------------------------------------------------------
(* writev's loop over the buffers.                                         *)

Gathered(s, v) == s \o copy_buffer_from_guest(v.base, v.length)

AreGathered(g, iov) ==
  /\ g \in [0 .. Len(iov) -> Seq(Cell)]
  /\ g[0] = <<>>
  /\ \A i \in 1 .. Len(iov) : g[i] = Gathered(g[i - 1], iov[i])

LEMMA OneBufferRead ==
  ASSUME mem \in [Address -> Cell], NEW v \in Buffer, ~Faults(v.base, v.length, Readable),
         NEW b, b = copy_buffer_from_guest(v.base, v.length)
  PROVE  /\ b \in Seq(Cell) /\ Len(b) = v.length
         /\ \A k \in 1 .. v.length : b[k] = mem[v.base + k - 1]
<1>1. v.base \in Nat /\ v.length \in Nat
  BY GuestIOAssumption DEF Buffer, Address
<1>2. ASSUME NEW k \in 1 .. v.length PROVE mem[v.base + k - 1] \in Cell
  <2>1. k - 1 \in 0 .. v.length - 1 /\ v.base + (k - 1) = v.base + k - 1
    BY <1>1
  <2>2. v.base + k - 1 \in Readable
    BY <2>1 DEF Faults
  <2> QED BY <2>2, GuestIOAssumption
<1>3. b = [k \in 1 .. v.length |-> mem[v.base + k - 1]]
  BY DEF copy_buffer_from_guest
<1>4. b \in [1 .. v.length -> Cell]
  BY <1>2, <1>3
<1> QED BY <1>1, <1>3, <1>4

LEMMA GatheredValue ==
  ASSUME mem \in [Address -> Cell], NEW iov \in Seq(Buffer),
         \A i \in 1 .. Len(iov) : ~Faults(iov[i].base, iov[i].length, Readable)
  PROVE  \E g : AreGathered(g, iov) /\ Gather(iov) = g[Len(iov)]
<1> DEFINE n == Len(iov)
           S == Seq(Cell)
           none == <<>>
           F(f) == [i \in 0 .. n |-> IF i = 0 THEN none ELSE Gathered(f[i - 1], iov[i])]
           step == [x \in (1 .. n) \X S |-> Gathered(x[2], iov[x[1]])]
           c == CHOOSE f : f = F(f)
<1>0. Gather(iov) = c[n]
  BY DEF Gather, Gathered
<1>1. n \in Nat /\ none \in S
  OBVIOUS
<1>2. \A i \in 1 .. n, s \in S : Gathered(s, iov[i]) \in S
  <2>1. \A i \in 1 .. n : copy_buffer_from_guest(iov[i].base, iov[i].length) \in S
    BY BufferParts, OneBufferRead
  <2> QED BY <2>1 DEF Gathered
<1>3. c = CHOOSE f : f = F(f)
  OBVIOUS
<1> HIDE DEF n, c, S, none
<1>4. step \in [(1 .. n) \X S -> S] /\ \A i \in 1 .. n, s \in S : step[<<i, s>>] = Gathered(s, iov[i])
  BY <1>2
<1> HIDE DEF step
<1>5. PICK g : Run(g, n, S, none, step)
  BY <1>1, <1>4, Recursion, Zenon
<1>6. \A i \in 1 .. n : i - 1 \in 0 .. n
  BY <1>1
<1>7. g \in [0 .. n -> S] /\ g[0] = none /\ \A i \in 1 .. n : g[i] = Gathered(g[i - 1], iov[i])
  BY <1>4, <1>5, <1>6 DEF Run
<1>8. g = F(g)
  BY <1>1, <1>7
<1>9. c = F(c)
  BY <1>3, <1>8
<1>10. c[0] = none /\ \A i \in 1 .. n : c[i] = Gathered(c[i - 1], iov[i])
  BY <1>1, <1>9
<1> DEFINE P == {i \in 0 .. n : c[i] \in S}
<1>11. 0 \in P /\ \A i \in 1 .. n : i - 1 \in P => i \in P
  BY <1>1, <1>2, <1>10
<1> HIDE DEF P
<1>12. \A i \in 0 .. n : i \in P
  BY <1>1, <1>11, Induction
<1>13. \A i \in 0 .. n : c[i] \in S
  BY <1>12 DEF P
<1>14. c \in [0 .. n -> S]
  BY <1>9, <1>13
<1>15. AreGathered(c, iov)
  BY <1>10, <1>14 DEF AreGathered, n, S, none
<1> QED BY <1>0, <1>15 DEF n

\* The bytes of the first i buffers are those at their places.
Collected(g, p, i) ==
  Len(g[i]) = Len(p[i]) /\ \A k \in 1 .. Len(p[i]) : g[i][k] = mem[p[i][k]]

\* All buffers are read to their ends, one after the other.
LEMMA Gathering ==
  ASSUME mem \in [Address -> Cell], NEW iov \in Seq(Buffer),
         \A i \in 1 .. Len(iov) : ~Faults(iov[i].base, iov[i].length, Readable)
  PROVE  /\ Gather(iov) \in Seq(Cell)
         /\ Len(Gather(iov)) = Total(iov)
         /\ \A k \in 1 .. Total(iov) : Gather(iov)[k] = mem[Flat(iov)[k]]
<1> DEFINE n == Len(iov)
<1>1. PICK g : AreGathered(g, iov) /\ Gather(iov) = g[Len(iov)]
  BY GatheredValue
<1>2. PICK o : o = Offsets(iov) /\ AreOffsets(o, iov)
  BY OffsetsValue
<1>3. PICK p : p = FlatUpTo(iov) /\ ArePlaces(p, iov) /\ Flat(iov) = p[Len(iov)]
  BY PlacesValue
<1> DEFINE P == {i \in 0 .. n : Collected(g, p, i) /\ Len(p[i]) = o[i]}
<1>4. n \in Nat
  OBVIOUS
<1>5. 0 \in P
  BY <1>1, <1>2, <1>3, <1>4 DEF Collected, AreGathered, ArePlaces, AreOffsets
<1>6. \A i \in 1 .. n : i - 1 \in P => i \in P
  <2> SUFFICES ASSUME NEW i \in 1 .. n, i - 1 \in P PROVE i \in P
    OBVIOUS
  <2>1. LaidOut(iov, o, p, i)
    BY <1>2, <1>3, Layout, Zenon
  <2>2. PICK v \in Buffer : v = iov[i]
    BY BufferParts
  <2>3. PICK b \in Seq(Cell) : /\ b = copy_buffer_from_guest(v.base, v.length) /\ Len(b) = v.length
                               /\ \A k \in 1 .. v.length : b[k] = mem[v.base + k - 1]
    BY <2>2, OneBufferRead
  <2>4. PICK s \in Seq(Cell) : s = g[i - 1]
    <3>1. i - 1 \in 0 .. Len(iov)
      OBVIOUS
    <3> QED BY <1>1, <3>1 DEF AreGathered
  <2>5. g[i] = s \o b
    BY <1>1, <2>2, <2>3, <2>4 DEF AreGathered, Gathered
  <2>6. PICK x \in Nat : x = o[i - 1]
    BY <2>1 DEF LaidOut
  <2>7. v.length \in Nat /\ v.base \in Nat
    BY <2>2, BufferParts
  <2>8. /\ o[i] = x + v.length /\ Len(p[i]) = x + v.length
        /\ \A k \in 1 .. x : p[i][k] = p[i - 1][k]
        /\ \A k \in x + 1 .. x + v.length : p[i][k] = v.base + (k - x) - 1
    BY <2>1, <2>2, <2>6 DEF LaidOut
  <2>9. Len(s) = x /\ \A k \in 1 .. x : s[k] = mem[p[i - 1][k]]
    <3>1. Collected(g, p, i - 1) /\ Len(p[i - 1]) = x
      BY <2>6
    <3> QED BY <2>4, <3>1 DEF Collected
  <2>10. Len(s \o b) = x + v.length
    <3>1. Len(s \o b) = Len(s) + Len(b)
      OBVIOUS
    <3> QED BY <2>3, <2>9, <3>1
  <2>11. ASSUME NEW k \in 1 .. x + v.length PROVE (s \o b)[k] = mem[p[i][k]]
    <3>1. CASE k <= x
      <4>1. k \in 1 .. x /\ k \in 1 .. Len(s)
        BY <2>7, <2>9, <3>1
      <4>2. (s \o b)[k] = s[k]
        BY <4>1
      <4> QED BY <2>8, <2>9, <4>1, <4>2
    <3>2. CASE ~(k <= x)
      <4>1. k \in x + 1 .. x + v.length /\ k \in Len(s) + 1 .. Len(s) + Len(b) /\ k - x \in 1 .. v.length
        BY <2>3, <2>7, <2>9, <3>2
      <4>2. (s \o b)[k] = b[k - x]
        BY <2>9, <4>1
      <4>3. b[k - x] = mem[v.base + (k - x) - 1]
        BY <2>3, <4>1
      <4> QED BY <2>8, <4>1, <4>2, <4>3
    <3> QED BY <3>1, <3>2
  <2>12. Collected(g, p, i)
    BY <2>5, <2>8, <2>10, <2>11 DEF Collected
  <2>13. i \in 0 .. n
    BY <1>4
  <2> QED BY <2>8, <2>12, <2>13
<1>7. Collected(g, p, n) /\ Len(p[n]) = o[n]
  <2> HIDE DEF P, n
  <2>1. n \in P
    <3>1. \A i \in 0 .. n : i \in P
      BY <1>4, <1>5, <1>6, Induction
    <3> QED BY <1>4, <3>1
  <2> QED BY <2>1 DEF P
<1>8. Total(iov) = o[n]
  BY <1>2 DEF Total
<1>9. g[n] \in Seq(Cell)
  BY <1>1, <1>4 DEF AreGathered
<1> QED BY <1>1, <1>3, <1>7, <1>8, <1>9 DEF Collected

-----------------------------------------------------------------------------
(* System calls.                                                           *)

Names == {"receive", "send", "recvfrom", "structure"}

\* What every call must leave.
Good == IOTypeOK' /\ StaysInBuffers /\ (ended' \/ MovesItsResult)

Suffix(s, t) == \E n \in 0 .. Len(t) : s = SubSeq(t, n + 1, Len(t))

LEMMA SuffixIsSequence ==
  ASSUME NEW s, NEW t \in Seq(Cell), Suffix(s, t)
  PROVE  s \in Seq(Cell)
  BY DEF Suffix

\* What the host has delivered is not delivered again.
LEMMA SuffixOfSuffix ==
  ASSUME NEW s, NEW t \in Seq(Cell), Suffix(s, t), NEW rc \in 0 .. Len(s)
  PROVE  Suffix(SubSeq(s, rc + 1, Len(s)), t)
<1>1. PICK n \in 0 .. Len(t) : s = SubSeq(t, n + 1, Len(t))
  BY DEF Suffix
<1>2. s \in Seq(Cell) /\ Len(t) \in Nat
  BY SuffixIsSequence
<1>3. Len(s) = Len(t) - n /\ \A k \in 1 .. Len(s) : s[k] = t[n + k]
  BY <1>1, <1>2
<1>4. PICK m \in 0 .. Len(t) : m = n + rc
  BY <1>2, <1>3
<1> DEFINE u == SubSeq(s, rc + 1, Len(s))
           w == SubSeq(t, m + 1, Len(t))
<1>5. u \in Seq(Cell) /\ Len(u) = Len(s) - rc /\ \A k \in 1 .. Len(u) : u[k] = s[rc + k]
  BY <1>2
<1>6. w \in Seq(Cell) /\ Len(w) = Len(t) - m /\ \A k \in 1 .. Len(w) : w[k] = t[m + k]
  BY <1>2
<1> HIDE DEF u, w
<1>7. Len(u) = Len(w)
  BY <1>2, <1>3, <1>4, <1>5, <1>6
<1>8. ASSUME NEW k \in 1 .. Len(u) PROVE u[k] = w[k]
  <2>1. rc + k \in 1 .. Len(s) /\ n + (rc + k) = m + k
    BY <1>2, <1>3, <1>4, <1>5
  <2> QED BY <1>3, <1>5, <1>6, <1>7, <2>1
<1>9. u = w
  BY <1>5, <1>6, <1>7, <1>8, SeqEqual
<1> QED BY <1>9 DEF Suffix, u, w

LEMMA TypeParts ==
  ASSUME IOTypeOK
  PROVE  /\ mem \in [Address -> Cell] /\ input \in Seq(Cell) /\ Suffix(input, Incoming)
         /\ sent \in Seq(Cell) /\ ended \in BOOLEAN /\ Len(input) \in Nat
<1>1. mem \in [Address -> Cell] /\ Suffix(input, Incoming) /\ sent \in Seq(Cell) /\ ended \in BOOLEAN
  BY DEF IOTypeOK, Suffix
<1>2. Incoming \in Seq(Cell)
  BY GuestIOAssumption
<1>3. input \in Seq(Cell)
  BY <1>1, <1>2, SuffixIsSequence
<1> QED BY <1>1, <1>3

LEMMA WholeInput ==
  ASSUME IOTypeOK
  PROVE  input = SubSeq(input, 0 + 1, Len(input))
<1>1. input \in Seq(Cell)
  BY TypeParts
<1> QED BY <1>1

\* A call that has moved nothing.
LEMMA Refusing ==
  ASSUME IOTypeOK, NEW name \in Names, NEW iov, Returns(name, iov, Failure),
         UNCHANGED <<mem, input, sent>>, ended' \in BOOLEAN
  PROVE  Good
<1>1. IOTypeOK'
  BY DEF IOTypeOK
<1>2. StaysInBuffers
  BY DEF StaysInBuffers
<1>3. call'.name = name /\ call'.result = Failure
  BY DEF Returns
<1>4. MovesItsResult
  <2>1. \A places, a : Stored(mem, places, input, 0, a, mem'[a])
    BY DEF Stored
  <2>2. input' = SubSeq(input, 0 + 1, Len(input))
    BY WholeInput
  <2> QED BY <1>3, <2>1, <2>2 DEF MovesItsResult, Names
<1> QED BY <1>1, <1>2, <1>4 DEF Good

LEMMA TotalIsNatural ==
  ASSUME NEW iov \in Seq(Buffer)
  PROVE  Total(iov) \in Nat
<1>1. AreOffsets(Offsets(iov), iov) /\ Len(iov) \in 0 .. Len(iov)
  BY OffsetsValue
<1> QED BY <1>1 DEF AreOffsets, Total

LEMMA FlatLength ==
  ASSUME NEW iov \in Seq(Buffer)
  PROVE  Flat(iov) \in Seq(Nat) /\ Len(Flat(iov)) = Total(iov)
<1> DEFINE n == Len(iov)
<1>1. PICK o : o = Offsets(iov) /\ AreOffsets(o, iov)
  BY OffsetsValue
<1>2. PICK p : p = FlatUpTo(iov) /\ ArePlaces(p, iov) /\ Flat(iov) = p[n]
  BY PlacesValue
<1>3. n \in Nat /\ n \in 0 .. n
  OBVIOUS
<1>4. CASE n = 0
  BY <1>1, <1>2, <1>3, <1>4 DEF ArePlaces, AreOffsets, Total
<1>5. CASE n # 0
  <2>1. n \in 1 .. Len(iov)
    BY <1>3, <1>5
  <2>2. LaidOut(iov, o, p, n)
    BY <1>1, <1>2, <2>1, Layout, Zenon
  <2>3. Len(p[n]) = o[n]
    BY <2>2 DEF LaidOut
  <2> QED BY <1>1, <1>2, <1>3, <2>3 DEF ArePlaces, Total
<1> QED BY <1>4, <1>5

\* What the guest receives.
LEMMA Receiving ==
  ASSUME IOTypeOK, NEW iov \in Seq(Buffer), readv(iov)
  PROVE  Good
<1>1. CASE Fails("receive", iov)
  <2>1. Returns("receive", iov, Failure) /\ UNCHANGED <<mem, input, sent>> /\ ended' = ended
    BY <1>1 DEF Fails
  <2>2. ended' \in BOOLEAN
    BY <2>1, TypeParts
  <2>3. PICK name \in Names : name = "receive"
    BY DEF Names
  <2> QED BY <2>1, <2>2, <2>3, Refusing
<1>2. ASSUME NEW rc \in 0 .. Lesser(Total(iov), Len(input)),
             Returns("receive", iov, rc),
             mem' = Scatter(iov, SubSeq(input, 1, rc)).mem,
             ended' = Scatter(iov, SubSeq(input, 1, rc)).fault,
             input' = SubSeq(input, rc + 1, Len(input)), UNCHANGED sent
      PROVE  Good
  <2>1. /\ mem \in [Address -> Cell] /\ input \in Seq(Cell) /\ Suffix(input, Incoming)
        /\ sent \in Seq(Cell) /\ Len(input) \in Nat
    BY TypeParts
  <2>2. rc \in 0 .. Len(input) /\ rc <= Total(iov) /\ rc \in Nat
    BY <2>1, TotalIsNatural DEF Lesser
  <2>3. PICK bytes : bytes = SubSeq(input, 1, rc)
    OBVIOUS
  <2>4. bytes \in Seq(Cell) /\ Len(bytes) = rc /\ \A k \in 1 .. rc : bytes[k] = input[k]
    BY <2>1, <2>2, <2>3
  <2>5. PICK result : result = Scatter(iov, bytes)
    OBVIOUS
  <2>6. /\ result.mem \in [Address -> Cell]
        /\ result.fault \in BOOLEAN
        /\ \A a \in Address : result.mem[a] # mem[a] => a \in ToSet(Flat(iov)) \cap Writable
        /\ ~result.fault =>
              \A a \in Address : Stored(mem, Flat(iov), bytes, Len(bytes), a, result.mem[a])
    BY <2>1, <2>2, <2>4, <2>5, Scattering
  <2>7. mem' = result.mem /\ ended' = result.fault
    BY <1>2, <2>3, <2>5
  <2>8. call'.name = "receive" /\ call'.iov = iov /\ call'.result = rc /\ rc # Failure
    BY <1>2, <2>2 DEF Returns, Failure
  <2>9. Suffix(input', Incoming)
    BY <1>2, <2>1, <2>2, GuestIOAssumption, SuffixOfSuffix
  <2>10. IOTypeOK'
    BY <1>2, <2>1, <2>6, <2>7, <2>9 DEF IOTypeOK, Suffix
  <2>11. StaysInBuffers
    BY <2>6, <2>7, <2>8 DEF StaysInBuffers
  <2>12. ASSUME ~ended' PROVE MovesItsResult
    <3>1. \A a \in Address : Stored(mem, Flat(iov), input, rc, a, mem'[a])
      BY <2>4, <2>6, <2>7, <2>12 DEF Stored
    <3> QED BY <1>2, <2>8, <3>1 DEF MovesItsResult
  <2> QED BY <2>10, <2>11, <2>12 DEF Good
<1> QED BY <1>1, <1>2 DEF readv

\* What the host receives.
LEMMA Sending ==
  ASSUME IOTypeOK, NEW iov \in Seq(Buffer), writev(iov)
  PROVE  Good
<1>0. PICK name \in Names : name = "send"
  BY DEF Names
<1>1. CASE Fails("send", iov)
  <2>1. Returns("send", iov, Failure) /\ UNCHANGED <<mem, input, sent>> /\ ended' = ended
    BY <1>1 DEF Fails
  <2>2. ended' \in BOOLEAN
    BY <2>1, TypeParts
  <2> QED BY <1>0, <2>1, <2>2, Refusing
<1>2. ASSUME Returns("send", iov, Failure), ended' = TRUE, UNCHANGED <<mem, input, sent>>
      PROVE  Good
  BY <1>0, <1>2, Refusing
<1>3. ASSUME \A i \in 1 .. Len(iov) : ~Faults(iov[i].base, iov[i].length, Readable),
             NEW rc \in 0 .. Total(iov), Returns("send", iov, rc),
             sent' = SubSeq(Gather(iov), 1, rc), UNCHANGED <<mem, input, ended>>
      PROVE  Good
  <2>1. mem \in [Address -> Cell] /\ Total(iov) \in Nat
    BY TypeParts, TotalIsNatural
  <2>2. PICK all : all = Gather(iov)
    OBVIOUS
  <2>3. /\ all \in Seq(Cell) /\ Len(all) = Total(iov)
        /\ \A k \in 1 .. Total(iov) : all[k] = mem[Flat(iov)[k]]
    BY <1>3, <2>1, <2>2, Gathering
  <2>4. SubSeq(all, 1, rc) \in Seq(Cell) /\ SubSeq(all, 1, rc) = [k \in 1 .. rc |-> all[k]]
    <3>1. rc \in 0 .. Len(all)
      BY <2>3
    <3>2. SubSeq(all, 1, rc) \in Seq(Cell) /\ Len(SubSeq(all, 1, rc)) = rc
      BY <2>1, <2>3, <3>1
    <3>3. \A k \in 1 .. rc : SubSeq(all, 1, rc)[k] = all[k]
      BY <2>1, <2>3, <3>1
    <3>4. PICK part \in Seq(Cell) : part = SubSeq(all, 1, rc)
      BY <3>2
    <3>5. part = [k \in 1 .. rc |-> part[k]]
      BY <3>2, <3>4
    <3> QED BY <3>2, <3>3, <3>4, <3>5
  <2>5. [k \in 1 .. rc |-> all[k]] = [k \in 1 .. rc |-> mem[Flat(iov)[k]]]
    <3>1. \A k \in 1 .. rc : all[k] = mem[Flat(iov)[k]]
      BY <2>1, <2>3
    <3> QED BY <3>1
  <2>6. sent' \in Seq(Cell) /\ sent' = [k \in 1 .. rc |-> mem[Flat(iov)[k]]]
    BY <1>3, <2>2, <2>4, <2>5
  <2>7. IOTypeOK'
    BY <1>3, <2>6 DEF IOTypeOK
  <2>8. StaysInBuffers
    BY <1>3 DEF StaysInBuffers
  <2>9. call'.name = "send" /\ call'.iov = iov /\ call'.result = rc /\ rc # Failure
    BY <1>3, <2>1 DEF Returns, Failure
  <2>10. MovesItsResult
    BY <1>3, <2>6, <2>9 DEF MovesItsResult
  <2> QED BY <2>7, <2>8, <2>10 DEF Good
<1> QED BY <1>1, <1>2, <1>3 DEF writev

LEMMA FreshCells ==
  ASSUME NEW n \in Nat
  PROVE  Fresh(n) \in Seq(Cell) /\ Len(Fresh(n)) = n
<1>1. Fresh(n) \in [1 .. n -> Cell]
  BY DEF Fresh, Cell
<1> QED BY <1>1 DEF Fresh

\* What the host fills in.
LEMMA WritingBack ==
  ASSUME IOTypeOK, NEW iov \in Seq(Buffer), NEW n \in Nat, n <= Total(iov), NEW rc \in Nat,
         WriteBack(iov, Fresh(n), rc)
  PROVE  Good
<1>1. mem \in [Address -> Cell]
  BY TypeParts
<1>2. PICK bytes \in Seq(Cell) : bytes = Fresh(n) /\ Len(bytes) = n
  BY FreshCells
<1>3. PICK result : result = Scatter(iov, bytes)
  OBVIOUS
<1>4. /\ result.mem \in [Address -> Cell]
      /\ result.fault \in BOOLEAN
      /\ \A a \in Address : result.mem[a] # mem[a] => a \in ToSet(Flat(iov)) \cap Writable
  BY <1>1, <1>2, <1>3, Scattering
<1>5. /\ mem' = result.mem /\ ended' = result.fault /\ UNCHANGED <<input, sent>>
      /\ Returns("structure", iov, rc)
  BY <1>2, <1>3 DEF WriteBack
<1>6. call'.name = "structure" /\ call'.iov = iov /\ call'.result = rc /\ rc # Failure
  BY <1>5 DEF Returns, Failure
<1>7. IOTypeOK'
  BY <1>4, <1>5 DEF IOTypeOK
<1>8. StaysInBuffers
  BY <1>4, <1>5, <1>6 DEF StaysInBuffers
<1>9. MovesItsResult
  BY <1>5, <1>6 DEF MovesItsResult
<1> QED BY <1>7, <1>8, <1>9 DEF Good

\* Every byte of every buffer is a place of the list.
LEMMA FlatCovers ==
  ASSUME NEW iov \in Seq(Buffer), NEW i \in 1 .. Len(iov),
         NEW a \in iov[i].base .. iov[i].base + iov[i].length - 1
  PROVE  a \in ToSet(Flat(iov))
<1> DEFINE n == Len(iov)
<1>1. PICK o : o = Offsets(iov) /\ AreOffsets(o, iov)
  BY OffsetsValue
<1>2. PICK p : p = FlatUpTo(iov) /\ ArePlaces(p, iov) /\ Flat(iov) = p[n]
  BY PlacesValue
<1>3. n \in Nat /\ iov[i].base \in Nat /\ iov[i].length \in Nat /\ a \in Int
  BY BufferParts
<1> DEFINE P == {j \in 0 .. n : j >= i => \E k \in 1 .. o[j] : p[j][k] = a}
<1>4. 0 \in P
  BY <1>3
<1>5. ASSUME NEW j \in 1 .. n, j - 1 \in P PROVE j \in P
  <2>1. LaidOut(iov, o, p, j)
    BY <1>1, <1>2, Layout, Zenon
  <2>2. PICK x \in Nat : x = o[j - 1]
    BY <2>1 DEF LaidOut
  <2>3. iov[j].length \in Nat
    BY BufferParts
  <2>4. /\ o[j] = x + iov[j].length
        /\ \A k \in 1 .. x : p[j][k] = p[j - 1][k]
        /\ \A k \in x + 1 .. x + iov[j].length : p[j][k] = iov[j].base + (k - x) - 1
    BY <2>1, <2>2 DEF LaidOut
  <2>5. CASE j = i
    <3>1. PICK k \in Int : k = x + (a - iov[i].base + 1)
      BY <1>3
    <3>2. k \in x + 1 .. x + iov[i].length /\ k \in 1 .. x + iov[i].length /\ iov[i].base + (k - x) - 1 = a
      <4>1. PICK b \in Nat : b = iov[i].base
        BY <1>3
      <4>2. PICK l \in Nat : l = iov[i].length
        BY <1>3
      <4>3. a \in b .. b + l - 1 /\ k = x + (a - b + 1)
        BY <3>1, <4>1, <4>2
      <4>4. k \in x + 1 .. x + l /\ k \in 1 .. x + l /\ b + (k - x) - 1 = a
        BY <1>3, <4>3
      <4> QED BY <4>1, <4>2, <4>4
    <3>3. k \in 1 .. o[j] /\ p[j][k] = a
      BY <2>4, <2>5, <3>2
    <3>4. j \in 0 .. n
      BY <1>3
    <3> QED BY <3>3, <3>4
  <2>6. CASE j > i
    <3>1. j - 1 >= i /\ j \in 0 .. n
      BY <1>3, <2>6
    <3>2. PICK k \in 1 .. x : p[j - 1][k] = a
      BY <1>5, <2>2, <3>1
    <3>3. k \in 1 .. o[j] /\ p[j][k] = a
      BY <2>3, <2>4, <3>2, SMTT(40)
    <3> QED BY <3>1, <3>3
  <2>7. CASE j < i
    BY <1>3, <2>7
  <2> QED BY <1>3, <2>5, <2>6, <2>7
<1>6. \A j \in 1 .. n : j - 1 \in P => j \in P
  BY <1>5
<1>7. n >= i
  BY <1>3
<1>8. \E k \in 1 .. o[n] : p[n][k] = a
  <2> HIDE DEF P, n
  <2>1. \A j \in 0 .. n : j \in P
    BY <1>3, <1>4, <1>6, Induction
  <2>2. n \in P
    BY <1>3, <2>1
  <2> QED BY <1>7, <2>2 DEF P
<1>9. Flat(iov) \in Seq(Nat) /\ Len(Flat(iov)) = o[n]
  BY <1>1, FlatLength DEF Total
<1>10. PICK k \in 1 .. Len(Flat(iov)) : Flat(iov)[k] = a
  BY <1>2, <1>8, <1>9
<1>11. k \in DOMAIN Flat(iov)
  BY <1>9
<1> QED BY <1>10, <1>11 DEF ToSet

\* The first buffer's places come first.
LEMMA FlatStart ==
  ASSUME NEW iov \in Seq(Buffer), 1 \in 1 .. Len(iov), NEW k \in 1 .. iov[1].length
  PROVE  Flat(iov)[k] = iov[1].base + k - 1
<1> DEFINE n == Len(iov)
<1>1. PICK o : o = Offsets(iov) /\ AreOffsets(o, iov)
  BY OffsetsValue
<1>2. PICK p : p = FlatUpTo(iov) /\ ArePlaces(p, iov) /\ Flat(iov) = p[n]
  BY PlacesValue
<1>3. n \in Nat /\ n >= 1 /\ iov[1].base \in Nat /\ iov[1].length \in Nat
  BY BufferParts
<1> DEFINE P == {j \in 0 .. n : j >= 1 => k \in 1 .. o[j] /\ p[j][k] = iov[1].base + k - 1}
<1>4. 0 \in P
  BY <1>3
<1>5. ASSUME NEW j \in 1 .. n, j - 1 \in P PROVE j \in P
  <2>1. LaidOut(iov, o, p, j)
    BY <1>1, <1>2, Layout, Zenon
  <2>2. PICK x \in Nat : x = o[j - 1]
    BY <2>1 DEF LaidOut
  <2>3. iov[j].length \in Nat /\ j \in 0 .. n
    BY BufferParts
  <2>4. /\ o[j] = x + iov[j].length
        /\ \A l \in 1 .. x : p[j][l] = p[j - 1][l]
        /\ \A l \in x + 1 .. x + iov[j].length : p[j][l] = iov[j].base + (l - x) - 1
    BY <2>1, <2>2 DEF LaidOut
  <2>5. CASE j = 1
    <3>1. j - 1 = 0
      BY <2>5
    <3>2. x = 0
      BY <1>1, <2>2, <3>1 DEF AreOffsets
    <3>3. k \in x + 1 .. x + iov[j].length /\ k \in 1 .. o[j]
      BY <1>3, <2>4, <2>5, <3>2
    <3>4. p[j][k] = iov[1].base + (k - x) - 1
      BY <2>4, <2>5, <3>3
    <3>5. iov[1].base + (k - x) - 1 = iov[1].base + k - 1
      BY <1>3, <3>2
    <3> QED BY <2>3, <3>3, <3>4, <3>5
  <2>6. CASE j # 1
    <3>1. j - 1 >= 1
      BY <2>6
    <3>2. k \in 1 .. x /\ p[j - 1][k] = iov[1].base + k - 1
      BY <1>5, <2>2, <3>1
    <3>3. k \in 1 .. o[j] /\ p[j][k] = iov[1].base + k - 1
      BY <2>3, <2>4, <3>2
    <3> QED BY <2>3, <3>3
  <2> QED BY <2>5, <2>6
<1>6. \A j \in 1 .. n : j - 1 \in P => j \in P
  BY <1>5
<1>7. p[n][k] = iov[1].base + k - 1
  <2> HIDE DEF P, n
  <2>1. \A j \in 0 .. n : j \in P
    BY <1>3, <1>4, <1>6, Induction
  <2>2. n \in P
    BY <1>3, <2>1
  <2> QED BY <1>3, <2>2 DEF P
<1> QED BY <1>2, <1>7

\* An address goes to its buffer, its length to where the guest asked for it.
LEMMA CopyingAddress ==
  ASSUME NEW m \in [Address -> Cell], NEW base \in Address, NEW length_address \in Address,
         NEW size \in Nat, NEW length \in Nat,
         copy_sockaddr_to_guest(m, base, length_address, size, length)
  PROVE  /\ mem' \in [Address -> Cell]
         /\ ended' \in BOOLEAN
         /\ \A a \in Address : mem'[a] # m[a]
              => a \in Writable /\ (a \in base .. base + size - 1 \/ a = length_address)
<1> DEFINE n == IF base = NULL THEN 0 ELSE SockaddrBytes(size, length)
           copied == copy_to_guest(m, base, Fresh(n))
           fault == Faults(base, n, Writable)
           both == copy_to_guest(copied, length_address, <<length>>)
<1>1. n \in Nat /\ n <= size /\ base \in Nat /\ length_address \in Nat
  BY GuestIOAssumption DEF SockaddrBytes, Lesser, Address
<1>2. /\ mem' = IF length_address = NULL \/ fault THEN copied ELSE both
      /\ ended' = (fault \/ (length_address # NULL /\ length_address \notin Writable))
  BY DEF copy_sockaddr_to_guest
<1> HIDE DEF n
<1>3. PICK bytes \in Seq(Cell) : bytes = Fresh(n) /\ Len(bytes) = n
  BY <1>1, FreshCells
<1>4. /\ copied \in [Address -> Cell]
      /\ \A a \in Address : copied[a] # m[a] => a \in Writable /\ a \in base .. base + n - 1
  BY <1>1, <1>3, Copying
<1> HIDE DEF copied
<1>5. PICK one \in Seq(Cell) : one = <<length>> /\ Len(one) = 1
  <2>1. length \in Cell
    BY DEF Cell
  <2>2. <<length>> \in Seq(Cell) /\ Len(<<length>>) = 1
    BY <2>1
  <2> QED BY <2>2
<1>6. /\ both \in [Address -> Cell]
      /\ \A a \in Address : both[a] # copied[a]
           => a \in Writable /\ a \in length_address .. length_address + 1 - 1
  <2>1. PICK m1 \in [Address -> Cell] : m1 = copied
    BY <1>4
  <2>2. both = copy_to_guest(m1, length_address, one)
    BY <1>5, <2>1
  <2>3. /\ copy_to_guest(m1, length_address, one) \in [Address -> Cell]
        /\ \A a \in Address : copy_to_guest(m1, length_address, one)[a] # m1[a]
             => a \in Writable /\ a \in length_address .. length_address + Len(one) - 1
    BY <1>1, Copying
  <2> QED BY <1>5, <2>1, <2>2, <2>3
<1> HIDE DEF both
<1>7. mem' \in [Address -> Cell]
  BY <1>2, <1>4, <1>6
<1>8. ended' \in BOOLEAN
  BY <1>2
<1>9. ASSUME NEW a \in Address, mem'[a] # m[a]
      PROVE  a \in Writable /\ (a \in base .. base + size - 1 \/ a = length_address)
  <2>0. a \in Int
    BY DEF Address
  <2>1. CASE copied[a] # m[a]
    <3>1. a \in Writable /\ a \in base .. base + n - 1
      BY <1>4, <2>1
    <3> QED BY <1>1, <2>0, <3>1
  <2>2. CASE copied[a] = m[a]
    <3>1. both[a] # copied[a]
      BY <1>2, <1>9, <2>2
    <3>2. a \in Writable /\ a \in length_address .. length_address + 1 - 1
      BY <1>6, <3>1
    <3> QED BY <1>1, <2>0, <3>2
  <2> QED BY <2>1, <2>2
<1> QED BY <1>7, <1>8, <1>9

\* The buffers of recvfrom.
Buffers(data, base, size, length_address) ==
  <<data, [base |-> base, length |-> size], [base |-> length_address, length |-> 1]>>

Cover(iov, data, base, size, length_address) ==
  /\ iov \in Seq(Buffer) /\ Tail(iov) \in Seq(Buffer)
  /\ \A a \in data.base .. data.base + data.length - 1 : a \in ToSet(Flat(iov))
  /\ \A a \in base .. base + size - 1 : a \in ToSet(Flat(iov)) /\ a \in ToSet(Flat(Tail(iov)))
  /\ length_address \in ToSet(Flat(iov)) /\ length_address \in ToSet(Flat(Tail(iov)))
  /\ \A k \in 1 .. data.length : Flat(iov)[k] = data.base + k - 1

LEMMA ThreeBuffers ==
  ASSUME NEW data \in Buffer, NEW base \in Address, NEW size \in Nat, NEW length_address \in Address,
         NEW iov, iov = Buffers(data, base, size, length_address)
  PROVE  Cover(iov, data, base, size, length_address)
<1>1. PICK second \in Buffer : second = [base |-> base, length |-> size]
  BY DEF Buffer
<1>2. PICK third \in Buffer : third = [base |-> length_address, length |-> 1]
  BY DEF Buffer
<1>3. iov = <<data, second, third>>
  BY <1>1, <1>2 DEF Buffers
<1>4. iov \in Seq(Buffer) /\ Len(iov) = 3 /\ iov[1] = data /\ iov[2] = second /\ iov[3] = third
  BY <1>3
<1>5. PICK tail \in Seq(Buffer) : /\ tail = Tail(iov) /\ Len(tail) = 2
                                  /\ tail[1] = second /\ tail[2] = third
  <2>1. Tail(iov) \in Seq(Buffer) /\ Len(Tail(iov)) = 2
    BY <1>4
  <2>2. Tail(iov)[1] = iov[2] /\ Tail(iov)[2] = iov[3]
    <3>1. \A i \in 1 .. Len(Tail(iov)) : Tail(iov)[i] = iov[i + 1]
      BY <1>4, HeadTailProperties
    <3>2. 1 \in 1 .. 2 /\ 2 \in 1 .. 2 /\ 1 + 1 = 2 /\ 2 + 1 = 3
      OBVIOUS
    <3>3. Tail(iov)[1] = iov[1 + 1] /\ Tail(iov)[2] = iov[2 + 1]
      BY <2>1, <3>1, <3>2, Zenon
    <3> QED BY <3>2, <3>3, Zenon
  <2> QED BY <1>4, <2>1, <2>2
<1>6. length_address \in third.base .. third.base + third.length - 1
  BY <1>2, GuestIOAssumption DEF Address
<1>7. second.base = base /\ second.length = size
  BY <1>1
<1>8. /\ 1 \in 1 .. Len(iov) /\ 2 \in 1 .. Len(iov) /\ 3 \in 1 .. Len(iov)
      /\ 1 \in 1 .. Len(tail) /\ 2 \in 1 .. Len(tail)
  <2>1. 1 \in 1 .. 3 /\ 2 \in 1 .. 3 /\ 3 \in 1 .. 3 /\ 1 \in 1 .. 2 /\ 2 \in 1 .. 2
    OBVIOUS
  <2> QED BY <1>4, <1>5, <2>1, Zenon
<1>9. \A a \in data.base .. data.base + data.length - 1 : a \in ToSet(Flat(iov))
  BY <1>4, <1>8, FlatCovers
<1>10. \A a \in second.base .. second.base + second.length - 1 : a \in ToSet(Flat(iov))
  BY <1>4, <1>8, FlatCovers
<1>11. \A a \in second.base .. second.base + second.length - 1 : a \in ToSet(Flat(tail))
  BY <1>5, <1>8, FlatCovers
<1>12. length_address \in ToSet(Flat(iov))
  BY <1>4, <1>6, <1>8, FlatCovers
<1>13. length_address \in ToSet(Flat(tail))
  BY <1>5, <1>6, <1>8, FlatCovers
<1>14. \A k \in 1 .. data.length : Flat(iov)[k] = data.base + k - 1
  BY <1>4, <1>8, FlatStart
<1> QED BY <1>4, <1>5, <1>7, <1>9, <1>10, <1>11, <1>12, <1>13, <1>14 DEF Cover

LEMMA VectorIsBuffer ==
  ASSUME NEW v \in Vector
  PROVE  v \in Buffer
  BY GuestIOAssumption DEF Vector, Buffer

\* Data first, then the address it came from and the length of that.
LEMMA ReceivingFrom ==
  ASSUME IOTypeOK, NEW data \in Vector, NEW base \in Address, NEW length_address \in Address,
         recvfrom(data, base, length_address)
  PROVE  Good
<1>1. /\ mem \in [Address -> Cell] /\ input \in Seq(Cell) /\ Suffix(input, Incoming)
      /\ sent \in Seq(Cell) /\ Len(input) \in Nat /\ ended \in BOOLEAN
  BY TypeParts
<1>2. data \in Buffer /\ data.base \in Nat /\ data.length \in Nat /\ data.base \in Address
  BY VectorIsBuffer, GuestIOAssumption DEF Buffer, Address
<1>3. PICK size \in Nat : size = IF length_address = NULL THEN 0 ELSE mem[length_address]
  BY <1>1 DEF Cell
<1>4. PICK iov : iov = Buffers(data, base, size, length_address)
  OBVIOUS
<1>5. PICK name \in Names : name = "recvfrom"
  BY DEF Names
<1>6. /\ iov \in Seq(Buffer) /\ Tail(iov) \in Seq(Buffer)
      /\ \A a \in data.base .. data.base + data.length - 1 : a \in ToSet(Flat(iov))
      /\ \A a \in base .. base + size - 1 : a \in ToSet(Flat(iov)) /\ a \in ToSet(Flat(Tail(iov)))
      /\ length_address \in ToSet(Flat(iov)) /\ length_address \in ToSet(Flat(Tail(iov)))
      /\ \A k \in 1 .. data.length : Flat(iov)[k] = data.base + k - 1
  <2>1. Cover(iov, data, base, size, length_address)
    BY <1>2, <1>4, ThreeBuffers, Zenon
  <2> QED BY <2>1, Zenon DEF Cover
<1>7. ASSUME Returns("recvfrom", iov, Failure), ended' = TRUE, UNCHANGED <<mem, input, sent>>
      PROVE  Good
  BY <1>5, <1>7, Refusing
<1>8. ASSUME Fails("recvfrom", iov)
      PROVE  Good
  <2>1. Returns("recvfrom", iov, Failure) /\ UNCHANGED <<mem, input, sent>> /\ ended' \in BOOLEAN
    BY <1>1, <1>8 DEF Fails
  <2> QED BY <1>5, <2>1, Refusing
<1>9. ASSUME NEW rc \in 0 .. Lesser(data.length, Len(input)),
             NEW length \in IF length_address = NULL THEN {0} ELSE Lengths,
             NEW received, received = copy_to_guest(mem, data.base, SubSeq(input, 1, rc)),
             Returns("recvfrom", iov, rc),
             IF Faults(data.base, rc, Writable)
             THEN mem' = received /\ ended' = TRUE
             ELSE copy_sockaddr_to_guest(received, base, length_address, size, length),
             input' = SubSeq(input, rc + 1, Len(input)), UNCHANGED sent
      PROVE  Good
  <2>1. rc \in 0 .. Len(input) /\ rc <= data.length /\ rc \in Nat
    BY <1>1, <1>2 DEF Lesser
  <2>2. length \in Nat
    BY GuestIOAssumption
  <2>3. PICK bytes : bytes = SubSeq(input, 1, rc)
    OBVIOUS
  <2>4. bytes \in Seq(Cell) /\ Len(bytes) = rc /\ \A k \in 1 .. rc : bytes[k] = input[k]
    BY <1>1, <2>1, <2>3
  <2>5. PICK to \in Nat : to = data.base
    BY <1>2
  <2>6. received = copy_to_guest(mem, to, bytes)
    BY <1>9, <2>3, <2>5
  <2>7. /\ received \in [Address -> Cell]
        /\ \A a \in Address : received[a] # mem[a] => a \in Writable /\ a \in to .. to + rc - 1
        /\ \A a \in Address : a \notin to .. to + rc - 1 => received[a] = mem[a]
        /\ ~Faults(to, rc, Writable) =>
             \A a \in to .. to + rc - 1 : a \in Address /\ received[a] = bytes[a - to + 1]
    <3>1. PICK c : c = copy_to_guest(mem, to, bytes)
      OBVIOUS
    <3>2. PICK now \in [Address -> Cell] : now = mem
      BY <1>1
    <3>3. c = copy_to_guest(now, to, bytes)
      BY <3>1, <3>2
    <3>4. /\ c \in [Address -> Cell]
          /\ \A a \in Address : c[a] # now[a] => a \in Writable /\ a \in to .. to + Len(bytes) - 1
          /\ \A a \in Address : a \notin to .. to + Len(bytes) - 1 => c[a] = now[a]
          /\ ~Faults(to, Len(bytes), Writable) =>
               \A a \in to .. to + Len(bytes) - 1 : a \in Address /\ c[a] = bytes[a - to + 1]
      BY <2>4, <3>3, Copying
    <3> QED BY <2>4, <2>6, <3>1, <3>2, <3>4, Zenon
  <2>8. call'.name = "recvfrom" /\ call'.iov = iov /\ call'.result = rc /\ rc # Failure
    BY <1>9, <2>1 DEF Returns, Failure
  <2>9. Suffix(input', Incoming)
    BY <1>1, <1>9, <2>1, GuestIOAssumption, SuffixOfSuffix
  <2>10. \A a \in Address : received[a] # mem[a] => a \in ToSet(Flat(iov)) \cap Writable
    <3>1. \A a \in to .. to + rc - 1 : a \in data.base .. data.base + data.length - 1
      BY <1>2, <2>1, <2>5
    <3> QED BY <1>6, <2>7, <3>1
  <2>11. CASE Faults(data.base, rc, Writable)
    <3>1. mem' = received /\ ended' = TRUE
      BY <1>9, <2>11
    <3>2. IOTypeOK'
      BY <1>1, <1>9, <2>7, <2>9, <3>1 DEF IOTypeOK, Suffix
    <3>3. StaysInBuffers
      BY <2>8, <2>10, <3>1 DEF StaysInBuffers
    <3> QED BY <3>1, <3>2, <3>3 DEF Good
  <2>12. CASE ~Faults(data.base, rc, Writable)
    <3>1. copy_sockaddr_to_guest(received, base, length_address, size, length)
      BY <1>9, <2>12
    <3>2. /\ mem' \in [Address -> Cell]
          /\ ended' \in BOOLEAN
          /\ \A a \in Address : mem'[a] # received[a]
               => a \in Writable /\ (a \in base .. base + size - 1 \/ a = length_address)
      BY <2>2, <2>7, <3>1, CopyingAddress
    <3>3. IOTypeOK'
      BY <1>1, <1>9, <2>9, <3>2 DEF IOTypeOK, Suffix
    <3>4. \A a \in Address : mem'[a] # mem[a] => a \in ToSet(Flat(iov)) \cap Writable
      <4> SUFFICES ASSUME NEW a \in Address, mem'[a] # mem[a] PROVE a \in ToSet(Flat(iov)) \cap Writable
        OBVIOUS
      <4>1. CASE received[a] # mem[a]
        BY <2>10, <4>1
      <4>2. CASE received[a] = mem[a]
        BY <1>6, <3>2, <4>2
      <4> QED BY <4>1, <4>2
    <3>5. StaysInBuffers
      BY <2>8, <3>4 DEF StaysInBuffers
    <3>6. ASSUME NEW a \in Address \ ToSet(Flat(Tail(iov)))
          PROVE  Stored(mem, Flat(iov), input, rc, a, mem'[a])
      <4>1. mem'[a] = received[a]
        BY <1>6, <3>2
      <4>2. PICK cell : cell = received[a]
        OBVIOUS
      <4>3. PICK old : old = mem[a]
        OBVIOUS
      <4>4. PICK places : places = Flat(iov)
        OBVIOUS
      <4>5. a \in Nat
        BY GuestIOAssumption DEF Address
      <4>6. Stored(mem, places, input, 0, a, old)
        BY <4>3 DEF Stored
      <4>7. \A k \in 1 .. 0 : places[k] = places[k]
        OBVIOUS
      <4>8. \A k \in 0 + 1 .. 0 + rc : places[k] = to + (k - 0) - 1
        <5>1. \A k \in 0 + 1 .. 0 + rc : k \in 1 .. data.length /\ to + (k - 0) - 1 = to + k - 1
          BY <1>2, <2>1
        <5> QED BY <1>6, <2>5, <4>4, <5>1
      <4>9. a \in to .. to + rc - 1 => cell = input[0 + (a - to + 1)]
        <5>1. a \in to .. to + rc - 1 => a - to + 1 \in 1 .. rc /\ 0 + (a - to + 1) = a - to + 1
          BY <2>1, <4>5
        <5>2. a \in to .. to + rc - 1 => received[a] = bytes[a - to + 1]
          BY <2>5, <2>7, <2>12
        <5> QED BY <2>4, <4>2, <5>1, <5>2
      <4>10. a \notin to .. to + rc - 1 => cell = old
        BY <2>7, <4>2, <4>3
      <4>11. PICK zero \in Nat : zero = 0
        OBVIOUS
      <4>12. Stored(mem, places, input, zero + rc, a, cell)
        <5>1. /\ Stored(mem, places, input, zero, a, old)
              /\ \A k \in 1 .. zero : places[k] = places[k]
              /\ \A k \in zero + 1 .. zero + rc : places[k] = to + (k - zero) - 1
              /\ a \in to .. to + rc - 1 => cell = input[zero + (a - to + 1)]
          BY <4>6, <4>7, <4>8, <4>9, <4>11
        <5> QED BY <2>1, <4>5, <4>10, <5>1, StoredMore
      <4>13. zero + rc = rc
        BY <2>1, <4>11
      <4> QED BY <4>1, <4>2, <4>4, <4>12, <4>13
    <3>7. MovesItsResult
      BY <1>9, <2>8, <3>6 DEF MovesItsResult
    <3> QED BY <3>3, <3>5, <3>7 DEF Good
  <2> QED BY <2>11, <2>12
<1> QED BY <1>3, <1>4, <1>7, <1>8, <1>9 DEF recvfrom, Buffers

LEMMA OneBufferList ==
  ASSUME NEW base \in Address, NEW n \in Nat, NEW iov, iov = <<[base |-> base, length |-> n]>>
  PROVE  /\ iov \in Seq(Buffer) /\ Total(iov) = n
         /\ \A a \in base .. base + n - 1 : a \in ToSet(Flat(iov))
<1>1. PICK v \in Buffer : v = [base |-> base, length |-> n]
  BY DEF Buffer
<1>2. iov \in Seq(Buffer) /\ Len(iov) = 1 /\ iov[1] = v
  BY <1>1
<1>3. v.base = base /\ v.length = n
  BY <1>1
<1>4. AreOffsets(Offsets(iov), iov)
  BY <1>2, OffsetsValue
<1>5. Offsets(iov)[0] = 0 /\ Offsets(iov)[1] = Offsets(iov)[1 - 1] + iov[1].length
  BY <1>2, <1>4 DEF AreOffsets
<1>6. Total(iov) = n
  BY <1>2, <1>3, <1>5 DEF Total
<1>7. 1 \in 1 .. Len(iov)
  BY <1>2
<1>8. \A a \in v.base .. v.base + v.length - 1 : a \in ToSet(Flat(iov))
  BY <1>2, <1>7, FlatCovers
<1> QED BY <1>2, <1>3, <1>6, <1>8

LEMMA RefusingStructure ==
  ASSUME IOTypeOK, NEW iov, Fails("structure", iov) \/ EndsReading(iov)
  PROVE  Good
<1>1. Returns("structure", iov, Failure) /\ UNCHANGED <<mem, input, sent>> /\ ended' \in BOOLEAN
  BY TypeParts DEF Fails, EndsReading
<1>2. PICK name \in Names : name = "structure"
  BY DEF Names
<1> QED BY <1>1, <1>2, Refusing

\* The calls with one buffer.
LEMMA OneBufferCalls ==
  ASSUME IOTypeOK, NEW base \in Address, NEW n \in Nat,
         NEW iov, iov = <<[base |-> base, length |-> n]>>, NEW m \in 0 .. n, NEW rc \in Nat,
         WriteBack(iov, Fresh(m), rc)
  PROVE  Good
<1>1. iov \in Seq(Buffer) /\ Total(iov) = n
  BY OneBufferList
<1>2. m \in Nat /\ m <= Total(iov)
  BY <1>1
<1> QED BY <1>1, <1>2, WritingBack

LEMMA Structures ==
  ASSUME IOTypeOK, NEW base \in Address, NEW n \in Lengths,
         getxattr(base, n) \/ poll(base, n) \/ ioctl(base, n)
  PROVE  Good
<1>1. n \in Nat
  BY GuestIOAssumption
<1>2. PICK iov : iov = <<[base |-> base, length |-> n]>>
  OBVIOUS
<1>3. ASSUME getdents64(base, n) PROVE Good
  <2>1. CASE Fails("structure", iov)
    BY <2>1, RefusingStructure
  <2>2. ASSUME NEW rc \in 0 .. n, WriteBack(iov, Fresh(rc), rc) PROVE Good
    <3>1. rc \in Nat
      BY <1>1
    <3> QED BY <1>1, <1>2, <2>2, <3>1, OneBufferCalls
  <2> QED BY <1>2, <1>3, <2>1, <2>2 DEF getdents64
<1>4. ASSUME NEW rc \in Lengths, Returns("structure", <<>>, rc), UNCHANGED <<mem, input, sent, ended>>
      PROVE  Good
  <2>1. IOTypeOK' /\ StaysInBuffers
    BY <1>4 DEF IOTypeOK, StaysInBuffers
  <2>2. call'.name = "structure"
    BY <1>4 DEF Returns
  <2>3. MovesItsResult
    BY <1>4, <2>2 DEF MovesItsResult
  <2> QED BY <2>1, <2>3 DEF Good
<1>5. ASSUME getxattr(base, n) PROVE Good
  BY <1>3, <1>4, <1>5 DEF getxattr
<1>6. ASSUME poll(base, n) PROVE Good
  <2>1. ASSUME WriteBack(iov, Fresh(n), 0) PROVE Good
    <3>1. PICK zero \in Nat : zero = 0
      OBVIOUS
    <3>2. n \in 0 .. n
      BY <1>1
    <3> QED BY <1>1, <1>2, <2>1, <3>1, <3>2, OneBufferCalls
  <2>2. ASSUME Fails("structure", iov) \/ EndsReading(iov) PROVE Good
    BY <2>2, RefusingStructure
  <2> QED BY <1>2, <1>6, <2>1, <2>2 DEF poll
<1>8. ASSUME ioctl(base, n) PROVE Good
  <2>1. CASE Fails("structure", iov)
    BY <2>1, RefusingStructure
  <2>2. ASSUME Returns("structure", iov, 0),
               mem' = IF base = NULL THEN mem ELSE copy_to_guest(mem, base, Fresh(n)),
               UNCHANGED <<input, sent, ended>>
        PROVE  Good
    <3>1. mem \in [Address -> Cell] /\ base \in Nat
      BY TypeParts, GuestIOAssumption DEF Address
    <3>2. PICK bytes \in Seq(Cell) : bytes = Fresh(n) /\ Len(bytes) = n
      BY <1>1, FreshCells
    <3>3. PICK c : c = copy_to_guest(mem, base, bytes)
      OBVIOUS
    <3>4. /\ c \in [Address -> Cell]
          /\ \A a \in Address : c[a] # mem[a] => a \in Writable /\ a \in base .. base + n - 1
      BY <3>1, <3>2, <3>3, Copying, SMTT(40)
    <3>5. mem' = mem \/ mem' = c
      BY <2>2, <3>2, <3>3
    <3>6. mem' \in [Address -> Cell]
      BY <3>1, <3>4, <3>5
    <3>7. call'.name = "structure" /\ call'.iov = iov /\ call'.result # Failure
      BY <2>2 DEF Returns, Failure
    <3>8. \A a \in base .. base + n - 1 : a \in ToSet(Flat(iov))
      BY <1>1, <1>2, OneBufferList
    <3>9. StaysInBuffers
      BY <3>4, <3>5, <3>7, <3>8 DEF StaysInBuffers
    <3>10. IOTypeOK'
      BY <2>2, <3>6 DEF IOTypeOK
    <3>11. MovesItsResult
      BY <2>2, <3>7 DEF MovesItsResult
    <3> QED BY <3>9, <3>10, <3>11 DEF Good
  <2> QED BY <1>2, <1>8, <2>1, <2>2 DEF ioctl
<1> QED BY <1>5, <1>6, <1>8

\* The calls with arguments and results that may be left out.
LEMMA Transacting ==
  ASSUME IOTypeOK, NEW arguments, NEW results \in Seq(Address), Transact(arguments, results)
  PROVE  Good
<1>1. PICK iov : iov = Asked(results)
  OBVIOUS
<1>2. iov \in Seq(Buffer)
  <2>1. \A i \in 1 .. Len(results) :
           [base |-> results[i], length |-> IF results[i] = NULL THEN 0 ELSE 1] \in Buffer
    BY DEF Buffer
  <2>2. iov = [i \in 1 .. Len(results) |->
                 [base |-> results[i], length |-> IF results[i] = NULL THEN 0 ELSE 1]]
    BY <1>1 DEF Asked
  <2>3. iov \in [1 .. Len(results) -> Buffer]
    BY <2>1, <2>2
  <2> QED BY <2>3
<1>3. PICK n \in Nat : n = Total(iov)
  BY <1>2, TotalIsNatural
<1>4. PICK zero \in Nat : zero = 0
  OBVIOUS
<1>5. ASSUME WriteBack(iov, Fresh(n), zero) PROVE Good
  <2>1. n <= Total(iov)
    BY <1>3
  <2> QED BY <1>2, <1>5, <2>1, WritingBack
<1>6. ASSUME Fails("structure", iov) \/ EndsReading(iov) PROVE Good
  BY <1>6, RefusingStructure
<1> QED BY <1>1, <1>3, <1>4, <1>5, <1>6 DEF Transact

LEMMA IOInitHolds == IOInit => IOTypeOK
<1> SUFFICES ASSUME IOInit PROVE IOTypeOK
  OBVIOUS
<1>1. mem \in [Address -> Cell]
  BY DEF IOInit, Cell
<1>2. Incoming \in Seq(Cell)
  BY GuestIOAssumption
<1>3. Incoming = SubSeq(Incoming, 0 + 1, Len(Incoming)) /\ 0 \in 0 .. Len(Incoming)
  BY <1>2
<1>4. \E n \in 0 .. Len(Incoming) : input = SubSeq(Incoming, n + 1, Len(Incoming))
  BY <1>3 DEF IOInit
<1>5. sent \in Seq(Cell) /\ ended \in BOOLEAN
  <2>1. <<>> \in Seq(Cell)
    OBVIOUS
  <2>2. sent = <<>> /\ ended = FALSE
    BY DEF IOInit
  <2> QED BY <2>1, <2>2
<1> QED BY <1>1, <1>4, <1>5 DEF IOTypeOK

LEMMA IOStep ==
  ASSUME IOTypeOK, IONext
  PROVE  Good
<1>1. ASSUME NEW n \in 0 .. MaxIov, NEW iov \in [1 .. n -> Vector], readv(iov) \/ writev(iov)
      PROVE  Good
  <2>1. n \in Nat /\ \A i \in 1 .. n : iov[i] \in Buffer
    BY VectorIsBuffer, GuestIOAssumption
  <2>2. iov \in [1 .. n -> Buffer]
    BY <2>1
  <2>3. iov \in Seq(Buffer)
    BY <2>1, <2>2
  <2> QED BY <1>1, <2>3, Receiving, Sending
<1>2. ASSUME NEW data \in Vector, NEW base \in Address, NEW length_address \in Address,
             recvfrom(data, base, length_address)
      PROVE  Good
  BY <1>2, ReceivingFrom
<1>3. ASSUME NEW base \in Address, stat(base)
      PROVE  Good
  <2>1. PICK one \in Nat : one = 1
    OBVIOUS
  <2>2. PICK iov : iov = <<[base |-> base, length |-> one]>>
    OBVIOUS
  <2>3. ASSUME WriteBack(iov, Fresh(one), 0) PROVE Good
    <3>1. PICK zero \in Nat : zero = 0
      OBVIOUS
    <3>2. one \in 0 .. one
      OBVIOUS
    <3> QED BY <2>2, <2>3, <3>1, <3>2, OneBufferCalls
  <2>4. ASSUME Fails("structure", iov) PROVE Good
    BY <2>4, RefusingStructure
  <2> QED BY <1>3, <2>1, <2>2, <2>3, <2>4 DEF stat
<1>4. ASSUME NEW base \in Address, NEW n \in Lengths, getxattr(base, n) \/ poll(base, n) \/ ioctl(base, n)
      PROVE  Good
  BY <1>4, Structures
<1>5. ASSUME NEW base \in Address, gettimeofday(base) \/ epoll_ctl(base)
      PROVE  Good
  <2>1. <<base>> \in Seq(Address) /\ <<>> \in Seq(Address)
    OBVIOUS
  <2>2. ASSUME gettimeofday(base) PROVE Good
    <3>1. PICK arguments : arguments = <<>>
      OBVIOUS
    <3>2. PICK results \in Seq(Address) : results = <<base>>
      BY <2>1
    <3> QED BY <2>2, <3>1, <3>2, Transacting DEF gettimeofday
  <2>3. ASSUME epoll_ctl(base) PROVE Good
    <3>1. PICK arguments : arguments = <<base>>
      OBVIOUS
    <3>2. PICK results \in Seq(Address) : results = <<>>
      BY <2>1
    <3> QED BY <2>3, <3>1, <3>2, Transacting DEF epoll_ctl
  <2> QED BY <1>5, <2>2, <2>3
<1>6. ASSUME NEW base \in Address, NEW other \in Address,
             prlimit64(base, other) \/ nanosleep(base, other) \/ select(<<base, other>>)
      PROVE  Good
  <2>1. PICK arguments : arguments = <<base>>
    OBVIOUS
  <2>0. <<other>> \in Seq(Address) /\ <<base, other>> \in Seq(Address)
    OBVIOUS
  <2>2. PICK results \in Seq(Address) : results = <<other>>
    BY <2>0
  <2>3. PICK sets \in Seq(Address) : sets = <<base, other>>
    BY <2>0
  <2>4. Transact(arguments, results) \/ Transact(sets, sets)
    BY <1>6, <2>1, <2>2, <2>3 DEF prlimit64, nanosleep, select
  <2> QED BY <2>4, Transacting
<1> QED BY <1>1, <1>2, <1>3, <1>4, <1>5, <1>6 DEF IONext

LEMMA IOInvariance == IOSpec => []IOTypeOK
<1>1. ASSUME IOTypeOK, [IONext]_io_vars PROVE IOTypeOK'
  <2>1. CASE IONext
    BY <1>1, <2>1, IOStep DEF Good
  <2>2. CASE UNCHANGED io_vars
    BY <1>1, <2>2 DEF io_vars, IOTypeOK
  <2> QED BY <1>1, <2>1, <2>2
<1> QED BY <1>1, IOInitHolds, PTL DEF IOSpec

\* No copy of any call leaves the guest's memory, and what the host delivers is taken in
\* order and once, for every memory, every protection of it and all buffers.
THEOREM GuestMemoryTypeCorrect == IOSpec => []IOTypeOK
BY IOInvariance

\* readv (LinuxSyscalls.cpp:709), writev and recvfrom move exactly as many bytes as they
\* return, in order, through any number of buffers that may be empty or overlap, whatever
\* the host returns.
THEOREM Transferring == IOSpec => TransfersAreExact
<1>1. ASSUME IOTypeOK, [IONext]_io_vars PROVE [ended' \/ MovesItsResult]_io_vars
  BY <1>1, IOStep DEF Good
<1> QED BY <1>1, IOInvariance, PTL DEF IOSpec, TransfersAreExact

\* No call changes a byte outside of the buffers that it was given, or one that the guest
\* may not write (LinuxSyscalls.cpp:638), and a call that fails changes none.
THEOREM WritingInBuffers == IOSpec => WritesStayInBuffers
<1>1. ASSUME IOTypeOK, [IONext]_io_vars PROVE [StaysInBuffers]_io_vars
  BY <1>1, IOStep DEF Good
<1> QED BY <1>1, IOInvariance, PTL DEF IOSpec, WritesStayInBuffers

-----------------------------------------------------------------------------
(* Pages, addresses and file bytes.                                        *)

LEMMA PageAlignDown ==
  ASSUME NEW x \in Nat
  PROVE  /\ page_align_down(x) \in Nat /\ page_align_down(x) <= x
         /\ x - page_align_down(x) \in 0 .. PageSize - 1
         /\ page_align_down(x) % PageSize = 0
<1>1. PageSize \in Int /\ PageSize > 0
  BY ImagesAssumption
<1>2. PICK q \in Int : q = x \div PageSize
  BY <1>1
<1>3. PICK r \in 0 .. PageSize - 1 : r = x % PageSize
  BY <1>1
<1>4. x = PageSize * q + r
  BY <1>1, <1>2, <1>3
<1>5. PICK e \in Int : e = q * PageSize
  BY <1>1
<1>6. PageSize * q = q * PageSize
  BY <1>1
<1>7. x - r = e
  BY <1>3, <1>4, <1>5, <1>6
<1>8. e % PageSize = 0
  BY <1>1, <1>5
<1>9. page_align_down(x) = e
  BY <1>3, <1>7 DEF page_align_down
<1>10. e >= 0
  <2>1. q >= 0 \/ q <= -1
    OBVIOUS
  <2>2. q <= -1 => e <= (-1) * PageSize
    BY <1>1, <1>5
  <2>3. q >= 0 => e >= 0 * PageSize
    BY <1>1, <1>5
  <2> QED BY <1>1, <1>3, <1>7, <2>1, <2>2, <2>3
<1> QED BY <1>1, <1>3, <1>7, <1>8, <1>9, <1>10

LEMMA PageAlignUp ==
  ASSUME NEW x \in Nat
  PROVE  /\ page_align_up(x) \in Nat /\ page_align_up(x) >= x
         /\ page_align_up(x) % PageSize = 0
<1>1. PageSize \in Nat /\ PageSize > 0
  BY ImagesAssumption
<1>2. PICK y \in Nat : y = x + PageSize - 1
  BY <1>1
<1>3. /\ page_align_down(y) \in Nat /\ y - page_align_down(y) \in 0 .. PageSize - 1
      /\ page_align_down(y) % PageSize = 0
  BY PageAlignDown
<1>4. page_align_up(x) = page_align_down(y)
  BY <1>2 DEF page_align_up
<1> QED BY <1>1, <1>2, <1>3, <1>4

LEMMA Wrapped ==
  ASSUME NEW x \in Int
  PROVE  u64(x) \in 0 .. Space - 1 /\ (x \in 0 .. Space - 1 => u64(x) = x)
  BY ImagesAssumption DEF u64

\* A mapped byte is not unmapped memory.
LEMMA MappedBytes ==
  ASSUME NEW p, NEW o
  PROVE  <<p, o>> # Nothing /\ Zeros # Nothing
<1>1. Len(<<p, o>>) = 2 /\ Len(<<"zero">>) = 1 /\ Len(<<>>) = 0
  OBVIOUS
<1> QED BY <1>1 DEF Nothing, Zeros

\* The first and the last of finitely many numbers.
LEMMA LeastOfList ==
  ASSUME NEW n \in Nat, NEW f \in [1 .. n -> Nat], NEW I \in SUBSET (1 .. n), I # {}
  PROVE  /\ \E i \in I : \A j \in I : f[i] <= f[j]
         /\ \E i \in I : \A j \in I : f[i] >= f[j]
<1> DEFINE Least(k) == I \cap (1 .. k) # {} => \E i \in I \cap (1 .. k) : \A j \in I \cap (1 .. k) : f[i] <= f[j]
           Most(k) == I \cap (1 .. k) # {} => \E i \in I \cap (1 .. k) : \A j \in I \cap (1 .. k) : f[i] >= f[j]
           P == {k \in 0 .. n : Least(k) /\ Most(k)}
<1>1. 0 \in P
  OBVIOUS
<1>2. ASSUME NEW k \in 1 .. n, k - 1 \in P PROVE k \in P
  <2>1. \A j \in I \cap (1 .. k) : j \in I \cap (1 .. k - 1) \/ j = k
    OBVIOUS
  <2>2. \A j \in I \cap (1 .. k - 1) : j \in I \cap (1 .. k)
    OBVIOUS
  <2>3. k \in 0 .. n /\ k \in 1 .. k /\ f[k] \in Nat /\ \A j \in 1 .. n : f[j] \in Nat
    OBVIOUS
  <2>4. Least(k - 1) /\ Most(k - 1)
    BY <1>2
  <2>5. CASE k \notin I
    <3>1. I \cap (1 .. k) = I \cap (1 .. k - 1)
      BY <2>1, <2>2, <2>5
    <3> QED BY <2>3, <2>4, <3>1
  <2>6. CASE k \in I
    <3>0. k \in I \cap (1 .. k)
      BY <2>3, <2>6
    <3>1. CASE I \cap (1 .. k - 1) = {}
      <4>1. \A j \in I \cap (1 .. k) : j = k
        BY <2>1, <3>1
      <4>2. Least(k) /\ Most(k)
        BY <2>3, <3>0, <4>1
      <4> HIDE DEF Least, Most
      <4> QED BY <2>3, <4>2
    <3>2. CASE I \cap (1 .. k - 1) # {}
      <4>1. PICK a \in I \cap (1 .. k - 1) : \A j \in I \cap (1 .. k - 1) : f[a] <= f[j]
        BY <2>4, <3>2
      <4>2. PICK b \in I \cap (1 .. k - 1) : \A j \in I \cap (1 .. k - 1) : f[b] >= f[j]
        BY <2>4, <3>2
      <4>3. f[a] \in Nat /\ f[b] \in Nat /\ a \in I \cap (1 .. k) /\ b \in I \cap (1 .. k)
        BY <2>2, <2>3
      <4>4. Least(k)
        <5>1. CASE f[a] <= f[k]
          <6>1. \A j \in I \cap (1 .. k) : f[a] <= f[j]
            BY <2>1, <4>1, <5>1
          <6> QED BY <4>3, <6>1
        <5>2. CASE f[k] < f[a]
          <6>1. \A j \in I \cap (1 .. k) : f[k] <= f[j]
            BY <2>1, <2>3, <4>1, <4>3, <5>2
          <6> QED BY <3>0, <6>1
        <5>3. f[a] <= f[k] \/ f[k] < f[a]
          BY <2>3, <4>3
        <5> HIDE DEF Least
        <5> QED BY <5>1, <5>2, <5>3
      <4>5. Most(k)
        <5>1. CASE f[b] >= f[k]
          <6>1. \A j \in I \cap (1 .. k) : f[b] >= f[j]
            BY <2>1, <4>2, <5>1
          <6> QED BY <4>3, <6>1
        <5>2. CASE f[k] > f[b]
          <6>1. \A j \in I \cap (1 .. k) : f[k] >= f[j]
            BY <2>1, <2>3, <4>2, <4>3, <5>2
          <6> QED BY <3>0, <6>1
        <5>3. f[b] >= f[k] \/ f[k] > f[b]
          BY <2>3, <4>3
        <5> HIDE DEF Most
        <5> QED BY <5>1, <5>2, <5>3
      <4> HIDE DEF Least, Most
      <4> QED BY <2>3, <4>4, <4>5
    <3> QED BY <3>1, <3>2
  <2> QED BY <2>5, <2>6
<1>3. \A k \in 1 .. n : k - 1 \in P => k \in P
  BY <1>2
<1> HIDE DEF P
<1>4. \A k \in 0 .. n : k \in P
  BY <1>1, <1>3, Induction
<1>5. n \in P
  BY <1>4
<1>6. I \cap (1 .. n) = I
  OBVIOUS
<1> QED BY <1>5, <1>6 DEF P

-----------------------------------------------------------------------------
(* The program headers of a file.                                          *)

LEMMA HeaderParts ==
  ASSUME NEW path \in Path, NEW i \in 1 .. Len(Headers(path))
  PROVE  Headers(path)[i] \in Header
<1>1. Headers(path) \in Seq(Header)
  BY FilesAssumption DEF Headers
<1> QED BY <1>1

LEMMA HeaderFields ==
  ASSUME NEW h \in Header
  PROVE  h.vaddr \in Nat /\ h.offset \in Nat /\ h.filesz \in Nat /\ h.memsz \in Nat
  BY DEF Header

LEMMA FileParts ==
  ASSUME NEW path \in Path
  PROVE  /\ Headers(path) \in Seq(Header) /\ Len(Headers(path)) \in Nat
         /\ File[path].phoff \in Nat /\ File[path].entry \in Nat
         /\ File[path].size \in 0 .. Space /\ File[path].elf \in BOOLEAN
         /\ File[path].interpreter \in Path \cup {NoPath}
         /\ File[path].headers = Headers(path)
<1>1. Headers(path) \in Seq(Header)
  BY FilesAssumption DEF Headers
<1> QED BY <1>1, FilesAssumption DEF Headers

LEMMA LoadableIndex ==
  ASSUME NEW path \in Path, NEW h
  PROVE  h \in Loadable(path)
           <=> \E i \in 1 .. Len(Headers(path)) : Headers(path)[i] = h /\ h.type = "load"
<1>1. DOMAIN Headers(path) = 1 .. Len(Headers(path))
  BY FileParts
<1> QED BY <1>1 DEF Loadable, ToSet

LEMMA VaddrBounds ==
  ASSUME NEW path \in Path
  PROVE  MinVaddr(path) \in Nat /\ MaxVaddr(path) \in Nat
<1> DEFINE n == Len(Headers(path))
           I == {i \in 1 .. n : Headers(path)[i].type = "load"}
           first == [i \in 1 .. n |-> page_align_down(Headers(path)[i].vaddr)]
           last == [i \in 1 .. n |-> page_align_up(Headers(path)[i].vaddr + Headers(path)[i].memsz)]
           starts == {page_align_down(h.vaddr) : h \in Loadable(path)}
           ends == {page_align_up(h.vaddr + h.memsz) : h \in Loadable(path)}
<1>1. n \in Nat /\ I \in SUBSET (1 .. n)
  BY FileParts
<1>2. first \in [1 .. n -> Nat]
  BY HeaderParts, HeaderFields, PageAlignDown
<1>3. last \in [1 .. n -> Nat]
  <2>1. \A i \in 1 .. n : Headers(path)[i].vaddr + Headers(path)[i].memsz \in Nat
    BY HeaderParts, HeaderFields
  <2> QED BY <2>1, PageAlignUp
<1>4. /\ \A x \in starts : \E i \in I : first[i] = x
      /\ \A i \in I : first[i] \in starts
      /\ \A x \in ends : \E i \in I : last[i] = x
      /\ \A i \in I : last[i] \in ends
  BY LoadableIndex
<1>5. /\ MinVaddr(path) = IF starts = {} THEN 0 ELSE CHOOSE v \in starts : \A w \in starts : v <= w
      /\ MaxVaddr(path) = IF ends = {} THEN 0 ELSE CHOOSE v \in ends : \A w \in ends : v >= w
  BY DEF MinVaddr, MaxVaddr
<1> HIDE DEF n, I, first, last, starts, ends
<1>6. MinVaddr(path) \in Nat
  <2>1. CASE starts = {}
    BY <1>5, <2>1
  <2>2. CASE starts # {}
    <3>1. I # {}
      BY <1>4, <2>2
    <3>2. PICK i \in I : \A j \in I : first[i] <= first[j]
      BY <1>1, <1>2, <3>1, LeastOfList
    <3>3. \E v \in starts : \A w \in starts : v <= w
      BY <1>4, <3>2
    <3>4. MinVaddr(path) \in starts
      BY <1>5, <2>2, <3>3
    <3> QED BY <1>1, <1>2, <1>4, <3>4
  <2> QED BY <2>1, <2>2
<1>7. MaxVaddr(path) \in Nat
  <2>1. CASE ends = {}
    BY <1>5, <2>1
  <2>2. CASE ends # {}
    <3>1. I # {}
      BY <1>4, <2>2
    <3>2. PICK i \in I : \A j \in I : last[i] >= last[j]
      BY <1>1, <1>3, <3>1, LeastOfList
    <3>3. \E v \in ends : \A w \in ends : v >= w
      BY <1>4, <3>2
    <3>4. MaxVaddr(path) \in ends
      BY <1>5, <2>2, <3>3
    <3> QED BY <1>1, <1>3, <1>4, <3>4
  <2> QED BY <2>1, <2>2
<1> QED BY <1>6, <1>7

-----------------------------------------------------------------------------
(* One segment.                                                            *)

Memory == [0 .. Space - 1 -> Sources]

\* No mapped byte has changed.
Keeps(m1, m2) == \A a \in 0 .. Space - 1 : m1[a] # Nothing => m2[a] = m1[a]

LEMMA SegmentBounds ==
  ASSUME NEW h \in Header, NEW bias \in Nat
  PROVE  /\ map_start(h, bias) \in Nat /\ map_size(h, bias) \in Nat
         /\ map_offset(h, bias) \in Nat
         /\ map_start(h, bias) + map_offset(h, bias) = bias + h.vaddr
         /\ map_offset(h, bias) + h.memsz <= map_size(h, bias)
<1>1. h.vaddr \in Nat /\ h.memsz \in Nat
  BY HeaderFields
<1>2. PICK x \in Nat : x = bias + h.vaddr
  BY <1>1
<1>3. page_align_down(x) \in Nat /\ page_align_down(x) <= x
  BY PageAlignDown
<1>4. map_start(h, bias) = page_align_down(x) /\ map_offset(h, bias) = x - page_align_down(x)
  BY <1>2 DEF map_start, map_offset
<1>5. PICK y \in Nat : y = map_offset(h, bias) + h.memsz
  BY <1>1, <1>3, <1>4
<1>6. page_align_up(y) \in Nat /\ page_align_up(y) >= y
  BY PageAlignUp
<1>7. map_size(h, bias) = page_align_up(y)
  BY <1>5 DEF map_size
<1> QED BY <1>1, <1>2, <1>3, <1>4, <1>5, <1>6, <1>7

\* A segment that map_bytes accepts goes where nothing was.
LEMMA Placing ==
  ASSUME NEW path \in Path, NEW h \in Header, NEW bias \in Nat, NEW m \in Memory,
         ~MapFails(path, h, bias, m), NEW m2, m2 = Segment(path, h, bias, m)
  PROVE  /\ m2 \in Memory /\ Keeps(m, m2)
         /\ SegmentPlaced(m2, path, bias, h)
         /\ bias + h.vaddr + h.memsz < Space
         /\ h.filesz <= h.memsz
<1> DEFINE s == map_start(h, bias)
           z == map_size(h, bias)
           d == map_offset(h, bias)
<1>1. /\ s \in Nat /\ z \in Nat /\ d \in Nat /\ s + d = bias + h.vaddr /\ d + h.memsz <= z
      /\ h.vaddr \in Nat /\ h.offset \in Nat /\ h.filesz \in Nat /\ h.memsz \in Nat
      /\ Space \in Nat /\ Space > 0 /\ File[path].size \in 0 .. Space
  <2>1. s \in Nat /\ z \in Nat /\ d \in Nat /\ s + d = bias + h.vaddr /\ d + h.memsz <= z
    BY SegmentBounds, Zenon
  <2>2. h.vaddr \in Nat /\ h.offset \in Nat /\ h.filesz \in Nat /\ h.memsz \in Nat
    BY HeaderFields, Zenon
  <2>3. File[path].size \in 0 .. Space
    BY FileParts, Zenon
  <2>4. Space \in Nat /\ Space > 0
    BY ImagesAssumption
  <2> QED BY <2>1, <2>2, <2>3, <2>4, Zenon
<1>2. /\ h.filesz <= h.memsz /\ h.offset + h.filesz <= File[path].size /\ s + z < Space
      /\ \A a \in Range64(s, z) : m[a] = Nothing
  BY <1>1 DEF MapFails
<1>3. m2 = [a \in 0 .. Space - 1 |->
              IF a \notin s .. s + z - 1 THEN m[a]
              ELSE IF a - s - d \in 0 .. h.filesz - 1 THEN <<path, h.offset + (a - s - d)>>
              ELSE Zeros]
  BY DEF Segment
<1> HIDE DEF s, z, d
<1>4. \A a \in s .. s + z - 1 : m[a] = Nothing
  <2> SUFFICES ASSUME NEW a \in s .. s + z - 1 PROVE m[a] = Nothing
    OBVIOUS
  <2>1. a - s \in 0 .. z - 1 /\ s + (a - s) = a /\ a \in 0 .. Space - 1
    BY <1>1, <1>2
  <2>2. u64(s + (a - s)) = a
    BY <2>1, Wrapped
  <2>3. a \in Range64(s, z)
    BY <2>1, <2>2 DEF Range64
  <2> QED BY <1>2, <2>3
<1>5. m2 \in Memory
  <2> SUFFICES ASSUME NEW a \in 0 .. Space - 1
               PROVE  (IF a \notin s .. s + z - 1 THEN m[a]
                       ELSE IF a - s - d \in 0 .. h.filesz - 1 THEN <<path, h.offset + (a - s - d)>>
                       ELSE Zeros) \in Sources
    BY <1>3 DEF Memory
  <2>1. m[a] \in Sources
    BY DEF Memory
  <2>2. ASSUME a - s - d \in 0 .. h.filesz - 1 PROVE <<path, h.offset + (a - s - d)>> \in Sources
    <3>1. h.offset + (a - s - d) \in 0 .. Space - 1
      BY <1>1, <1>2, <2>2
    <3> QED BY <3>1 DEF Sources
  <2>3. Zeros \in Sources
    BY DEF Sources
  <2> QED BY <2>1, <2>2, <2>3
<1>6. Keeps(m, m2)
  BY <1>3, <1>4 DEF Keeps
<1>7. bias + h.vaddr + h.memsz < Space
  BY <1>1, <1>2
<1>8. SegmentPlaced(m2, path, bias, h)
  <2> SUFFICES ASSUME NEW k \in 0 .. Space - 1, k < h.memsz
               PROVE  m2[u64(bias + h.vaddr + k)] = IF k < h.filesz THEN <<path, h.offset + k>> ELSE Zeros
    BY DEF SegmentPlaced
  <2>1. PICK a \in Int : a = bias + h.vaddr + k
    BY <1>1
  <2>2. a \in s .. s + z - 1 /\ a \in 0 .. Space - 1 /\ a - s - d = k
    BY <1>1, <1>2, <2>1
  <2>3. u64(bias + h.vaddr + k) = a
    BY <2>1, <2>2, Wrapped
  <2>4. k < h.filesz <=> k \in 0 .. h.filesz - 1
    BY <1>1
  <2> QED BY <1>3, <2>2, <2>3, <2>4
<1> QED BY <1>2, <1>5, <1>6, <1>7, <1>8

-----------------------------------------------------------------------------
(* One object: the headers that are placed one after another.              *)

Object ==
  [failed : BOOLEAN, space : Memory, load_base : Nat, entry : 0 .. Space - 1,
   phdr : 0 .. Space - 1, brk_start : Nat, interpreter : Path \cup {NoPath}]

\* What an object is apart from what its headers change.
Same(o, o2) == o2.load_base = o.load_base /\ o2.entry = o.entry

LEMMA ObjectParts ==
  ASSUME NEW o \in Object
  PROVE  /\ o.failed \in BOOLEAN /\ o.space \in Memory /\ o.load_base \in Nat
         /\ o.entry \in 0 .. Space - 1 /\ o.phdr \in 0 .. Space - 1 /\ o.brk_start \in Nat
         /\ o.interpreter \in Path \cup {NoPath}
  BY DEF Object

LEMMA SetFailed ==
  ASSUME NEW o \in Object, NEW x \in BOOLEAN, NEW o2, o2 = [o EXCEPT !.failed = x]
  PROVE  /\ o2 \in Object /\ Same(o, o2) /\ o2.failed = x /\ o2.space = o.space
         /\ o2.phdr = o.phdr /\ o2.brk_start = o.brk_start /\ o2.interpreter = o.interpreter
  BY DEF Object, Same

LEMMA SetInterpreter ==
  ASSUME NEW o \in Object, NEW x \in Path \cup {NoPath}, NEW o2, o2 = [o EXCEPT !.interpreter = x]
  PROVE  /\ o2 \in Object /\ Same(o, o2) /\ o2.failed = o.failed /\ o2.space = o.space
         /\ o2.phdr = o.phdr /\ o2.brk_start = o.brk_start
  BY DEF Object, Same

LEMMA SetPhdr ==
  ASSUME NEW o \in Object, NEW x \in 0 .. Space - 1, NEW o2, o2 = [o EXCEPT !.phdr = x]
  PROVE  /\ o2 \in Object /\ Same(o, o2) /\ o2.failed = o.failed /\ o2.space = o.space
         /\ o2.phdr = x /\ o2.brk_start = o.brk_start
  BY DEF Object, Same

WithSegment(o, m, b, x) == [o EXCEPT !.space = m, !.brk_start = b, !.phdr = x]

HasSegment(o, m, b, x, o2) ==
  /\ o2 \in Object /\ Same(o, o2) /\ o2.failed = o.failed /\ o2.space = m
  /\ o2.phdr = x /\ o2.brk_start = b

LEMMA SetSegment ==
  ASSUME NEW o \in Object, NEW m \in Memory, NEW b \in Nat, NEW x \in 0 .. Space - 1, NEW o2,
         o2 = WithSegment(o, m, b, x)
  PROVE  HasSegment(o, m, b, x, o2)
  BY DEF Object, Same, WithSegment, HasSegment

LEMMA KeepsTransitive ==
  ASSUME NEW m1, NEW m2, NEW m3, Keeps(m1, m2), Keeps(m2, m3)
  PROVE  Keeps(m1, m3)
  BY DEF Keeps

\* What has been placed stays in place while no mapped byte changes.
LEMMA StillPlaced ==
  ASSUME NEW path, NEW h \in Header, NEW bias \in Nat, NEW m1, NEW m2, Keeps(m1, m2),
         SegmentPlaced(m1, path, bias, h)
  PROVE  SegmentPlaced(m2, path, bias, h)
<1> SUFFICES ASSUME NEW k \in 0 .. Space - 1, k < h.memsz
             PROVE  m2[u64(bias + h.vaddr + k)] = IF k < h.filesz THEN <<path, h.offset + k>> ELSE Zeros
  BY DEF SegmentPlaced
<1>1. PICK y \in Nat : y = bias + h.vaddr + k
  BY HeaderFields
<1>2. PICK a \in 0 .. Space - 1 : a = u64(y)
  BY Wrapped
<1>3. PICK s : s = IF k < h.filesz THEN <<path, h.offset + k>> ELSE Zeros
  OBVIOUS
<1>4. s # Nothing
  BY <1>3, MappedBytes
<1>5. m1[a] = s
  BY <1>1, <1>2, <1>3 DEF SegmentPlaced
<1>6. m2[a] = s
  BY <1>4, <1>5 DEF Keeps
<1> QED BY <1>1, <1>2, <1>3, <1>6

IsBias(path, bias) == \E base \in {ExeBase, InterpBase} : bias = Bias(path, base)

LEMMA BiasType ==
  ASSUME NEW path, NEW bias, IsBias(path, bias)
  PROVE  bias \in Nat
  BY FilesAssumption DEF IsBias, Bias

\* What the linker provides for, of the headers one by one.
LEMMA Linked ==
  ASSUME NEW path \in Path, NEW bias, IsBias(path, bias), NEW i \in 1 .. Len(Headers(path)),
         NEW h, h = Headers(path)[i], h.type = "load"
  PROVE  /\ bias + h.vaddr > 0 /\ bias + h.vaddr + h.memsz + PageSize <= Space
         /\ \A j \in 1 .. Len(Headers(path)) :
              Headers(path)[j].type = "phdr" /\ Holds(h, File[path].phoff)
                => Headers(path)[j].vaddr = h.vaddr + (File[path].phoff - h.offset)
<1>1. h \in Header
  BY HeaderParts
<1>2. h.vaddr \in Nat /\ h.memsz \in Nat /\ bias \in Nat
  BY <1>1, HeaderFields, BiasType
<1>3. PICK base \in {ExeBase, InterpBase} : bias = Bias(path, base)
  BY DEF IsBias
<1>4. /\ File[path].type # "dyn" => h.vaddr > 0
      /\ Bias(path, base) + h.vaddr + h.memsz + PageSize <= Space
      /\ \A j \in 1 .. Len(Headers(path)) :
           Headers(path)[j].type = "phdr" /\ Holds(h, File[path].phoff)
             => Headers(path)[j].vaddr = h.vaddr + (File[path].phoff - h.offset)
  BY LinkerAssumption DEF Headers
<1>5. bias + h.vaddr > 0
  BY <1>2, <1>3, <1>4, FilesAssumption DEF Bias
<1> QED BY <1>3, <1>4, <1>5

\* Where a segment puts the program headers.
HeadAt(path, bias, h) == u64(bias + h.vaddr + (File[path].phoff - h.offset))

LEMMA HeadAddress ==
  ASSUME NEW path \in Path, NEW bias, IsBias(path, bias), NEW i \in 1 .. Len(Headers(path)),
         NEW h, h = Headers(path)[i], h.type = "load", h.filesz <= h.memsz,
         Holds(h, File[path].phoff)
  PROVE  /\ HeadAt(path, bias, h) \in 1 .. Space - 1
         /\ HeadAt(path, bias, h) = bias + h.vaddr + (File[path].phoff - h.offset)
         /\ File[path].phoff - h.offset \in 0 .. Space - 1
         /\ File[path].phoff - h.offset < h.filesz
<1>1. h \in Header
  BY HeaderParts
<1>2. /\ h.vaddr \in Nat /\ h.memsz \in Nat /\ h.offset \in Nat /\ h.filesz \in Nat
      /\ bias \in Nat
  BY <1>1, HeaderFields, BiasType
<1>3. bias + h.vaddr > 0 /\ bias + h.vaddr + h.memsz + PageSize <= Space
  BY Linked, Zenon
<1>4. PICK f \in Nat : f = File[path].phoff
  BY FileParts
<1>5. PageSize \in Nat /\ PageSize > 0 /\ Space \in Nat
  BY ImagesAssumption
<1>6. h.offset <= f /\ f < h.offset + h.filesz
  BY <1>2, <1>4, SMTT(40) DEF Holds
<1>7. PICK v \in Nat, z \in Nat, o \in Nat, n \in Nat :
        v = h.vaddr /\ z = h.memsz /\ o = h.offset /\ n = h.filesz
  BY <1>2
<1>8. PICK y \in Int : y = bias + v + (f - o)
  BY <1>2
<1>9. n <= z
  BY <1>7
<1>10. bias + v > 0 /\ bias + v + z + PageSize <= Space /\ o <= f /\ f < o + n
  BY <1>3, <1>6, <1>7
<1>11. y > 0 /\ y < Space /\ f - o >= 0 /\ f - o < n /\ f - o < Space
  BY <1>2, <1>5, <1>8, <1>9, <1>10
<1>12. y \in 1 .. Space - 1 /\ y \in 0 .. Space - 1 /\ f - o \in 0 .. Space - 1 /\ f - o < n
  BY <1>5, <1>11
<1>13. u64(y) = y
  BY <1>12, Wrapped
<1> QED BY <1>4, <1>7, <1>8, <1>12, <1>13 DEF HeadAt

Points(path, bias, x) ==
  (\E h \in Loadable(path) : Holds(h, File[path].phoff))
    => \E h \in Loadable(path) : Holds(h, File[path].phoff) /\ x = HeadAt(path, bias, h)

Done(path, bias, o, h) ==
  /\ SegmentPlaced(o.space, path, bias, h)
  /\ bias + h.vaddr + h.memsz <= o.brk_start
  /\ h.filesz <= h.memsz

\* An object that has not failed, after i of its headers.
Progress(path, bias, m, o, i) ==
  /\ Keeps(m, o.space)
  /\ \A j \in 1 .. i : Headers(path)[j].type = "load" => Done(path, bias, o, Headers(path)[j])
  /\ o.phdr # 0 => Points(path, bias, o.phdr)
  /\ o.phdr = 0 => \A j \in 1 .. i : Headers(path)[j].type = "load"
                                        => ~Holds(Headers(path)[j], File[path].phoff)

\* Where the headers are, if segment h is the first to hold them.
PhdrAfter(path, bias, o, h) ==
  IF o.phdr = 0 /\ Holds(h, File[path].phoff)
  THEN bias + h.vaddr + (File[path].phoff - h.offset) ELSE o.phdr

AfterSegment(path, bias, o, h) ==
  WithSegment(o, Segment(path, h, bias, o.space), brk_after(h, bias, o.brk_start),
              PhdrAfter(path, bias, o, h))

\* What PlaceHeader may do.
PlaceCase(path, bias, o, h, o2) ==
  \/ (o.failed \/ h.type # "load") /\ o2 = o
  \/ ~o.failed /\ h.type = "interp" /\ o2 = [o EXCEPT !.interpreter = File[path].interpreter]
  \/ ~o.failed /\ h.type = "phdr" /\ o2 = [o EXCEPT !.phdr = u64(bias + h.vaddr)]
  \/ ~o.failed /\ h.type = "load" /\ MapFails(path, h, bias, o.space)
       /\ o2 = [o EXCEPT !.failed = TRUE]
  \/ /\ ~o.failed /\ h.type = "load" /\ ~MapFails(path, h, bias, o.space)
     /\ o2 = AfterSegment(path, bias, o, h)

LEMMA PlaceHeaderCases ==
  ASSUME NEW path, NEW bias, NEW o, NEW h, NEW o2, o2 = PlaceHeader(path, bias, o, h)
  PROVE  PlaceCase(path, bias, o, h, o2)
<1>0. "interp" # "phdr" /\ "interp" # "load" /\ "phdr" # "load"
  OBVIOUS
<1>1. CASE ~o.failed /\ h.type = "interp"
  BY <1>0, <1>1 DEF PlaceHeader, PlaceCase
<1>2. CASE ~o.failed /\ h.type = "phdr"
  BY <1>0, <1>2 DEF PlaceHeader, PlaceCase
<1>3. CASE ~o.failed /\ h.type = "load" /\ MapFails(path, h, bias, o.space)
  BY <1>0, <1>3 DEF PlaceHeader, PlaceCase
<1>4. CASE ~o.failed /\ h.type = "load" /\ ~MapFails(path, h, bias, o.space)
  BY <1>0, <1>4 DEF PlaceHeader, PlaceCase, AfterSegment, WithSegment, PhdrAfter
<1>5. CASE o.failed \/ h.type \notin {"interp", "phdr", "load"}
  BY <1>0, <1>5 DEF PlaceHeader, PlaceCase
<1> QED BY <1>1, <1>2, <1>3, <1>4, <1>5

LEMMA BreakAfter ==
  ASSUME NEW h \in Header, NEW bias \in Nat, NEW brk \in Nat
  PROVE  /\ brk_after(h, bias, brk) \in Nat /\ brk <= brk_after(h, bias, brk)
         /\ bias + h.vaddr + h.memsz <= brk_after(h, bias, brk)
<1>1. PICK x \in Nat : x = bias + h.vaddr + h.memsz
  BY HeaderFields
<1>2. page_align_up(x) \in Nat /\ x <= page_align_up(x)
  BY PageAlignUp
<1> QED BY <1>1, <1>2 DEF brk_after, Greater

\* What is done stays done when memory only grows and the break only rises.
LEMMA StillDone ==
  ASSUME NEW path, NEW bias \in Nat, NEW o \in Object, NEW o2 \in Object, NEW h \in Header,
         Keeps(o.space, o2.space), o.brk_start <= o2.brk_start, Done(path, bias, o, h)
  PROVE  Done(path, bias, o2, h)
<1>1. SegmentPlaced(o2.space, path, bias, h)
  BY StillPlaced, Zenon DEF Done
<1>2. PICK x \in Nat : x = bias + h.vaddr + h.memsz
  BY HeaderFields
<1>3. PICK b \in Nat, b2 \in Nat : b = o.brk_start /\ b2 = o2.brk_start
  BY ObjectParts
<1>4. x <= b /\ b <= b2
  BY <1>2, <1>3 DEF Done
<1>5. x <= b2
  BY <1>4
<1> QED BY <1>1, <1>2, <1>3, <1>5 DEF Done

LEMMA KeepsAll ==
  ASSUME NEW m
  PROVE  Keeps(m, m)
  BY DEF Keeps

\* The headers that do not change memory.
PhdrKept(path, bias, o, o2, h) == o2.phdr = o.phdr \/ (h.type = "phdr" /\ o2.phdr = u64(bias + h.vaddr))

LEMMA OtherHeader ==
  ASSUME NEW path \in Path, NEW bias, IsBias(path, bias), NEW i \in 1 .. Len(Headers(path)),
         NEW m, NEW o \in Object, NEW o2 \in Object, Progress(path, bias, m, o, i - 1),
         o2.space = o.space, o2.brk_start = o.brk_start, Headers(path)[i].type # "load",
         PhdrKept(path, bias, o, o2, Headers(path)[i])
  PROVE  Progress(path, bias, m, o2, i)
<1>1. \A j \in 1 .. i : Headers(path)[j].type = "load" => j \in 1 .. i - 1 /\ j \in 1 .. Len(Headers(path))
  <2>1. \A j \in 1 .. i : j # i => j \in 1 .. i - 1
    OBVIOUS
  <2>2. \A j \in 1 .. i : j \in 1 .. Len(Headers(path))
    BY FileParts
  <2> QED BY <2>1, <2>2, Zenon
<1>2. Keeps(m, o2.space)
  BY DEF Progress
<1>3. ASSUME NEW j \in 1 .. i, Headers(path)[j].type = "load"
      PROVE  Done(path, bias, o2, Headers(path)[j]) /\ Headers(path)[j].filesz <= Headers(path)[j].memsz
  <2>1. Done(path, bias, o, Headers(path)[j])
    BY <1>1, <1>3, Zenon DEF Progress
  <2> QED BY <2>1 DEF Done
<1>4. CASE o2.phdr = o.phdr
  BY <1>1, <1>2, <1>3, <1>4, Zenon DEF Progress
<1>5. CASE Headers(path)[i].type = "phdr" /\ o2.phdr = u64(bias + Headers(path)[i].vaddr)
  <2>1. ASSUME NEW j \in 1 .. Len(Headers(path)), Headers(path)[j].type = "load",
               Holds(Headers(path)[j], File[path].phoff)
        PROVE  o2.phdr = HeadAt(path, bias, Headers(path)[j])
    <3>1. PICK h : h = Headers(path)[j]
      OBVIOUS
    <3>2. Headers(path)[i].vaddr = h.vaddr + (File[path].phoff - h.offset)
      BY <1>5, <2>1, <3>1, Linked, Zenon
    <3>3. /\ h.vaddr \in Nat /\ h.offset \in Nat /\ bias \in Nat
          /\ File[path].phoff \in Nat
      BY <3>1, HeaderParts, HeaderFields, BiasType, FileParts
    <3>4. bias + (h.vaddr + (File[path].phoff - h.offset)) = bias + h.vaddr + (File[path].phoff - h.offset)
      BY <3>3, SMTT(40)
    <3> QED BY <1>5, <3>1, <3>2, <3>4 DEF HeadAt
  <2>2. Points(path, bias, o2.phdr)
    <3> SUFFICES ASSUME NEW h \in Loadable(path), Holds(h, File[path].phoff)
                 PROVE  o2.phdr = HeadAt(path, bias, h)
      BY DEF Points
    <3>1. PICK j \in 1 .. Len(Headers(path)) : Headers(path)[j] = h /\ h.type = "load"
      BY LoadableIndex, Zenon
    <3> QED BY <2>1, <3>1, Zenon
  <2>3. ASSUME NEW j \in 1 .. i, Headers(path)[j].type = "load",
               Holds(Headers(path)[j], File[path].phoff)
        PROVE  o2.phdr # 0
    <3>0. PICK h : h = Headers(path)[j]
      OBVIOUS
    <3>1. j \in 1 .. Len(Headers(path)) /\ h.filesz <= h.memsz
      BY <1>1, <1>3, <2>3, <3>0
    <3>2. o2.phdr = HeadAt(path, bias, h)
      BY <2>1, <2>3, <3>0, <3>1, Zenon
    <3>3. HeadAt(path, bias, h) \in 1 .. Space - 1
      BY <2>3, <3>0, <3>1, HeadAddress, Zenon
    <3> QED BY <3>2, <3>3
  <2> QED BY <1>2, <1>3, <2>2, <2>3, Zenon DEF Progress
<1> QED BY <1>4, <1>5 DEF PhdrKept

\* A segment that is placed.
LEMMA LoadHeader ==
  ASSUME NEW path \in Path, NEW bias, IsBias(path, bias), NEW i \in 1 .. Len(Headers(path)),
         NEW h, h = Headers(path)[i], h.type = "load",
         NEW o \in Object, ~MapFails(path, h, bias, o.space), NEW o2,
         o2 = AfterSegment(path, bias, o, h)
  PROVE  /\ o2 \in Object /\ Same(o, o2) /\ o2.failed = o.failed
         /\ \A m : Progress(path, bias, m, o, i - 1) => Progress(path, bias, m, o2, i)
<1>1. h \in Header /\ bias \in Nat /\ o.space \in Memory /\ o.brk_start \in Nat /\ o.phdr \in 0 .. Space - 1
  BY HeaderParts, BiasType, ObjectParts
<1>2. PICK s : s = Segment(path, h, bias, o.space)
  OBVIOUS
<1>3. s \in Memory /\ Keeps(o.space, s) /\ SegmentPlaced(s, path, bias, h) /\ h.filesz <= h.memsz
  BY <1>1, <1>2, Placing, Zenon
<1>4. PICK b : b = brk_after(h, bias, o.brk_start)
  OBVIOUS
<1>5. b \in Nat /\ o.brk_start <= b /\ bias + h.vaddr + h.memsz <= b
  BY <1>1, <1>4, BreakAfter
<1>6. PICK x : x = PhdrAfter(path, bias, o, h)
  OBVIOUS
<1>7. Holds(h, File[path].phoff)
        => /\ HeadAt(path, bias, h) \in 1 .. Space - 1
           /\ HeadAt(path, bias, h) = bias + h.vaddr + (File[path].phoff - h.offset)
  BY <1>3, HeadAddress, Zenon
<1>8. PICK y : y = HeadAt(path, bias, h)
  OBVIOUS
<1>9. IF o.phdr = 0 /\ Holds(h, File[path].phoff) THEN x = y /\ y \in 1 .. Space - 1 ELSE x = o.phdr
  BY <1>6, <1>7, <1>8 DEF PhdrAfter
<1>10. x \in 0 .. Space - 1
  BY <1>1, <1>9
<1>11. o2 = WithSegment(o, s, b, x)
  BY <1>2, <1>4, <1>6, Zenon DEF AfterSegment
<1>12. /\ o2 \in Object /\ Same(o, o2) /\ o2.failed = o.failed /\ o2.space = s
       /\ o2.phdr = x /\ o2.brk_start = b
  <2>1. HasSegment(o, s, b, x, o2)
    BY <1>3, <1>5, <1>10, <1>11, SetSegment, Zenon
  <2> QED BY <2>1, Zenon DEF HasSegment
<1>13. ASSUME NEW m, Progress(path, bias, m, o, i - 1) PROVE Progress(path, bias, m, o2, i)
  <2>1. Keeps(m, o2.space)
    BY <1>3, <1>12, <1>13, KeepsTransitive DEF Progress
  <2>2. \A j \in 1 .. i : j = i \/ j \in 1 .. i - 1
    OBVIOUS
  <2>3. ASSUME NEW j \in 1 .. i, Headers(path)[j].type = "load"
        PROVE  Done(path, bias, o2, Headers(path)[j])
    <3>1. CASE j = i
      BY <1>3, <1>5, <1>12, <3>1 DEF Done
    <3>2. CASE j \in 1 .. i - 1
      <4>1. Done(path, bias, o, Headers(path)[j])
        BY <1>13, <2>3, <3>2, Zenon DEF Progress
      <4>2. j \in 1 .. Len(Headers(path))
        BY FileParts
      <4>3. Headers(path)[j] \in Header
        BY <4>2, HeaderParts
      <4>4. Keeps(o.space, o2.space) /\ o.brk_start <= o2.brk_start
        BY <1>3, <1>5, <1>12
      <4> QED BY <1>1, <1>12, <4>1, <4>3, <4>4, StillDone, Zenon
    <3> QED BY <2>2, <3>1, <3>2
  <2>4. CASE o.phdr = 0 /\ Holds(h, File[path].phoff)
    <3>1. o2.phdr = y /\ o2.phdr # 0
      BY <1>9, <1>12, <2>4
    <3>2. h \in Loadable(path)
      BY LoadableIndex
    <3>3. Points(path, bias, o2.phdr)
      BY <1>8, <2>4, <3>1, <3>2, Zenon DEF Points
    <3> QED BY <2>1, <2>3, <3>1, <3>3, Zenon DEF Progress
  <2>5. CASE ~(o.phdr = 0 /\ Holds(h, File[path].phoff))
    <3>1. o2.phdr = o.phdr
      BY <1>9, <1>12, <2>5
    <3>2. o2.phdr # 0 => Points(path, bias, o2.phdr)
      BY <1>13, <3>1, Zenon DEF Progress
    <3>3. ASSUME o2.phdr = 0, NEW j \in 1 .. i, Headers(path)[j].type = "load"
          PROVE  ~Holds(Headers(path)[j], File[path].phoff)
      <4>1. CASE j = i
        BY <2>5, <3>1, <3>3, <4>1
      <4>2. CASE j \in 1 .. i - 1
        BY <1>13, <3>1, <3>3, <4>2, Zenon DEF Progress
      <4> QED BY <2>2, <4>1, <4>2
    <3> QED BY <2>1, <2>3, <3>2, <3>3, Zenon DEF Progress
  <2> QED BY <2>4, <2>5
<1> QED BY <1>12, <1>13, Zenon

\* Any header.
Stepped(path, bias, i, o, o2) ==
  /\ o2 \in Object /\ Same(o, o2)
  /\ ~o2.failed => /\ ~o.failed
                   /\ \A m : Progress(path, bias, m, o, i - 1) => Progress(path, bias, m, o2, i)

LEMMA HeaderStep ==
  ASSUME NEW path \in Path, NEW bias, IsBias(path, bias), NEW i \in 1 .. Len(Headers(path)),
         NEW o \in Object, NEW o2, o2 = PlaceHeader(path, bias, o, Headers(path)[i])
  PROVE  Stepped(path, bias, i, o, o2)
<1>1. PICK h : h = Headers(path)[i]
  OBVIOUS
<1>2. h.vaddr \in Nat /\ bias \in Nat /\ File[path].interpreter \in Path \cup {NoPath}
  BY <1>1, HeaderParts, HeaderFields, BiasType, FileParts
<1>3. CASE (o.failed \/ h.type # "load") /\ o2 = o
  <2>1. o2 \in Object /\ Same(o, o2)
    BY <1>3 DEF Same
  <2>2. ASSUME ~o2.failed, NEW m, Progress(path, bias, m, o, i - 1)
        PROVE  Progress(path, bias, m, o2, i)
    <3>1. /\ Headers(path)[i].type # "load" /\ o2.space = o.space /\ o2.brk_start = o.brk_start
          /\ PhdrKept(path, bias, o, o2, Headers(path)[i])
      BY <1>1, <1>3, <2>2 DEF PhdrKept
    <3> QED BY <2>1, <2>2, <3>1, OtherHeader, Zenon
  <2> QED BY <1>3, <2>1, <2>2 DEF Stepped
<1>4. CASE ~o.failed /\ h.type = "interp" /\ o2 = [o EXCEPT !.interpreter = File[path].interpreter]
  <2>1. PICK x \in Path \cup {NoPath} : x = File[path].interpreter
    BY <1>2
  <2>2. /\ o2 \in Object /\ Same(o, o2) /\ o2.failed = o.failed /\ o2.space = o.space
        /\ o2.phdr = o.phdr /\ o2.brk_start = o.brk_start
    BY <1>4, <2>1, SetInterpreter
  <2>3. h.type # "load"
    BY <1>4
  <2>4. ASSUME NEW m, Progress(path, bias, m, o, i - 1) PROVE Progress(path, bias, m, o2, i)
    <3>1. Headers(path)[i].type # "load" /\ PhdrKept(path, bias, o, o2, Headers(path)[i])
      BY <1>1, <2>2, <2>3 DEF PhdrKept
    <3> QED BY <2>2, <2>4, <3>1, OtherHeader, Zenon
  <2> QED BY <1>4, <2>2, <2>4 DEF Stepped
<1>5. CASE ~o.failed /\ h.type = "phdr" /\ o2 = [o EXCEPT !.phdr = u64(bias + h.vaddr)]
  <2>0. bias + h.vaddr \in Int
    BY <1>2
  <2>1. PICK x \in 0 .. Space - 1 : x = u64(bias + h.vaddr)
    BY <2>0, Wrapped
  <2>2. /\ o2 \in Object /\ Same(o, o2) /\ o2.failed = o.failed /\ o2.space = o.space
        /\ o2.phdr = x /\ o2.brk_start = o.brk_start
    BY <1>5, <2>1, SetPhdr
  <2>3. h.type # "load"
    BY <1>5
  <2>4. ASSUME NEW m, Progress(path, bias, m, o, i - 1) PROVE Progress(path, bias, m, o2, i)
    <3>1. Headers(path)[i].type # "load" /\ PhdrKept(path, bias, o, o2, Headers(path)[i])
      BY <1>1, <1>5, <2>1, <2>2, <2>3 DEF PhdrKept
    <3> QED BY <2>2, <2>4, <3>1, OtherHeader, Zenon
  <2> QED BY <1>5, <2>2, <2>4 DEF Stepped
<1>6. CASE o2 = [o EXCEPT !.failed = TRUE]
  BY <1>6, SetFailed DEF Stepped
<1>7. CASE /\ ~o.failed /\ h.type = "load" /\ ~MapFails(path, h, bias, o.space)
           /\ o2 = AfterSegment(path, bias, o, h)
  <2>1. /\ o2 \in Object /\ Same(o, o2) /\ o2.failed = o.failed
        /\ \A m : Progress(path, bias, m, o, i - 1) => Progress(path, bias, m, o2, i)
    BY <1>1, <1>7, LoadHeader, Zenon
  <2> QED BY <1>7, <2>1 DEF Stepped
<1>8. o2 = PlaceHeader(path, bias, o, h)
  BY <1>1
<1>9. PlaceCase(path, bias, o, h, o2)
  BY <1>8, PlaceHeaderCases, Zenon
<1> QED BY <1>3, <1>4, <1>5, <1>6, <1>7, <1>9, Zenon DEF PlaceCase

FirstObject(path, bias, m) ==
  [failed |-> ~File[path].elf, space |-> m, load_base |-> bias,
   entry |-> u64(bias + File[path].entry), phdr |-> 0, brk_start |-> 0,
   interpreter |-> NoPath]

LastObject(path, bias, o) ==
  [o EXCEPT !.phdr = IF @ = 0 THEN u64(bias + File[path].phoff) ELSE @,
            !.failed = @ \/ o.brk_start = 0]

LEMMA FirstObjectType ==
  ASSUME NEW path \in Path, NEW bias \in Nat, NEW m \in Memory, NEW o, o = FirstObject(path, bias, m)
  PROVE  /\ o \in Object /\ o.space = m /\ o.load_base = bias /\ o.entry = u64(bias + File[path].entry)
         /\ o.phdr = 0
<1>1. u64(bias + File[path].entry) \in 0 .. Space - 1
  <2>1. bias + File[path].entry \in Int
    BY FileParts
  <2> QED BY <2>1, Wrapped
<1>2. File[path].elf \in BOOLEAN /\ 0 \in 0 .. Space - 1 /\ NoPath \in Path \cup {NoPath} /\ 0 \in Nat
  BY FileParts, ImagesAssumption
<1> QED BY <1>1, <1>2 DEF FirstObject, Object

LEMMA LastObjectParts ==
  ASSUME NEW path \in Path, NEW bias \in Nat, NEW o \in Object, NEW o2, o2 = LastObject(path, bias, o)
  PROVE  /\ o2 \in Object /\ Same(o, o2) /\ (~o2.failed => ~o.failed) /\ o2.space = o.space
         /\ o2.brk_start = o.brk_start /\ (o.phdr # 0 => o2.phdr = o.phdr)
<1>1. bias + File[path].phoff \in Int
  BY FileParts
<1>2. u64(bias + File[path].phoff) \in 0 .. Space - 1
  BY <1>1, Wrapped
<1>3. PICK x \in 0 .. Space - 1 : x = u64(bias + File[path].phoff)
  BY <1>2
<1>4. o2 = [o EXCEPT !.phdr = IF o.phdr = 0 THEN x ELSE o.phdr, !.failed = o.failed \/ o.brk_start = 0]
  BY <1>3 DEF LastObject, Object
<1>5. PICK y \in 0 .. Space - 1 : y = IF o.phdr = 0 THEN x ELSE o.phdr
  BY ObjectParts
<1>6. PICK f \in BOOLEAN : f = (o.failed \/ o.brk_start = 0)
  OBVIOUS
<1>7. o2 = [o EXCEPT !.phdr = y, !.failed = f]
  BY <1>4, <1>5, <1>6
<1>8. /\ o2 \in Object /\ Same(o, o2) /\ o2.failed = f /\ o2.space = o.space
      /\ o2.brk_start = o.brk_start /\ o2.phdr = y
  BY <1>7 DEF Object, Same
<1> QED BY <1>5, <1>6, <1>8

\* The objects after each of the headers.
AreObjects(c, path, bias, m) ==
  /\ c \in [0 .. Len(Headers(path)) -> Object]
  /\ c[0] = FirstObject(path, bias, m)
  /\ \A i \in 1 .. Len(Headers(path)) : c[i] = PlaceHeader(path, bias, c[i - 1], Headers(path)[i])

LEMMA ObjectsValue ==
  ASSUME NEW path \in Path, NEW base \in {ExeBase, InterpBase}, NEW m \in Memory,
         NEW bias, bias = Bias(path, base)
  PROVE  \E c : AreObjects(c, path, bias, m)
                /\ load_object(path, base, m) = LastObject(path, bias, c[Len(Headers(path))])
<1> DEFINE n == Len(Headers(path))
           S == Object
           first == FirstObject(path, bias, m)
           F(f) == [i \in 0 .. n |-> IF i = 0 THEN first ELSE PlaceHeader(path, bias, f[i - 1], Headers(path)[i])]
           step == [x \in (1 .. n) \X S |-> PlaceHeader(path, bias, x[2], Headers(path)[x[1]])]
           c == CHOOSE f : f = F(f)
<1>0. load_object(path, base, m) = LastObject(path, bias, c[n])
  BY DEF load_object, FirstObject, LastObject
<1>1. IsBias(path, bias) /\ bias \in Nat
  BY BiasType DEF IsBias
<1>2. n \in Nat /\ first \in S
  BY <1>1, FileParts, FirstObjectType
<1>3. \A i \in 1 .. n, o \in S : PlaceHeader(path, bias, o, Headers(path)[i]) \in S
  BY <1>1, HeaderStep DEF Stepped
<1>4. c = CHOOSE f : f = F(f)
  OBVIOUS
<1> HIDE DEF n, c, S, first
<1>5. /\ step \in [(1 .. n) \X S -> S]
      /\ \A i \in 1 .. n, o \in S : step[<<i, o>>] = PlaceHeader(path, bias, o, Headers(path)[i])
  BY <1>3
<1> HIDE DEF step
<1>6. PICK g : Run(g, n, S, first, step)
  BY <1>2, <1>5, Recursion, Zenon
<1>7. \A i \in 1 .. n : i - 1 \in 0 .. n
  BY <1>2
<1>8. /\ g \in [0 .. n -> S] /\ g[0] = first
      /\ \A i \in 1 .. n : g[i] = PlaceHeader(path, bias, g[i - 1], Headers(path)[i])
  BY <1>5, <1>6, <1>7 DEF Run
<1>9. g = F(g)
  BY <1>2, <1>8
<1>10. c = F(c)
  BY <1>4, <1>9
<1>11. c[0] = first /\ \A i \in 1 .. n : c[i] = PlaceHeader(path, bias, c[i - 1], Headers(path)[i])
  BY <1>2, <1>10
<1> DEFINE P == {i \in 0 .. n : c[i] \in S}
<1>12. 0 \in P /\ \A i \in 1 .. n : i - 1 \in P => i \in P
  BY <1>2, <1>3, <1>11
<1> HIDE DEF P
<1>13. \A i \in 0 .. n : i \in P
  BY <1>2, <1>12, Induction
<1>14. \A i \in 0 .. n : c[i] \in S
  BY <1>13 DEF P
<1>15. c \in [0 .. n -> S]
  BY <1>10, <1>14
<1>16. AreObjects(c, path, bias, m)
  BY <1>11, <1>15 DEF AreObjects, n, S, first
<1> QED BY <1>0, <1>16 DEF n

\* What load_object promises of an object that it returns.
Loaded(path, bias, m, o) ==
  /\ o \in Object /\ o.load_base = bias /\ o.entry = u64(bias + File[path].entry)
  /\ ~o.failed =>
       /\ Keeps(m, o.space)
       /\ \A h \in Loadable(path) : Done(path, bias, o, h)
       /\ Points(path, bias, o.phdr)

LEMMA Loading ==
  ASSUME NEW path \in Path, NEW base \in {ExeBase, InterpBase}, NEW m \in Memory,
         NEW bias, bias = Bias(path, base), NEW o, o = load_object(path, base, m)
  PROVE  Loaded(path, bias, m, o)
<1>0. IsBias(path, bias) /\ bias \in Nat
  BY BiasType DEF IsBias
<1>1. PICK n \in Nat : n = Len(Headers(path))
  BY FileParts
<1>2. PICK c : AreObjects(c, path, bias, m) /\ o = LastObject(path, bias, c[Len(Headers(path))])
  <2>1. \E c : AreObjects(c, path, bias, m)
              /\ load_object(path, base, m) = LastObject(path, bias, c[Len(Headers(path))])
    BY ObjectsValue
  <2> QED BY <2>1
<1>3. /\ c \in [0 .. n -> Object] /\ c[0] = FirstObject(path, bias, m)
      /\ \A i \in 1 .. n : c[i] = PlaceHeader(path, bias, c[i - 1], Headers(path)[i])
  BY <1>1, <1>2 DEF AreObjects
<1> DEFINE Right(i) == /\ c[i].load_base = bias /\ c[i].entry = u64(bias + File[path].entry)
                       /\ ~c[i].failed => Progress(path, bias, m, c[i], i)
           P == {i \in 0 .. n : Right(i)}
<1>4. 0 \in P
  <2>1. PICK x : x = c[0]
    OBVIOUS
  <2>2. /\ x \in Object /\ x.space = m /\ x.load_base = bias /\ x.entry = u64(bias + File[path].entry)
        /\ x.phdr = 0
    BY <1>0, <1>3, <2>1, FirstObjectType
  <2>3. Keeps(m, x.space) /\ \A j \in 1 .. 0 : FALSE
    BY <2>2, KeepsAll
  <2>4. Progress(path, bias, m, x, 0)
    BY <2>2, <2>3 DEF Progress
  <2>5. 0 \in 0 .. n
    OBVIOUS
  <2> QED BY <2>1, <2>2, <2>4, <2>5
<1>5. ASSUME NEW i \in 1 .. n, i - 1 \in P PROVE i \in P
  <2>1. PICK x \in Object, y \in Object : x = c[i - 1] /\ y = c[i]
    BY <1>3
  <2>2. y = PlaceHeader(path, bias, x, Headers(path)[i])
    BY <1>3, <2>1
  <2>3. Stepped(path, bias, i, x, y)
    BY <1>0, <1>1, <2>2, HeaderStep, Zenon
  <2>4. /\ x.load_base = bias /\ x.entry = u64(bias + File[path].entry)
        /\ ~x.failed => Progress(path, bias, m, x, i - 1)
    BY <1>5, <2>1
  <2>5. /\ y.load_base = bias /\ y.entry = u64(bias + File[path].entry)
        /\ ~y.failed => Progress(path, bias, m, y, i)
    BY <2>3, <2>4 DEF Stepped, Same
  <2>6. i \in 0 .. n
    OBVIOUS
  <2> QED BY <2>1, <2>5, <2>6
<1> HIDE DEF P
<1>6. \A i \in 0 .. n : i \in P
  BY <1>4, <1>5, Induction
<1>7. PICK x \in Object : x = c[n]
  BY <1>3
<1>8. /\ x.load_base = bias /\ x.entry = u64(bias + File[path].entry)
      /\ ~x.failed => Progress(path, bias, m, x, n)
  BY <1>6, <1>7 DEF P
<1>9. o = LastObject(path, bias, x)
  BY <1>1, <1>2, <1>7
<1>10. /\ o \in Object /\ Same(x, o) /\ (~o.failed => ~x.failed) /\ o.space = x.space
       /\ o.brk_start = x.brk_start /\ (x.phdr # 0 => o.phdr = x.phdr)
  BY <1>0, <1>9, LastObjectParts, Zenon
<1>11. ASSUME ~o.failed
       PROVE  /\ Keeps(m, o.space)
              /\ \A h \in Loadable(path) : Done(path, bias, o, h)
              /\ Points(path, bias, o.phdr)
  <2>1. Progress(path, bias, m, x, n)
    BY <1>8, <1>10, <1>11
  <2>2. Keeps(m, o.space)
    BY <1>10, <2>1 DEF Progress
  <2>3. ASSUME NEW h \in Loadable(path) PROVE Done(path, bias, o, h)
    <3>1. PICK j \in 1 .. n : Headers(path)[j] = h /\ h.type = "load"
      BY <1>1, LoadableIndex
    <3>2. Done(path, bias, x, h)
      BY <2>1, <3>1 DEF Progress
    <3> QED BY <1>10, <3>2 DEF Done
  <2>4. Points(path, bias, o.phdr)
    <3>1. CASE x.phdr # 0
      BY <1>10, <2>1, <3>1 DEF Progress
    <3>2. CASE x.phdr = 0
      <4>1. ASSUME NEW h \in Loadable(path) PROVE ~Holds(h, File[path].phoff)
        <5>1. PICK j \in 1 .. n : Headers(path)[j] = h /\ h.type = "load"
          BY <1>1, LoadableIndex
        <5> QED BY <2>1, <3>2, <5>1 DEF Progress
      <4> QED BY <4>1, Zenon DEF Points
    <3> QED BY <3>1, <3>2
  <2> QED BY <2>2, <2>3, <2>4
<1> QED BY <1>8, <1>10, <1>11 DEF Loaded, Same

-----------------------------------------------------------------------------
(* Loaded images.                                                          *)

Kinds == {File[p].kind : p \in Path} \cup {"", "executable", "loader"}
Entries == {Image(p, k, b) : p \in Path, k \in Kinds, b \in Nat}

LEMMA EntryParts ==
  ASSUME NEW x \in Entries
  PROVE  x.base \in 0 .. Space - 1 /\ x.end \in 0 .. Space - 1
<1>1. PICK p \in Path, k \in Kinds, b \in Nat : x = Image(p, k, b)
  BY DEF Entries
<1>2. MinVaddr(p) \in Nat /\ MaxVaddr(p) \in Nat
  BY VaddrBounds
<1>3. PICK y \in 0 .. Space - 1 : y = image_base(b, MinVaddr(p))
  BY <1>2, Wrapped DEF image_base
<1>4. PICK z \in 0 .. Space - 1 : z = u64(y + MaxVaddr(p))
  BY <1>2, Wrapped
<1>5. x.base = image_base(b, MinVaddr(p)) /\ x.end = u64(image_base(b, MinVaddr(p)) + MaxVaddr(p))
  BY <1>1 DEF Image
<1> QED BY <1>3, <1>4, <1>5

LEMMA Registering ==
  ASSUME NEW list \in Seq(Entries), NEW path, path \in Path \cup {Socket}, NEW kind \in Kinds, NEW b \in Nat
  PROVE  Registered(list, path, kind, b) \in Seq(Entries)
<1>1. CASE Registered(list, path, kind, b) = list
  BY <1>1
<1>2. CASE path # Socket /\ Registered(list, path, kind, b) = Append(list, Image(path, kind, b))
  <2>1. path \in Path
    BY <1>2
  <2>2. PICK e \in Entries : e = Image(path, kind, b)
    BY <2>1 DEF Entries
  <2>3. Append(list, e) \in Seq(Entries)
    OBVIOUS
  <2> QED BY <1>2, <2>2, <2>3
<1> QED BY <1>1, <1>2 DEF Registered

-----------------------------------------------------------------------------
(* Mappings of the guest.                                                  *)

LEMMA RangeMembers ==
  ASSUME NEW first \in Nat, NEW n \in Nat, first + n < Space, NEW a \in Range64(first, n)
  PROVE  a \in first .. first + n - 1
<1>0. Space \in Nat
  BY ImagesAssumption
<1>1. PICK k \in 0 .. n - 1 : a = u64(first + k)
  BY DEF Range64
<1>2. first + k \in 0 .. Space - 1
  BY <1>0
<1>3. a = first + k
  BY <1>1, <1>2, Wrapped
<1> QED BY <1>3

\* What a file mapping makes of memory.
Mapped(m, path, range, target, offset) ==
  [a \in 0 .. Space - 1 |->
     IF a \notin range THEN m[a]
     ELSE IF offset + a - target < File[path].size THEN <<path, offset + a - target>>
     ELSE Zeros]

LEMMA Mapping ==
  ASSUME NEW m \in Memory, NEW path \in Path, NEW target \in Nat, NEW n \in Nat, NEW offset \in Nat,
         target + n < Space
  PROVE  Mapped(m, path, Range64(target, n), target, offset) \in Memory
<1>1. PICK R : R = Range64(target, n)
  OBVIOUS
<1>2. \A a \in R : a \in target .. target + n - 1
  BY <1>1, RangeMembers
<1>3. PICK z \in 0 .. Space : z = File[path].size
  BY FileParts
<1> SUFFICES ASSUME NEW a \in 0 .. Space - 1
             PROVE  (IF a \notin R THEN m[a]
                     ELSE IF offset + a - target < z THEN <<path, offset + a - target>>
                     ELSE Zeros) \in Sources
  BY <1>1, <1>3 DEF Memory, Mapped
<1>4. m[a] \in Sources /\ Zeros \in Sources
  BY DEF Memory, Sources
<1>5. ASSUME a \in R, offset + a - target < z PROVE <<path, offset + a - target>> \in Sources
  <2>1. offset + a - target \in 0 .. Space - 1
    BY <1>2, <1>5, ImagesAssumption
  <2> QED BY <2>1 DEF Sources
<1> QED BY <1>4, <1>5

LEMMA MappingKeeps ==
  ASSUME NEW m, NEW path, NEW R, NEW target, NEW offset, \A a \in R : m[a] = Nothing
  PROVE  Keeps(m, Mapped(m, path, R, target, offset))
  BY DEF Keeps, Mapped

-----------------------------------------------------------------------------
(* Images: the invariant.                                                  *)

\* The program is in memory m.
ProgramIn(m, p) ==
  /\ \A h \in Loadable(p.path) : SegmentPlaced(m, p.path, p.executable_base, h)
  /\ \A h \in Loadable(p.path) : p.executable_base + h.vaddr + h.memsz <= p.brk_start
  /\ (\E h \in Loadable(p.path) : Holds(h, File[p.path].phoff))
       => m[p.phdr] = <<p.path, File[p.path].phoff>>
  /\ IF p.interpreter = NoPath THEN EntryOf(p.path, p.executable_base, p.entry)
     ELSE /\ \A h \in Loadable(p.interpreter) : SegmentPlaced(m, p.interpreter, p.interpreter_base, h)
          /\ EntryOf(p.interpreter, p.interpreter_base, p.entry)

ProgramType(p) ==
  /\ p.path \in Path /\ p.interpreter \in Path \cup {NoPath}
  /\ p.executable_base \in Nat /\ p.interpreter_base \in Nat /\ p.phdr \in 0 .. Space - 1

ImagesInv ==
  /\ space \in Memory
  /\ status \in {"new", "running", "ended"}
  /\ host \in [Fds -> Path \cup {Socket, NoPath}]
  /\ paths \in [Fds -> Path \cup {Socket, NoPath}]
  /\ unread \subseteq Fds
  /\ images \in Seq(Entries)
  /\ program.brk_start % PageSize = 0
  /\ PathsAreOpenFiles
  /\ status = "running" => ProgramType(program)
  /\ status = "running" /\ orderly => ProgramIn(space, program)

LEMMA LoadableHeader ==
  ASSUME NEW path \in Path, NEW h \in Loadable(path)
  PROVE  h \in Header
<1>1. PICK i \in 1 .. Len(Headers(path)) : Headers(path)[i] = h
  BY LoadableIndex
<1> QED BY <1>1, HeaderParts

LEMMA StillIn ==
  ASSUME NEW m1, NEW m2, Keeps(m1, m2), NEW p, ProgramType(p), ProgramIn(m1, p)
  PROVE  ProgramIn(m2, p)
<1>1. /\ p.path \in Path /\ p.interpreter \in Path \cup {NoPath}
      /\ p.executable_base \in Nat /\ p.interpreter_base \in Nat /\ p.phdr \in 0 .. Space - 1
  BY DEF ProgramType
<1>2. ASSUME NEW h \in Loadable(p.path) PROVE SegmentPlaced(m2, p.path, p.executable_base, h)
  <2>1. h \in Header
    BY <1>1, LoadableHeader, Zenon
  <2>2. SegmentPlaced(m1, p.path, p.executable_base, h)
    BY DEF ProgramIn
  <2> QED BY <1>1, <2>1, <2>2, StillPlaced, Zenon
<1>3. ASSUME p.interpreter # NoPath, NEW h \in Loadable(p.interpreter)
      PROVE  SegmentPlaced(m2, p.interpreter, p.interpreter_base, h)
  <2>0. p.interpreter \in Path
    BY <1>1, <1>3
  <2>1. h \in Header
    BY <2>0, LoadableHeader, Zenon
  <2>2. SegmentPlaced(m1, p.interpreter, p.interpreter_base, h)
    BY <1>3 DEF ProgramIn
  <2> QED BY <1>1, <2>1, <2>2, StillPlaced, Zenon
<1>4. ASSUME m1[p.phdr] = <<p.path, File[p.path].phoff>>
      PROVE  m2[p.phdr] = <<p.path, File[p.path].phoff>>
  <2>1. m1[p.phdr] # Nothing
    BY <1>4, MappedBytes
  <2> QED BY <1>1, <1>4, <2>1 DEF Keeps
<1> QED BY <1>2, <1>3, <1>4 DEF ProgramIn

\* AT_PHDR points at the headers in memory.
LEMMA HeadersInMemory ==
  ASSUME NEW path \in Path, NEW bias, IsBias(path, bias), NEW o,
         \A h \in Loadable(path) : Done(path, bias, o, h), Points(path, bias, o.phdr),
         \E h \in Loadable(path) : Holds(h, File[path].phoff)
  PROVE  o.space[o.phdr] = <<path, File[path].phoff>>
<1>1. PICK h \in Loadable(path) : Holds(h, File[path].phoff) /\ o.phdr = HeadAt(path, bias, h)
  BY DEF Points
<1>2. PICK i \in 1 .. Len(Headers(path)) : Headers(path)[i] = h /\ h.type = "load"
  BY LoadableIndex
<1>3. SegmentPlaced(o.space, path, bias, h) /\ h.filesz <= h.memsz
  BY DEF Done
<1>4. PICK k : k = File[path].phoff - h.offset
  OBVIOUS
<1>5. k \in 0 .. Space - 1 /\ k < h.filesz
  BY <1>1, <1>2, <1>3, <1>4, HeadAddress
<1>6. h \in Header
  BY <1>2, HeaderParts
<1>7. h.filesz \in Nat /\ h.memsz \in Nat /\ h.offset \in Nat /\ File[path].phoff \in Nat
  BY <1>6, HeaderFields, FileParts
<1>8. k < h.memsz
  BY <1>3, <1>5, <1>7
<1>9. o.space[u64(bias + h.vaddr + k)] = <<path, h.offset + k>>
  BY <1>3, <1>5, <1>8 DEF SegmentPlaced
<1>10. h.offset + k = File[path].phoff
  BY <1>4, <1>7
<1>11. u64(bias + h.vaddr + k) = o.phdr
  BY <1>1, <1>4 DEF HeadAt
<1> QED BY <1>9, <1>10, <1>11

LEMMA LoadStep ==
  ASSUME ImagesInv, NEW path \in Programs, load(path)
  PROVE  ImagesInv'
<1>0. path \in Path
  BY ImagesAssumption
<1>1. PICK bias : bias = Bias(path, ExeBase)
  OBVIOUS
<1>2. PICK exe : exe = load_object(path, ExeBase, space)
  OBVIOUS
<1>3. space \in Memory
  BY DEF ImagesInv
<1>4. Loaded(path, bias, space, exe)
  BY <1>0, <1>1, <1>2, <1>3, Loading
<1>5. /\ exe \in Object /\ exe.load_base = bias /\ exe.entry = u64(bias + File[path].entry)
      /\ ~exe.failed => /\ Keeps(space, exe.space)
                        /\ \A h \in Loadable(path) : Done(path, bias, exe, h)
                        /\ Points(path, bias, exe.phdr)
  BY <1>4 DEF Loaded
<1>6. IsBias(path, bias) /\ bias \in Nat
  BY <1>1, BiasType DEF IsBias
<1>7. /\ exe.space \in Memory /\ exe.phdr \in 0 .. Space - 1 /\ exe.brk_start \in Nat
      /\ exe.interpreter \in Path \cup {NoPath}
  BY <1>5, ObjectParts
<1>8. PICK interp : interp = IF exe.interpreter # NoPath
                             THEN load_object(exe.interpreter, InterpBase, exe.space) ELSE exe
  OBVIOUS
<1>9. PICK bias2 : bias2 = Bias(exe.interpreter, InterpBase)
  OBVIOUS
<1>10. ASSUME exe.interpreter # NoPath
       PROVE  /\ exe.interpreter \in Path
              /\ Loaded(exe.interpreter, bias2, exe.space, interp)
  <2>1. exe.interpreter \in Path
    BY <1>7, <1>10
  <2>2. interp = load_object(exe.interpreter, InterpBase, exe.space)
    BY <1>8, <1>10
  <2> QED BY <1>7, <1>9, <2>1, <2>2, Loading
<1>11. interp \in Object /\ interp.load_base \in Nat /\ interp.space \in Memory
  BY <1>5, <1>8, <1>10, ObjectParts DEF Loaded
<1>12. PICK brk \in Nat : brk = page_align_up(exe.brk_start)
  BY <1>7, PageAlignUp
<1>13. brk % PageSize = 0 /\ brk >= exe.brk_start
  BY <1>7, <1>12, PageAlignUp
<1>14. CASE exe.failed \/ interp.failed
  <2>1. Ends
    BY <1>2, <1>8, <1>14 DEF load
  <2>2. "ended" # "running" /\ "ended" \in {"new", "running", "ended"}
    OBVIOUS
  <2> QED BY <2>1, <2>2 DEF Ends, ImagesInv, PathsAreOpenFiles
<1>15. CASE ~(exe.failed \/ interp.failed)
  <2> DEFINE first == Registered(images, path, "executable", exe.load_base)
             p == [path |-> path, entry |-> interp.entry, phdr |-> exe.phdr, brk_start |-> brk,
                   interpreter |-> exe.interpreter, executable_base |-> exe.load_base,
                   interpreter_base |-> IF exe.interpreter # NoPath THEN interp.load_base ELSE 0]
  <2>1. /\ space' = interp.space
        /\ program' = p
        /\ images' = IF exe.interpreter # NoPath
                     THEN Registered(first, exe.interpreter, "loader", interp.load_base) ELSE first
        /\ status' = "running"
        /\ host' = host /\ paths' = paths /\ unread' = unread
    BY <1>2, <1>8, <1>12, <1>15 DEF load
  <2>2. /\ p.path = path /\ p.entry = interp.entry /\ p.phdr = exe.phdr /\ p.brk_start = brk
        /\ p.interpreter = exe.interpreter /\ p.executable_base = bias
        /\ p.interpreter_base = IF exe.interpreter # NoPath THEN interp.load_base ELSE 0
    BY <1>5
  <2>3. first \in Seq(Entries)
    BY <1>0, <1>5, <1>6, Registering DEF ImagesInv, Kinds
  <2> HIDE DEF p, first
  <2>4. images' \in Seq(Entries)
    <3>1. CASE exe.interpreter = NoPath
      BY <2>1, <2>3, <3>1
    <3>2. CASE exe.interpreter # NoPath
      <4>1. PICK q \in Path : q = exe.interpreter
        BY <1>10, <3>2
      <4>2. "loader" \in Kinds
        BY DEF Kinds
      <4>3. Registered(first, q, "loader", interp.load_base) \in Seq(Entries)
        BY <1>11, <2>3, <4>2, Registering
      <4> QED BY <2>1, <3>2, <4>1, <4>3
    <3> QED BY <3>1, <3>2
  <2>5. ProgramType(p)
    BY <1>0, <1>6, <1>7, <1>11, <2>2 DEF ProgramType
  <2>6. Keeps(exe.space, interp.space)
    BY <1>8, <1>10, <1>15, KeepsAll DEF Loaded
  <2>7. ASSUME NEW h \in Loadable(path)
        PROVE  /\ SegmentPlaced(interp.space, path, bias, h)
               /\ bias + h.vaddr + h.memsz <= brk
    <3>1. Done(path, bias, exe, h)
      BY <1>5, <1>15
    <3>2. h \in Header
      BY <1>0, LoadableHeader
    <3>3. SegmentPlaced(interp.space, path, bias, h)
      BY <1>6, <2>6, <3>1, <3>2, StillPlaced, Zenon DEF Done
    <3>4. PICK y \in Nat : y = bias + h.vaddr + h.memsz
      BY <1>6, <3>2, HeaderFields
    <3>5. y <= exe.brk_start
      BY <3>1, <3>4 DEF Done
    <3>6. y <= brk
      BY <1>7, <1>13, <3>5
    <3> QED BY <3>3, <3>4, <3>6
  <2>8. ASSUME \E h \in Loadable(path) : Holds(h, File[path].phoff)
        PROVE  interp.space[exe.phdr] = <<path, File[path].phoff>>
    <3>1. exe.space[exe.phdr] = <<path, File[path].phoff>>
      BY <1>0, <1>5, <1>6, <1>15, <2>8, HeadersInMemory
    <3>2. exe.space[exe.phdr] # Nothing
      BY <3>1, MappedBytes
    <3> QED BY <1>7, <2>6, <3>1, <3>2 DEF Keeps
  <2>9. CASE exe.interpreter = NoPath
    <3>1. EntryOf(path, bias, interp.entry)
      BY <1>5, <1>8, <2>9 DEF EntryOf
    <3>2. ProgramIn(interp.space, p)
      BY <2>2, <2>7, <2>8, <2>9, <3>1 DEF ProgramIn
    <3> QED BY <1>11, <1>13, <2>1, <2>2, <2>4, <2>5, <3>2 DEF ImagesInv, PathsAreOpenFiles
  <2>10. CASE exe.interpreter # NoPath
    <3>1. PICK q \in Path : q = exe.interpreter
      BY <1>10, <2>10
    <3>2. Loaded(q, bias2, exe.space, interp)
      BY <1>10, <2>10, <3>1
    <3>3. /\ interp.load_base = bias2 /\ EntryOf(q, bias2, interp.entry)
          /\ \A h \in Loadable(q) : SegmentPlaced(interp.space, q, bias2, h)
      BY <1>15, <3>2 DEF Loaded, Done, EntryOf
    <3>4. ProgramIn(interp.space, p)
      BY <2>2, <2>7, <2>8, <2>10, <3>1, <3>3 DEF ProgramIn
    <3> QED BY <1>11, <1>13, <2>1, <2>2, <2>4, <2>5, <3>4 DEF ImagesInv, PathsAreOpenFiles
  <2> QED BY <2>9, <2>10
<1> QED BY <1>14, <1>15

\* Opening, duplicating over and closing: a descriptor and its name change together,
\* unless the host does not name it.
LEMMA DescriptorStep ==
  ASSUME ImagesInv, NEW fd \in Fds, NEW f \in Path \cup {Socket, NoPath}, NEW name,
         host' = [host EXCEPT ![fd] = f], paths' = [paths EXCEPT ![fd] = name],
         \/ name = f /\ unread' = unread \ {fd}
         \/ /\ name = paths[fd] /\ unread' = unread \cup {fd}
            /\ f # NoPath \/ host[fd] = NoPath,
         UNCHANGED <<space, program, status, images, malloc, orderly>>
  PROVE  ImagesInv'
<1>1. /\ host \in [Fds -> Path \cup {Socket, NoPath}] /\ paths \in [Fds -> Path \cup {Socket, NoPath}]
      /\ unread \subseteq Fds /\ PathsAreOpenFiles
  BY DEF ImagesInv
<1>2. /\ name \in Path \cup {Socket, NoPath}
      /\ f = NoPath => name = NoPath
      /\ unread' \subseteq Fds
      /\ unread' \ {fd} = unread \ {fd}
      /\ name # f => fd \in unread'
  BY <1>1 DEF PathsAreOpenFiles
<1>3. /\ host' \in [Fds -> Path \cup {Socket, NoPath}] /\ paths' \in [Fds -> Path \cup {Socket, NoPath}]
  BY <1>1, <1>2
<1>4. PathsAreOpenFiles'
  <2> SUFFICES ASSUME NEW g \in Fds
               PROVE  /\ host'[g] = NoPath => paths'[g] = NoPath
                      /\ paths'[g] = NoPath => host'[g] = NoPath \/ g \in Inherited \cup unread'
                      /\ paths'[g] \notin {NoPath, host'[g]} => g \in unread'
    BY DEF PathsAreOpenFiles
  <2>1. CASE g = fd
    <3>1. host'[g] = f /\ paths'[g] = name
      BY <1>1, <2>1
    <3> QED BY <1>2, <2>1, <3>1
  <2>2. CASE g # fd
    <3>1. host'[g] = host[g] /\ paths'[g] = paths[g] /\ (g \in unread' <=> g \in unread)
      BY <1>1, <1>2, <2>2
    <3> QED BY <1>1, <3>1 DEF PathsAreOpenFiles
  <2> QED BY <2>1, <2>2
<1> QED BY <1>2, <1>3, <1>4 DEF ImagesInv

\* register_host_fd, which finds the name or leaves the entry alone.
LEMMA RegisterStep ==
  ASSUME ImagesInv, NEW fd \in Fds, NEW f \in Path \cup {Socket, NoPath}, Opens(fd, f),
         f # NoPath \/ host[fd] = NoPath
  PROVE  ImagesInv'
<1>1. PICK found \in BOOLEAN :
        /\ host' = [host EXCEPT ![fd] = f]
        /\ paths' = [paths EXCEPT ![fd] = IF found THEN f ELSE @]
        /\ unread' = IF found THEN unread \ {fd} ELSE unread \cup {fd}
        /\ UNCHANGED <<space, program, status, images, malloc, orderly>>
  BY DEF Opens, register_host_fd
<1>2. PICK name : name = IF found THEN f ELSE paths[fd]
  OBVIOUS
<1>3. paths' = [paths EXCEPT ![fd] = name]
  BY <1>1, <1>2
<1> QED BY <1>1, <1>2, <1>3, DescriptorStep

LEMMA MmapStep ==
  ASSUME ImagesInv, NEW fd \in Fds, NEW target \in Targets, NEW size \in Sizes,
         NEW offset \in {0, PageSize}, mmap(fd, target, size, offset)
  PROVE  ImagesInv'
<1>1. PICK path : path = host[fd]
  OBVIOUS
<1>2. path \in Path /\ status = "running"
  BY <1>1 DEF mmap, ImagesInv
<1>3. /\ target \in Nat /\ size \in Nat /\ offset \in Nat
  BY ImagesAssumption
<1>4. PICK n \in Nat : n = page_align_up(size)
  BY <1>3, PageAlignUp
<1>5. PICK R : R = Range64(target, n)
  OBVIOUS
<1>6. /\ space' = Mapped(space, path, R, target, offset) /\ target + n < Space
      /\ orderly' => orderly /\ \A a \in R : space[a] = Nothing
      /\ UNCHANGED <<program, status, host, paths, unread>>
  BY <1>1, <1>4, <1>5 DEF mmap, Mapped
<1>7. space' \in Memory
  BY <1>2, <1>3, <1>5, <1>6, Mapping DEF ImagesInv
<1>8. images' \in Seq(Entries)
  <2>1. CASE images' = images
    BY <2>1 DEF ImagesInv
  <2>2. CASE /\ paths[fd] # NoPath
             /\ images' = Registered(images, paths[fd], KindOf(paths[fd]), target)
    <3>1. PICK q \in Path \cup {Socket} : q = paths[fd]
      BY <2>2 DEF ImagesInv
    <3>2. KindOf(q) \in Kinds
      BY DEF Kinds, KindOf
    <3>3. images \in Seq(Entries)
      BY DEF ImagesInv
    <3>4. Registered(images, q, KindOf(q), target) \in Seq(Entries)
      BY <1>3, <3>2, <3>3, Registering
    <3> QED BY <2>2, <3>1, <3>4
  <2> QED BY <2>1, <2>2 DEF mmap
<1>9. ASSUME orderly' PROVE ProgramIn(space', program')
  <2>1. PICK m2 : m2 = space'
    OBVIOUS
  <2>2. Keeps(space, m2)
    BY <1>6, <1>9, <2>1, MappingKeeps
  <2>3. ProgramType(program) /\ ProgramIn(space, program)
    BY <1>2, <1>6, <1>9 DEF ImagesInv
  <2>4. ProgramIn(m2, program)
    BY <2>2, <2>3, StillIn
  <2> QED BY <1>6, <2>1, <2>4
<1> QED BY <1>6, <1>7, <1>8, <1>9 DEF ImagesInv, PathsAreOpenFiles

LEMMA MunmapStep ==
  ASSUME ImagesInv, NEW target, NEW size, munmap(target, size)
  PROVE  ImagesInv'
<1>1. space' \in Memory
  BY DEF munmap, ImagesInv, Memory, Sources
<1> QED BY <1>1 DEF munmap, ImagesInv, PathsAreOpenFiles

\* The registry of descriptors, memory, the images and the program stay right at each step.
LEMMA ImagesStep ==
  ASSUME ImagesInv, [Next]_vars
  PROVE  ImagesInv'
<1>1. ASSUME NEW path \in Programs, load(path) PROVE ImagesInv'
  BY <1>1, LoadStep
<1>2. ASSUME NEW fd \in Fds, NEW path \in Opened \cup {Socket}, open(fd, path) PROVE ImagesInv'
  <2>1. path \in Path \cup {Socket, NoPath}
    BY ImagesAssumption
  <2>2. Opens(fd, path) /\ host[fd] = NoPath
    BY <1>2 DEF open
  <2> QED BY <2>1, <2>2, RegisterStep
<1>3. ASSUME NEW fd \in Fds, NEW to \in Fds, dup2(fd, to) PROVE ImagesInv'
  <2>1. PICK f \in Path \cup {Socket, NoPath} : f = host[fd]
    BY DEF ImagesInv
  <2>2. Opens(to, f) /\ f # NoPath
    BY <1>3, <2>1 DEF dup2
  <2> QED BY <2>1, <2>2, RegisterStep
<1>4. ASSUME NEW fd \in Fds, close(fd) PROVE ImagesInv'
  <2>1. PICK f \in Path \cup {Socket, NoPath} : f = NoPath
    OBVIOUS
  <2> QED BY <1>4, <2>1, DescriptorStep DEF close
<1>5. ASSUME NEW fd \in Fds, NEW target \in Targets, NEW size \in Sizes, NEW offset \in {0, PageSize},
             mmap(fd, target, size, offset)
      PROVE  ImagesInv'
  BY <1>5, MmapStep
<1>6. ASSUME NEW target \in Targets, NEW size \in Sizes, munmap(target, size) PROVE ImagesInv'
  BY <1>6, MunmapStep
<1>7. CASE UNCHANGED vars
  BY <1>7 DEF vars, ImagesInv, PathsAreOpenFiles
<1> QED BY <1>1, <1>2, <1>3, <1>4, <1>5, <1>6, <1>7 DEF Next

LEMMA ImagesStart ==
  ASSUME Init
  PROVE  ImagesInv
<1>1. space \in Memory
  BY DEF Init, Memory, Sources
<1>2. /\ host \in [Fds -> Path \cup {Socket, NoPath}] /\ paths \in [Fds -> Path \cup {Socket, NoPath}]
      /\ unread \subseteq Fds /\ PathsAreOpenFiles
  BY DEF Init, PathsAreOpenFiles
<1>3. images \in Seq(Entries)
  BY DEF Init
<1>4. program.brk_start % PageSize = 0
  <2>1. program.brk_start = 0
    BY DEF Init, NoProgram
  <2> QED BY <2>1, ImagesAssumption
<1>5. status = "new" /\ "new" # "running"
  BY DEF Init
<1> QED BY <1>1, <1>2, <1>3, <1>4, <1>5 DEF ImagesInv

LEMMA ImagesImplies ==
  ASSUME ImagesInv
  PROVE  TypeOK /\ PathsAreOpenFiles /\ ProgramIsPlaced
<1>1. \A i \in 1 .. Len(images) : images[i] \in Entries
  BY DEF ImagesInv
<1>2. TypeOK
  BY <1>1, EntryParts, SMTT(40) DEF TypeOK, ImagesInv, Memory
<1>3. PathsAreOpenFiles
  BY DEF ImagesInv
<1>4. ProgramIsPlaced
  BY DEF ProgramIsPlaced, ImagesInv, ProgramIn, Placed
<1> QED BY <1>2, <1>3, <1>4

\* Every byte of memory comes from a file or is zero, and every image lies in the address
\* space, whatever files are loaded and mapped (ELFLoader.cpp:33, Emulator.cpp:550).
THEOREM ImagesTypeCorrect == Spec => []TypeOK
<1>1. Spec => []ImagesInv
  BY ImagesStart, ImagesStep, PTL DEF Spec
<1>2. ImagesInv => TypeOK
  BY ImagesImplies
<1> QED BY <1>1, <1>2, PTL

\* For any descriptors and any order of open, dup2 and close, a name in the registry is the
\* name of the file that the descriptor is open on, and an open descriptor without a name
\* was inherited: with the exception, in both, of descriptors whose link the host could not
\* read when they were opened (Emulator.cpp:528).
THEOREM Naming == Spec => []PathsAreOpenFiles
<1>1. Spec => []ImagesInv
  BY ImagesStart, ImagesStep, PTL DEF Spec
<1>2. ImagesInv => PathsAreOpenFiles
  BY ImagesImplies
<1> QED BY <1>1, <1>2, PTL

\* For any program headers in any order, with and without an interpreter, what load_object
\* accepts is in memory as the file says, AT_PHDR points at the headers, the break is above
\* all segments, and later mappings into free memory leave it so (ELFLoader.cpp:87).
THEOREM PlacingPrograms == Spec => []ProgramIsPlaced
<1>1. Spec => []ImagesInv
  BY ImagesStart, ImagesStep, PTL DEF Spec
<1>2. ImagesInv => ProgramIsPlaced
  BY ImagesImplies
<1> QED BY <1>1, <1>2, PTL
=============================================================================
