----------------------------- MODULE CpuProofs -----------------------------
(***************************************************************************)
(* Proofs about the CPU interpreter.                                       *)
(*                                                                         *)
(* Alu, for every word size and every set of operand widths: registers     *)
(* hold words; comparisons, sums, products, quotients and shifts are       *)
(* exact.  Words are taken apart as quotient and remainder of the modulus; *)
(* what is left is linear arithmetic and a few facts about products.       *)
(* Rotations and double shifts are compared bit by bit: every set of       *)
(* positions is the bits of one word (SomeWord, SameBits).                 *)
(*                                                                         *)
(* X87, for every size of the ring and all values: the top stays in the    *)
(* ring, and as long as a program keeps to the rules of the x87 stack,     *)
(* registers and tags are the program's stack.                             *)
(***************************************************************************)
EXTENDS Alu, X87, SequenceTheorems, WellFoundedInduction, TLAPS

LEMMA Quotient ==
  ASSUME NEW x \in Int, NEW p \in Int, p > 0
  PROVE  /\ x \div p \in Int /\ x % p \in 0 .. p - 1
         /\ x = (x \div p) * p + (x % p)
<1>1. x = p * (x \div p) + (x % p)
  OBVIOUS
<1>2. x \div p \in Int /\ x % p \in 0 .. p - 1
  OBVIOUS
<1>3. \A a, b \in Int : a * b = b * a
  OBVIOUS
<1> QED BY <1>1, <1>2, <1>3

\* There is only one remainder.
LEMMA Remainder ==
  ASSUME NEW x \in Int, NEW p \in Int, p > 0, NEW k \in Int, NEW r \in 0 .. p - 1,
         x = k * p + r
  PROVE  x % p = r
<1> DEFINE q == x \div p
           n == x % p
<1>1. q \in Int /\ n \in 0 .. p - 1 /\ x = q * p + n
  BY Quotient
<1> HIDE DEF q, n
<1>2. (q - k) * p = r - n
  BY <1>1
<1>3. q - k >= 1 => (q - k) * p >= 1 * p
  BY <1>1
<1>4. q - k <= -1 => (q - k) * p <= (-1) * p
  BY <1>1
<1>5. q - k = 0
  BY <1>1, <1>2, <1>3, <1>4
<1>6. n = r
  BY <1>1, <1>2, <1>5
<1> QED BY <1>6 DEF n

\* The remainders that sums and differences of two remainders meet.
LEMMA NearRemainders ==
  ASSUME NEW p \in Int, p > 0, NEW x \in Int
  PROVE  /\ x \in 0 .. p - 1 => x % p = x
         /\ x \in p .. 2 * p - 1 => x % p = x - p
         /\ x \in -p .. -1 => x % p = x + p
<1>1. ASSUME x \in 0 .. p - 1 PROVE x % p = x
  <2>1. x = 0 * p + x
    OBVIOUS
  <2> QED BY <1>1, <2>1, Remainder
<1>2. ASSUME x \in p .. 2 * p - 1 PROVE x % p = x - p
  <2>1. x = 1 * p + (x - p) /\ x - p \in 0 .. p - 1 /\ 1 \in Int
    BY <1>2
  <2> QED BY <2>1, Remainder
<1>3. ASSUME x \in -p .. -1 PROVE x % p = x + p
  <2>1. x = (-1) * p + (x + p) /\ x + p \in 0 .. p - 1 /\ -1 \in Int
    BY <1>3
  <2> QED BY <2>1, Remainder
<1> QED BY <1>1, <1>2, <1>3

-----------------------------------------------------------------------------
(* Powers and remainders.                                                  *)

\* The positions of the bits of a double word.
Positions == 0 .. 2 * WordBits

LEMMA Powers ==
  ASSUME NEW i \in Positions
  PROVE  /\ modulus(i) \in Int /\ modulus(i) > 0 /\ modulus(0) = 1 /\ modulus(1) = 2
         /\ \A j \in Positions : i + j <= 2 * WordBits => modulus(i + j) = modulus(i) * modulus(j)
<1>1. modulus(i) \in Nat \ {0}
  BY PowersAssumption DEF modulus, Positions
<1>2. modulus(0) = 1 /\ modulus(1) = 2
  BY PowersAssumption DEF modulus
<1>3. \A j \in Positions : i + j <= 2 * WordBits => modulus(i + j) = modulus(i) * modulus(j)
  BY PowersAssumption DEF modulus, Positions
<1> QED BY <1>1, <1>2, <1>3

LEMMA Split ==
  ASSUME NEW i, NEW k \in Positions, i \in 0 .. k
  PROVE  /\ i \in Positions /\ k - i \in Positions /\ modulus(k) = modulus(i) * modulus(k - i)
         /\ modulus(i) \in Int /\ modulus(i) > 0 /\ modulus(k - i) \in Int /\ modulus(k - i) > 0
         /\ modulus(k) \in Int /\ modulus(k) > 0
<1>0. WordBits \in Nat
  BY PowersAssumption
<1>1. PICK j \in Positions : j = k - i
  BY <1>0 DEF Positions
<1>2. i \in Positions /\ i + j = k /\ k <= 2 * WordBits
  BY <1>0, <1>1 DEF Positions
<1>3. modulus(i + j) = modulus(i) * modulus(j)
  BY <1>2, Powers
<1>4. /\ modulus(i) \in Int /\ modulus(i) > 0 /\ modulus(j) \in Int /\ modulus(j) > 0
      /\ modulus(k) \in Int /\ modulus(k) > 0
  BY <1>2, Powers
<1> QED BY <1>1, <1>2, <1>3, <1>4

LEMMA Doubled ==
  ASSUME NEW n \in Positions, n >= 1
  PROVE  /\ n - 1 \in Positions /\ modulus(n - 1) \in Int /\ modulus(n - 1) > 0
         /\ modulus(n) = 2 * modulus(n - 1)
<1>0. WordBits \in Nat
  BY PowersAssumption
<1>1. n - 1 \in 0 .. n /\ n - (n - 1) = 1
  BY <1>0 DEF Positions
<1>2. /\ n - 1 \in Positions /\ modulus(n) = modulus(n - 1) * modulus(n - (n - 1))
      /\ modulus(n - 1) \in Int /\ modulus(n - 1) > 0
  BY <1>1, Split
<1>3. modulus(1) = 2
  BY <1>2, Powers
<1> QED BY <1>1, <1>2, <1>3

LEMMA WordFacts ==
  /\ WordBits \in Nat \ {0} /\ WordBits \in Positions /\ Word = modulus(WordBits)
  /\ Word \in Int /\ Word > 0
<1>1. WordBits \in Nat \ {0} /\ WordBits \in Positions
  BY PowersAssumption DEF Positions
<1> QED BY <1>1, Powers DEF Word

\* What a width is.
LEMMA Modulus ==
  ASSUME NEW w \in Widths
  PROVE  /\ modulus(w) \in Int /\ modulus(w) > 0
         /\ modulus(w) \div 2 \in Int /\ modulus(w) = 2 * (modulus(w) \div 2)
         /\ Word \in Int /\ modulus(w) <= Word
         /\ w # WordBits => 2 * modulus(w) <= Word
<1>1. WordBits \in Nat /\ WordBits \in Positions /\ w \in 1 .. WordBits /\ Word = modulus(WordBits)
  BY WidthsAssumption, WordFacts
<1>2. w \in 0 .. WordBits /\ w >= 1 /\ w \in Positions
  BY <1>1 DEF Positions
<1>3. PICK m \in Int, k \in Int : /\ m = modulus(w) /\ m > 0 /\ k = modulus(WordBits - w) /\ k > 0
                                  /\ Word = m * k
  BY <1>1, <1>2, Split
<1>4. PICK h \in Int : m = 2 * h
  BY <1>2, <1>3, Doubled
<1>5. m \div 2 = h
  BY <1>4
<1>6. m * k >= m * 1
  BY <1>3
<1>7. w # WordBits => 2 * m <= Word
  <2> SUFFICES ASSUME w # WordBits PROVE 2 * m <= Word
    OBVIOUS
  <2>1. PICK n \in Positions : n = WordBits - w /\ n >= 1
    BY <1>1 DEF Positions
  <2>2. PICK g \in Int : g > 0 /\ k = 2 * g
    BY <1>3, <2>1, Doubled
  <2>3. m * k = 2 * (m * g) /\ m * g >= m * 1
    BY <1>3, <2>2
  <2> QED BY <1>3, <2>3
<1> QED BY <1>3, <1>4, <1>5, <1>6, <1>7, WordFacts

\* A double-width number of bytes is a word.
LEMMA TwoBytes ==
  ASSUME NEW w, w = ByteBits
  PROVE  2 * w \in Widths /\ modulus(2 * w) = modulus(w) * modulus(w)
<1>1. w \in 1 .. WordBits /\ 2 * w \in Widths /\ WordBits \in Nat
  BY WidthsAssumption, WordFacts
<1>2. w \in Positions /\ w + w <= 2 * WordBits /\ 2 * w = w + w
  BY <1>1 DEF Positions
<1>3. modulus(w + w) = modulus(w) * modulus(w)
  BY <1>2, Powers
<1> QED BY <1>1, <1>2, <1>3

\* A register write is read back at its width.
LEMMA WriteRead ==
  ASSUME NEW w \in Widths, NEW old \in Int, NEW v \in Int
  PROVE  write_gpr(old, v, w) \in Int /\ write_gpr(old, v, w) % modulus(w) = v % modulus(w)
<1>0. PICK m \in Int : m = modulus(w) /\ m > 0
  BY Modulus
<1>1. PICK r \in 0 .. m - 1 : r = v % m
  BY <1>0, Quotient
<1>2. write_gpr(old, v, w) = r + (IF w >= LongBits THEN 0 ELSE old - (old % m))
  BY <1>0, <1>1 DEF write_gpr
<1>3. old \div m \in Int /\ old - (old % m) = (old \div m) * m
  BY <1>0, Quotient
<1>4. PICK k \in Int : write_gpr(old, v, w) = k * m + r
  <2>1. CASE w >= LongBits
    <3>1. write_gpr(old, v, w) = 0 * m + r
      BY <1>0, <1>2, <2>1
    <3> QED BY <3>1
  <2>2. CASE ~(w >= LongBits)
    <3>1. write_gpr(old, v, w) = (old \div m) * m + r
      BY <1>0, <1>2, <1>3, <2>2
    <3> QED BY <1>3, <3>1
  <2> QED BY <2>1, <2>2
<1>5. PICK x \in Int : x = write_gpr(old, v, w)
  BY <1>0, <1>4
<1>6. x % m = r
  BY <1>0, <1>4, <1>5, Remainder
<1> QED BY <1>0, <1>1, <1>5, <1>6

\* The signed reading of a remainder.
LEMMA SignedValue ==
  ASSUME NEW m \in Int, m > 0, NEW v \in Int
  PROVE  /\ Signed(v, m) = (v % m) - (IF v % m >= m \div 2 THEN m ELSE 0)
         /\ Negative(v, m) <=> v % m >= m \div 2
         /\ v % m \in 0 .. m - 1
BY Quotient DEF Signed, Negative

LEMMA FlagFields ==
  ASSUME NEW result, NEW m, NEW cf \in BOOLEAN, NEW of \in BOOLEAN
  PROVE  LET f == result_flags(result, m, cf, of)
         IN  /\ f.CF <=> cf
             /\ f.OF <=> of
             /\ f.ZF <=> result % m = 0
             /\ f.SF <=> Negative(result, m)
BY DEF result_flags

\* The carry flag counts the words that a sum has lost.
Exactly(l, r, m, c, result, f) ==
  /\ result \in 0 .. m - 1
  /\ (l % m) - (r % m) - c = result - m * Carry(f)
  /\ f.OF <=> Signed(l, m) - Signed(r, m) - c # Signed(result, m)
  /\ f.CF <=> l % m < (r % m) + c
  /\ f.ZF <=> result = 0
  /\ f.SF <=> result >= m \div 2

LEMMA SubExact ==
  ASSUME NEW w \in Widths, NEW l \in Int, NEW r \in Int, NEW c \in {0, 1},
         c = 0 \/ w # WordBits
  PROVE  LET s == sub(l, r, modulus(w), c)
         IN  Exactly(l, r, modulus(w), c, s.result, s.flags)
<1>0. PICK m \in Int : m = modulus(w)
  BY Modulus
<1>1. PICK h \in Int : h = m \div 2
  BY <1>0, Modulus
<1>2. m > 0 /\ m = 2 * h /\ Word \in Int /\ m <= Word /\ (c # 0 => 2 * m <= Word)
  BY <1>0, <1>1, Modulus
<1>3. PICK a \in 0 .. m - 1 : a = l % m
  BY <1>2, Quotient
<1>4. PICK b \in 0 .. m - 1 : b = r % m
  BY <1>2, Quotient
<1>5. u64(b + c) = b + c
  <2>1. b + c \in 0 .. Word - 1
    BY <1>2
  <2> QED BY <1>2, <2>1, NearRemainders DEF u64
<1>6. PICK d \in Int : d = (a - (b + c)) % m
  BY <1>2
<1>7. d = (IF a < b + c THEN a - b - c + m ELSE a - b - c) /\ d \in 0 .. m - 1
  <2>1. CASE a < b + c
    <3>1. a - (b + c) \in -m .. -1
      BY <1>2, <2>1
    <3>2. d = a - (b + c) + m
      BY <1>2, <1>6, <3>1, NearRemainders
    <3> QED BY <1>2, <2>1, <3>1, <3>2
  <2>2. CASE ~(a < b + c)
    <3>1. a - (b + c) \in 0 .. m - 1
      BY <1>2, <2>2
    <3>2. d = a - (b + c)
      BY <1>2, <1>6, <3>1, NearRemainders
    <3> QED BY <1>2, <2>2, <3>1, <3>2
  <2> QED BY <2>1, <2>2
<1>8. d % m = d
  BY <1>2, <1>7, NearRemainders
<1>9. PICK f : f = result_flags(d, m, a < b + c, SubOverflow(l, r, d, m))
  OBVIOUS
<1>a. PICK cf \in BOOLEAN : cf = (a < b + c)
  <2>1. CASE a < b + c
    <3>1. (a < b + c) = TRUE
      BY <2>1
    <3> QED BY <3>1, Zenon
  <2>2. CASE ~(a < b + c)
    <3>1. (a < b + c) = FALSE
      BY <2>2
    <3> QED BY <3>1, Zenon
  <2> QED BY <2>1, <2>2, Zenon
<1>b. PICK of \in BOOLEAN : of = SubOverflow(l, r, d, m)
  BY DEF SubOverflow
<1>c. f = result_flags(d, m, cf, of)
  BY <1>9, <1>a, <1>b, Zenon
<1>10. /\ sub(l, r, m, c).result = d
       /\ sub(l, r, m, c).flags = f
  BY <1>3, <1>4, <1>5, <1>6, <1>9 DEF sub
<1>11. /\ f.CF <=> a < b + c
       /\ f.OF <=> SubOverflow(l, r, d, m)
       /\ f.ZF <=> d = 0
       /\ f.SF <=> d >= h
  <2>1. (f.CF <=> cf) /\ (f.OF <=> of) /\ (f.ZF <=> d % m = 0) /\ (f.SF <=> Negative(d, m))
    BY <1>c, FlagFields
  <2>2. Negative(d, m) <=> d >= h
    BY <1>1, <1>2, <1>8, SignedValue
  <2> QED BY <1>8, <1>a, <1>b, <2>1, <2>2
<1>12. /\ Signed(l, m) = a - (IF a >= h THEN m ELSE 0)
       /\ Signed(r, m) = b - (IF b >= h THEN m ELSE 0)
       /\ Signed(d, m) = d - (IF d >= h THEN m ELSE 0)
  BY <1>1, <1>2, <1>3, <1>4, <1>8, SignedValue
<1>13. SubOverflow(l, r, d, m) <=> ~(a >= h <=> b >= h) /\ ~(a >= h <=> d >= h)
  <2>1. (Negative(l, m) <=> a >= h) /\ (Negative(r, m) <=> b >= h) /\ (Negative(d, m) <=> d >= h)
    BY <1>1, <1>2, <1>3, <1>4, <1>8, SignedValue
  <2>2. /\ (Negative(l, m) = Negative(r, m)) <=> (a >= h <=> b >= h)
        /\ (Negative(l, m) = Negative(d, m)) <=> (a >= h <=> d >= h)
    <3>1. Negative(l, m) \in BOOLEAN /\ Negative(r, m) \in BOOLEAN /\ Negative(d, m) \in BOOLEAN
      BY DEF Negative
    <3> QED BY <2>1, <3>1, Zenon
  <2> QED BY <2>2, Zenon DEF SubOverflow
<1>14. f.OF <=> Signed(l, m) - Signed(r, m) - c # Signed(d, m)
  BY <1>2, <1>7, <1>11, <1>12, <1>13
<1>15. a - b - c = d - m * Carry(f)
  BY <1>2, <1>7, <1>11 DEF Carry
<1>16. Exactly(l, r, m, c, d, f)
  BY <1>1, <1>3, <1>4, <1>7, <1>11, <1>14, <1>15 DEF Exactly
<1> QED BY <1>0, <1>10, <1>16

\* A sum at a width narrower than u64.
Summed(l, r, m, c, result, f) ==
  /\ result \in 0 .. m - 1
  /\ (l % m) + (r % m) + c = result + m * Carry(f)
  /\ f.OF <=> Signed(l, m) + Signed(r, m) + c # Signed(result, m)

LEMMA AddExact ==
  ASSUME NEW w \in Widths, w # WordBits, NEW l \in Int, NEW r \in Int, NEW c \in {0, 1}
  PROVE  LET s == add(l, r, modulus(w), c)
         IN  Summed(l, r, modulus(w), c, s.result, s.flags)
<1>0. PICK m \in Int : m = modulus(w)
  BY Modulus
<1>1. PICK h \in Int : h = m \div 2
  BY <1>0, Modulus
<1>2. m > 0 /\ m = 2 * h /\ Word \in Int /\ 2 * m <= Word
  BY <1>0, <1>1, Modulus
<1>3. PICK a \in 0 .. m - 1 : a = l % m
  BY <1>2, Quotient
<1>4. PICK b \in 0 .. m - 1 : b = r % m
  BY <1>2, Quotient
<1>5. u64(a + b + c) = a + b + c
  <2>1. a + b + c \in 0 .. Word - 1
    BY <1>2
  <2> QED BY <1>2, <2>1, NearRemainders DEF u64
<1>6. PICK d \in Int : d = (a + b + c) % m
  BY <1>2
<1>7. d = (IF a + b + c > m - 1 THEN a + b + c - m ELSE a + b + c) /\ d \in 0 .. m - 1
  <2>1. CASE a + b + c > m - 1
    <3>1. a + b + c \in m .. 2 * m - 1
      BY <1>2, <2>1
    <3>2. d = a + b + c - m
      BY <1>2, <1>6, <3>1, NearRemainders
    <3> QED BY <1>2, <2>1, <3>1, <3>2
  <2>2. CASE ~(a + b + c > m - 1)
    <3>1. a + b + c \in 0 .. m - 1
      BY <1>2, <2>2
    <3>2. d = a + b + c
      BY <1>2, <1>6, <3>1, NearRemainders
    <3> QED BY <1>2, <2>2, <3>1, <3>2
  <2> QED BY <2>1, <2>2
<1>8. d % m = d
  BY <1>2, <1>7, NearRemainders
<1> DEFINE overflow == /\ Negative(l, m) = Negative(r, m)
                       /\ Negative(l, m) # Negative(d, m)
<1>9. PICK full \in Int : full = a + b + c
  BY <1>2
<1>a. PICK cf \in BOOLEAN : cf = CarryOut(full, m)
  <2>1. CASE full > m - 1
    <3>1. (full > m - 1) = TRUE
      BY <2>1
    <3> QED BY <3>1, Zenon DEF CarryOut
  <2>2. CASE ~(full > m - 1)
    <3>1. (full > m - 1) = FALSE
      BY <2>2
    <3> QED BY <3>1, Zenon DEF CarryOut
  <2> QED BY <2>1, <2>2, Zenon
<1>b. PICK of \in BOOLEAN : of = overflow
  BY Zenon
<1>c. cf <=> a + b + c > m - 1
  BY <1>9, <1>a DEF CarryOut
<1>10. PICK f : f = result_flags(d, m, cf, of)
  OBVIOUS
<1>11. add(l, r, m, c) = [result |-> d, flags |-> f]
  <2>1. u64((l % m) + (r % m) + c) = full /\ full % m = d
    BY <1>3, <1>4, <1>5, <1>6, <1>9
  <2> QED BY <1>a, <1>b, <1>10, <2>1, Zenon DEF add
<1>12. (f.CF <=> cf) /\ (f.OF <=> of)
  BY <1>10, FlagFields
<1>13. /\ Signed(l, m) = a - (IF a >= h THEN m ELSE 0)
       /\ Signed(r, m) = b - (IF b >= h THEN m ELSE 0)
       /\ Signed(d, m) = d - (IF d >= h THEN m ELSE 0)
  BY <1>1, <1>2, <1>3, <1>4, <1>8, SignedValue
<1>14. of <=> (a >= h <=> b >= h) /\ ~(a >= h <=> d >= h)
  <2>1. (Negative(l, m) <=> a >= h) /\ (Negative(r, m) <=> b >= h) /\ (Negative(d, m) <=> d >= h)
    BY <1>1, <1>2, <1>3, <1>4, <1>8, SignedValue
  <2>2. /\ (Negative(l, m) = Negative(r, m)) <=> (a >= h <=> b >= h)
        /\ (Negative(l, m) = Negative(d, m)) <=> (a >= h <=> d >= h)
    <3>1. Negative(l, m) \in BOOLEAN /\ Negative(r, m) \in BOOLEAN /\ Negative(d, m) \in BOOLEAN
      BY DEF Negative
    <3> QED BY <2>1, <3>1, Zenon
  <2> QED BY <1>b, <2>2, Zenon
<1> HIDE DEF overflow
<1>15. f.OF <=> Signed(l, m) + Signed(r, m) + c # Signed(d, m)
  BY <1>2, <1>7, <1>12, <1>13, <1>14
<1>16. a + b + c = d + m * Carry(f)
  BY <1>2, <1>7, <1>12, <1>c DEF Carry
<1>17. Summed(l, r, m, c, d, f)
  BY <1>3, <1>4, <1>7, <1>15, <1>16 DEF Summed
<1> QED BY <1>0, <1>11, <1>17

\* The conditions after a subtraction without borrow.
Compares(l, r, m, f) ==
  /\ condition(2, f) <=> l % m < r % m
  /\ condition(6, f) <=> l % m <= r % m
  /\ condition(4, f) <=> l % m = r % m
  /\ condition(12, f) <=> Signed(l, m) < Signed(r, m)
  /\ condition(14, f) <=> Signed(l, m) <= Signed(r, m)

LEMMA SubCompares ==
  ASSUME NEW w \in Widths, NEW l \in Int, NEW r \in Int, NEW result, NEW f \in Flags,
         Exactly(l, r, modulus(w), 0, result, f)
  PROVE  Compares(l, r, modulus(w), f)
<1>0. PICK m \in Int : m = modulus(w)
  BY Modulus
<1>1. PICK h \in Int : h = m \div 2
  BY <1>0, Modulus
<1>2. m > 0 /\ m = 2 * h
  BY <1>0, <1>1, Modulus
<1>3. PICK a \in 0 .. m - 1 : a = l % m
  BY <1>2, Quotient
<1>4. PICK b \in 0 .. m - 1 : b = r % m
  BY <1>2, Quotient
<1>5. PICK d \in 0 .. m - 1 : d = result
  BY <1>0 DEF Exactly
<1>6. d % m = d /\ d \in Int
  BY <1>2, NearRemainders
<1>7. /\ Signed(l, m) = a - (IF a >= h THEN m ELSE 0)
      /\ Signed(r, m) = b - (IF b >= h THEN m ELSE 0)
      /\ Signed(d, m) = d - (IF d >= h THEN m ELSE 0)
  BY <1>1, <1>2, <1>3, <1>4, <1>6, SignedValue
<1>8. /\ f.OF <=> Signed(l, m) - Signed(r, m) # Signed(d, m)
      /\ f.CF <=> a < b
      /\ f.ZF <=> d = 0
      /\ f.SF <=> d >= h
      /\ a - b = d - m * Carry(f)
  BY <1>0, <1>1, <1>3, <1>4, <1>5, <1>7 DEF Exactly
<1>9. d = IF a < b THEN a - b + m ELSE a - b
  BY <1>2, <1>8 DEF Carry
<1>10. f.CF \in BOOLEAN /\ f.ZF \in BOOLEAN /\ f.SF \in BOOLEAN /\ f.OF \in BOOLEAN
  BY DEF Flags
<1>11. /\ condition(2, f) = f.CF
       /\ condition(6, f) = (f.CF \/ f.ZF)
       /\ condition(4, f) = f.ZF
       /\ condition(12, f) = (f.SF # f.OF)
       /\ condition(14, f) = (f.ZF \/ f.SF # f.OF)
  BY DEF condition
<1>12. /\ condition(2, f) <=> f.CF
       /\ condition(6, f) <=> f.CF \/ f.ZF
       /\ condition(4, f) <=> f.ZF
       /\ condition(12, f) <=> ~(f.SF <=> f.OF)
       /\ condition(14, f) <=> f.ZF \/ ~(f.SF <=> f.OF)
  BY <1>10, <1>11, Zenon
<1>13. ~(f.SF <=> f.OF) <=> Signed(l, m) < Signed(r, m)
  BY <1>2, <1>7, <1>8, <1>9
<1>14. f.ZF <=> a = b
  BY <1>2, <1>8, <1>9
<1>15. Signed(l, m) = Signed(r, m) <=> a = b
  BY <1>2, <1>7
<1>16. Signed(l, m) \in Int /\ Signed(r, m) \in Int
  BY <1>2, <1>7
<1>17. a <= b <=> a < b \/ a = b
  BY <1>2
<1>18. Signed(l, m) <= Signed(r, m) <=> a = b \/ Signed(l, m) < Signed(r, m)
  BY <1>15, <1>16
<1>19. (f.CF <=> a < b) /\ (f.ZF <=> a = b)
  BY <1>8, <1>14
<1>20. /\ condition(2, f) <=> a < b
       /\ condition(6, f) <=> a <= b
       /\ condition(4, f) <=> a = b
  BY <1>12, <1>17, <1>19, Zenon
<1>21. /\ condition(12, f) <=> Signed(l, m) < Signed(r, m)
       /\ condition(14, f) <=> Signed(l, m) <= Signed(r, m)
  BY <1>12, <1>13, <1>18, <1>19, Zenon
<1> QED BY <1>0, <1>3, <1>4, <1>20, <1>21, Zenon DEF Compares

-----------------------------------------------------------------------------
(* Products and quotients.                                                 *)

\* There is only one quotient.
LEMMA Division ==
  ASSUME NEW x \in Int, NEW p \in Int, p > 0, NEW k \in Int, NEW r \in 0 .. p - 1,
         x = k * p + r
  PROVE  x % p = r /\ x \div p = k
<1>1. x % p = r
  BY Remainder
<1>2. PICK q \in Int : q = x \div p /\ x = q * p + r
  BY <1>1, Quotient
<1>3. (q - k) * p = 0
  BY <1>2
<1>4. q - k >= 1 => (q - k) * p >= 1 * p
  BY <1>2
<1>5. q - k <= -1 => (q - k) * p <= (-1) * p
  BY <1>2
<1>6. q = k
  BY <1>2, <1>3, <1>4, <1>5
<1> QED BY <1>1, <1>2, <1>6

\* A number in the signed range is the signed reading of everything congruent to it.
LEMMA SignedUnique ==
  ASSUME NEW m \in Int, NEW h \in Int, h > 0, m = 2 * h, NEW n \in -h .. h - 1,
         NEW v \in Int, NEW k \in Int, v = k * m + n
  PROVE  Signed(v, m) = n
<1>0. m > 0 /\ m \div 2 = h
  OBVIOUS
<1>1. Signed(v, m) = (v % m) - (IF v % m >= h THEN m ELSE 0)
  BY <1>0, SignedValue
<1>2. CASE n >= 0
  <2>1. n \in 0 .. m - 1
    BY <1>0, <1>2
  <2>2. v % m = n
    BY <1>0, <2>1, Remainder
  <2> QED BY <1>0, <1>1, <2>2
<1>3. CASE n < 0
  <2>1. PICK r \in 0 .. m - 1 : r = n + m /\ r >= h
    BY <1>0, <1>3
  <2>2. PICK j \in Int : j = k - 1
    OBVIOUS
  <2>3. v = j * m + r
    BY <1>0, <2>1, <2>2
  <2>4. v % m = r
    BY <1>0, <2>3, Remainder
  <2> QED BY <1>0, <1>1, <2>1, <2>4
<1> QED BY <1>2, <1>3

\* Two halves make a double-width number.
LEMMA Halves ==
  ASSUME NEW m \in Int, m > 0, NEW low \in 0 .. m - 1, NEW high \in 0 .. m - 1
  PROVE  /\ low + m * high \in 0 .. (m * m) - 1
         /\ (low + m * high) % m = low /\ (low + m * high) \div m = high
<1>1. PICK x \in Int : x = low + m * high /\ x = high * m + low
  OBVIOUS
<1>2. x % m = low /\ x \div m = high
  BY <1>1, Division
<1>3. m * high >= 0 /\ m * high <= m * (m - 1) /\ m * (m - 1) = m * m - m
  OBVIOUS
<1> QED BY <1>1, <1>2, <1>3

\* What WritePair leaves is read back by Pair, packed in AX or in two registers.
LEMMA PairRead ==
  ASSUME NEW w \in Widths, NEW low \in Int, NEW high \in Int, rax \in Int, rdx \in Int,
         WritePair(low, high, w)
  PROVE  LET m == modulus(w)
         IN  /\ Pair(rax', rdx', w) = (low % m) + m * (high % m)
             /\ rax' % m = low % m
<1>0. PICK m \in Int : m = modulus(w) /\ m > 0
  BY Modulus
<1>1. PICK l \in 0 .. m - 1, u \in 0 .. m - 1 : l = low % m /\ u = high % m
  BY <1>0, Quotient
<1>2. PICK a \in Int, d \in Int : a = rax /\ d = rdx
  OBVIOUS
<1>3. CASE w = ByteBits
  <2>1. PICK p \in Int : p = l + m * u
    BY <1>0
  <2>2. p \in 0 .. (m * m) - 1 /\ m * m \in Int /\ m * m > 0
    BY <1>0, <2>1, Halves
  <2>3. 2 * w \in Widths /\ modulus(2 * w) = m * m
    BY <1>0, <1>3, TwoBytes
  <2>4. rax' = write_gpr(a, p, 2 * w)
    BY <1>0, <1>1, <1>2, <1>3, <2>1 DEF WritePair
  <2>5. PICK x \in Int : x = rax' /\ x % (m * m) = p % (m * m)
    BY <2>3, <2>4, WriteRead
  <2>6. p % (m * m) = p
    BY <2>2, NearRemainders
  <2>7. PICK k \in Int : x = k * (m * m) + p
    <3>1. PICK mm \in Int : mm = m * m
      BY <2>2
    <3>2. x \div mm \in Int /\ x = (x \div mm) * mm + (x % mm)
      BY <2>2, <3>1, Quotient
    <3> QED BY <2>5, <2>6, <3>1, <3>2
  <2>8. x = (k * m + u) * m + l /\ k * m + u \in Int
    BY <1>0, <2>1, <2>7
  <2>9. x % m = l
    BY <1>0, <2>8, Remainder
  <2>10. Pair(rax', rdx', w) = rax' % modulus(2 * w)
    BY <1>3 DEF Pair
  <2> QED BY <1>0, <1>1, <2>1, <2>3, <2>5, <2>6, <2>9, <2>10
<1>4. CASE w # ByteBits
  <2>1. rax' = write_gpr(a, low, w) /\ rdx' = write_gpr(d, high, w)
    BY <1>2, <1>4 DEF WritePair
  <2>2. rax' % m = l /\ rdx' % m = u
    BY <1>0, <1>1, <2>1, WriteRead
  <2> QED BY <1>0, <1>1, <1>4, <2>2 DEF Pair
<1> QED BY <1>3, <1>4

Congruent(a, b, m) == \E k \in Int : a = k * m + b

\* A double-width number is taken apart and put together again.
LEMMA Together ==
  ASSUME NEW m \in Int, m > 0, NEW n \in Int
  PROVE  LET p == (n % m) + m * ((n \div m) % m)
         IN  /\ p \in 0 .. (m * m) - 1 /\ p % m = n % m
             /\ Congruent(p, n, m * m)
             /\ n \in 0 .. (m * m) - 1 => p = n
<1>1. PICK l \in 0 .. m - 1, q \in Int : l = n % m /\ q = n \div m /\ n = q * m + l
  BY Quotient
<1>2. PICK u \in 0 .. m - 1, k \in Int : u = q % m /\ k = q \div m /\ q = k * m + u
  BY Quotient
<1>3. PICK p \in Int : p = l + m * u
  OBVIOUS
<1>4. p \in 0 .. (m * m) - 1 /\ p % m = l
  BY <1>3, Halves
<1>5. n = k * (m * m) + p
  BY <1>1, <1>2, <1>3
<1>6. p = (-k) * (m * m) + n /\ -k \in Int
  BY <1>1, <1>5
<1>7. PICK mm \in Int : mm = m * m /\ mm > 0
  OBVIOUS
<1>8. ASSUME n \in 0 .. mm - 1 PROVE p = n
  <2>1. n = k * mm + p /\ p \in 0 .. mm - 1
    BY <1>4, <1>5, <1>7
  <2>2. n % mm = p
    BY <1>7, <2>1, Remainder
  <2>3. n % mm = n
    BY <1>7, <1>8, NearRemainders
  <2> QED BY <2>2, <2>3
<1>9. Congruent(p, n, m * m)
  BY <1>6 DEF Congruent
<1> QED BY <1>1, <1>2, <1>3, <1>4, <1>7, <1>8, <1>9

LEMMA SignedSelf ==
  ASSUME NEW m \in Int, NEW h \in Int, h > 0, m = 2 * h, NEW n \in -h .. h - 1
  PROVE  Signed(n, m) = n
<1>0. m > 0 /\ m \div 2 = h /\ n \in Int
  OBVIOUS
<1>1. Signed(n, m) = (n % m) - (IF n % m >= h THEN m ELSE 0)
  BY <1>0, SignedValue
<1>2. (n >= 0 => n % m = n) /\ (n < 0 => n % m = n + m)
  BY <1>0, NearRemainders
<1> QED BY <1>0, <1>1, <1>2

LEMMA MulRange ==
  ASSUME NEW m \in Int, m > 0, NEW x \in 0 .. m - 1, NEW y \in 0 .. m - 1
  PROVE  /\ x * y \in 0 .. (m * m) - 1
         /\ (x * y) \div m # 0 <=> x * y >= m
<1>1. x * y >= 0
  OBVIOUS
<1>2. x * y <= (m - 1) * y /\ (m - 1) * y <= (m - 1) * m
  OBVIOUS
<1>3. (m - 1) * m = m * m - m
  OBVIOUS
<1>4. PICK n \in Int : n = x * y
  OBVIOUS
<1>5. n \in 0 .. (m * m) - 1
  BY <1>1, <1>2, <1>3, <1>4
<1>6. PICK q \in Int, r \in 0 .. m - 1 : q = n \div m /\ n = q * m + r
  BY Quotient
<1>7. q >= 1 => q * m >= 1 * m
  BY <1>6
<1>8. q <= -1 => q * m <= (-1) * m
  BY <1>6
<1>9. q # 0 <=> n >= m
  BY <1>5, <1>6, <1>7, <1>8
<1> QED BY <1>4, <1>5, <1>6, <1>9

LEMMA ImulRange ==
  ASSUME NEW h \in Int, h > 0, NEW x \in -h .. h - 1, NEW y \in -h .. h - 1
  PROVE  x * y \in -(2 * (h * h)) .. 2 * (h * h) - 1
<1>1. (h - x) * (h + y) >= 0 /\ (h + x) * (h - y) >= 0
  OBVIOUS
<1>2. (h - x) * (h - y) >= 0 /\ (h + x) * (h + y) >= 0
  OBVIOUS
<1>3. /\ (h - x) * (h + y) = h * h + h * y - h * x - x * y
      /\ (h + x) * (h - y) = h * h - h * y + h * x - x * y
      /\ (h - x) * (h - y) = h * h - h * y - h * x + x * y
      /\ (h + x) * (h + y) = h * h + h * y + h * x + x * y
  OBVIOUS
<1>4. PICK n \in Int, hh \in Int, hx \in Int, hy \in Int :
        n = x * y /\ hh = h * h /\ hx = h * x /\ hy = h * y
  OBVIOUS
<1>5. n <= hh /\ n >= -hh
  BY <1>1, <1>2, <1>3, <1>4
<1>6. hh > 0
  BY <1>4
<1> QED BY <1>4, <1>5, <1>6

\* Signed readings are in the signed range.
LEMMA SignedRange ==
  ASSUME NEW m \in Int, NEW h \in Int, h > 0, m = 2 * h, NEW v \in Int
  PROVE  Signed(v, m) \in -h .. h - 1 /\ \E k \in Int : v = k * m + Signed(v, m)
<1>0. m > 0 /\ m \div 2 = h
  OBVIOUS
<1>1. PICK r \in 0 .. m - 1, q \in Int : r = v % m /\ q = v \div m /\ v = q * m + r
  BY <1>0, Quotient
<1>2. Signed(v, m) = r - (IF r >= h THEN m ELSE 0)
  BY <1>0, <1>1, SignedValue
<1>3. CASE r >= h
  <2>1. Signed(v, m) = r - m
    BY <1>2, <1>3
  <2>2. PICK j \in Int : j = q + 1
    OBVIOUS
  <2>3. v = j * m + (r - m)
    BY <1>0, <1>1, <2>2
  <2>4. PICK s \in Int : s = r - m
    BY <1>1
  <2>5. s \in -h .. h - 1 /\ v = j * m + s /\ Signed(v, m) = s
    BY <1>0, <1>1, <1>3, <2>1, <2>3, <2>4
  <2> QED BY <2>5
<1>4. CASE r < h
  <2>1. Signed(v, m) = r /\ r \in -h .. h - 1
    BY <1>0, <1>1, <1>2, <1>4
  <2> QED BY <1>1, <2>1
<1> QED BY <1>3, <1>4

\* The absolute value, and the square as a comparison of absolute values.
Abs(x) == IF x < 0 THEN -x ELSE x

LEMMA Squares ==
  ASSUME NEW s \in Int, NEW d \in Int
  PROVE  s * s < d * d <=> Abs(s) < Abs(d)
<1>1. PICK a \in Nat, b \in Nat : a = Abs(s) /\ b = Abs(d)
  BY DEF Abs
<1>2. s * s = a * a /\ d * d = b * b
  BY <1>1 DEF Abs
<1>3. a < b => a * a < b * b
  <2>1. a < b => a * a <= a * b
    OBVIOUS
  <2>2. a < b => a * b < b * b
    OBVIOUS
  <2>3. a * a \in Int /\ a * b \in Int /\ b * b \in Int
    OBVIOUS
  <2> QED BY <2>1, <2>2, <2>3
<1>4. b <= a => b * b <= a * a
  <2>1. b <= a => b * b <= b * a
    OBVIOUS
  <2>2. b <= a => b * a <= a * a
    OBVIOUS
  <2>3. a * a \in Int /\ b * a \in Int /\ b * b \in Int
    OBVIOUS
  <2> QED BY <2>1, <2>2, <2>3
<1>5. a * a \in Int /\ b * b \in Int
  OBVIOUS
<1> QED BY <1>1, <1>2, <1>3, <1>4, <1>5

\* Division as the processor means it: the remainder has the sign of the dividend.
Truncates(n, d, q, r) ==
  /\ n = q * d + r
  /\ Abs(r) < Abs(d)
  /\ r = 0 \/ (r < 0 <=> n < 0)

LEMMA TruncatedDivides ==
  ASSUME NEW n \in Int, NEW d \in Int, d # 0
  PROVE  /\ Truncated(n, d) \in Int
         /\ Truncates(n, d, Truncated(n, d), n - Truncated(n, d) * d)
<1>1. PICK a \in Int, b \in Int : a = Abs(n) /\ b = Abs(d) /\ b > 0
  BY DEF Abs
<1>2. PICK q \in Int, r \in 0 .. b - 1 : q = a \div b /\ r = a % b /\ a = q * b + r
  <2>1. /\ a \div b \in Int /\ a % b \in 0 .. b - 1
        /\ a = (a \div b) * b + (a % b)
    BY <1>1, Quotient
  <2> QED BY <2>1
<1>3. PICK t \in Int : t = IF (n < 0 <=> d < 0) THEN q ELSE -q
  OBVIOUS
<1>4. Truncated(n, d) = t
  <2>1. ((n < 0) = (d < 0)) <=> (n < 0 <=> d < 0)
    OBVIOUS
  <2>2. Truncated(n, d) = IF (n < 0) = (d < 0) THEN a \div b ELSE -(a \div b)
    BY <1>1 DEF Truncated, Abs
  <2> QED BY <1>2, <1>3, <2>1, <2>2
<1>5. t * d = IF n < 0 THEN -(q * b) ELSE q * b
  BY <1>1, <1>3 DEF Abs
<1>6. PICK e \in Int : e = q * b
  OBVIOUS
<1>7. n - t * d = IF n < 0 THEN -r ELSE r
  BY <1>1, <1>2, <1>5, <1>6 DEF Abs
<1>8. PICK s \in Int, g \in Int : g = t * d /\ s = n - g
  OBVIOUS
<1>9. n = t * d + s
  BY <1>8
<1>10. Abs(s) < Abs(d) /\ (s = 0 \/ (s < 0 <=> n < 0))
  BY <1>1, <1>7, <1>8 DEF Abs
<1> QED BY <1>4, <1>8, <1>9, <1>10 DEF Truncates

LEMMA TruncatedUnique ==
  ASSUME NEW n \in Int, NEW d \in Int, NEW p \in Int, NEW s \in Int, NEW q \in Int,
         NEW r \in Int, Truncates(n, d, p, s), Truncates(n, d, q, r)
  PROVE  p = q
<1>1. PICK b \in Nat : b = Abs(d)
  BY DEF Abs
<1>2. PICK c \in Int : c = (p - q) * d
  OBVIOUS
<1>3. c = r - s
  BY <1>2 DEF Truncates
<1>4. c < b /\ c > -b
  BY <1>1, <1>3 DEF Truncates, Abs
<1>5. PICK k \in Int : k = p - q /\ c = k * d
  BY <1>2
<1>6. k >= 1 => k * b >= 1 * b
  BY <1>1
<1>7. k <= -1 => k * b <= (-1) * b
  BY <1>1
<1>8. c = k * b \/ c = -(k * b)
  BY <1>1, <1>5 DEF Abs
<1>9. k = 0
  BY <1>1, <1>4, <1>6, <1>7, <1>8
<1> QED BY <1>5, <1>9

-----------------------------------------------------------------------------
(* The invariant: an instruction begins with integers in its registers, and *)
(* leaves an exact result.                                                 *)

Ready == rax \in Int /\ rdx \in Int /\ opnd \in Int /\ flags \in Flags /\ fault = FALSE

IInv ==
  /\ ins.op = "none" => Ready
  /\ ConditionsAreComparisons
  /\ NarrowSumsAreExact
  /\ ProductsAndQuotientsAreExact

Sums == {"add", "adc", "sub", "sbb"}
Comparisons == {"sub", "cmp"}
Products == {"mul", "imul", "div", "idiv"}

LEMMA Fetched ==
  ASSUME NEW op, NEW w, NEW count, Fetch(op, w, count)
  PROVE  /\ ins.op = "none" /\ ins'.op = op /\ ins'.w = w
         /\ ins'.rax = rax /\ ins'.rdx = rdx /\ ins'.opnd = opnd /\ ins'.flags = flags
BY DEF Fetch

\* Only the operations of execute_alu add or subtract into RAX, or compare.
LEMMA Instructions ==
  ASSUME Next
  PROVE  /\ ins'.op # "none" /\ ins.op = "none"
         /\ \/ \E w \in Widths, op \in AluOperations : Fetch(op, w, 0) /\ execute_alu(op, w)
            \/ \E w \in Widths, op \in {"mul", "imul"} : Fetch(op, w, 0) /\ execute_mul(op, w)
            \/ \E w \in Widths, op \in {"div", "idiv"} : Fetch(op, w, 0) /\ execute_div(op, w)
            \/ ins'.op \notin Sums \cup Comparisons \cup Products
<1> USE DEF Sums, Comparisons, Products
<1>1. PICK w \in Widths :
        \/ \E op \in AluOperations : Fetch(op, w, 0) /\ execute_alu(op, w)
        \/ \E op \in {"mul", "imul"} : Fetch(op, w, 0) /\ execute_mul(op, w)
        \/ \E op \in {"div", "idiv"} : Fetch(op, w, 0) /\ execute_div(op, w)
        \/ \E op \in {"inc", "dec", "test", "not", "neg", "rol", "ror",
                      "shl", "shr", "sar", "shld", "shrd", "bt", "bts", "btr", "btc",
                      "bsf", "bsr", "imul2", "imul3", "cmpxchg", "xadd", "movzx", "movsx",
                      "cdqe", "cqo", "set", "cmov", "clc"} : \E count : Fetch(op, w, count)
  BY DEF Next
<1>2. CASE \E op \in AluOperations : Fetch(op, w, 0) /\ execute_alu(op, w)
  BY <1>2, Fetched DEF AluOperations
<1>3. CASE \E op \in {"inc", "dec", "test", "not", "neg", "rol", "ror",
                      "shl", "shr", "sar", "shld", "shrd", "bt", "bts", "btr", "btc",
                      "bsf", "bsr", "imul2", "imul3", "cmpxchg", "xadd", "movzx", "movsx",
                      "cdqe", "cqo", "set", "cmov", "clc"} : \E count : Fetch(op, w, count)
  BY <1>3, Fetched
<1>4. CASE \E op \in {"mul", "imul"} : Fetch(op, w, 0) /\ execute_mul(op, w)
  BY <1>4, Fetched
<1>5. CASE \E op \in {"div", "idiv"} : Fetch(op, w, 0) /\ execute_div(op, w)
  BY <1>5, Fetched
<1> QED BY <1>1, <1>2, <1>3, <1>4, <1>5

LEMMA CarryBit == \A f \in Flags : Carry(f) \in {0, 1}
BY DEF Carry, Flags

LEMMA SubFlags ==
  ASSUME NEW l, NEW r, NEW m, NEW c
  PROVE  sub(l, r, m, c).flags \in Flags
BY DEF sub, result_flags, Flags, Negative, SubOverflow, parity_even

LEMMA AluStep ==
  ASSUME Ready, NEW w \in Widths, NEW op \in AluOperations, Fetch(op, w, 0),
         execute_alu(op, w)
  PROVE  ConditionsAreComparisons' /\ NarrowSumsAreExact' /\ ProductsAndQuotientsAreExact'
<1>0. PICK l \in Int, r \in Int, m \in Int : l = rax /\ r = opnd /\ m = modulus(w)
  BY Modulus DEF Ready
<1>1. /\ ins'.op = op /\ ins'.w = w /\ ins'.rax = l /\ ins'.opnd = r /\ ins'.flags = flags
  BY <1>0, Fetched
<1> DEFINE R == alu(op, l, r, m, flags)
           c == IF op \in {"adc", "sbb"} THEN Carry(flags) ELSE 0
<1>2. flags' = R.flags /\ rax' = IF op = "cmp" THEN l ELSE write_gpr(l, R.result, w)
  BY <1>0 DEF execute_alu
<1>3. c \in {0, 1} /\ (op \in Comparisons => c = 0)
  BY CarryBit DEF Ready, Comparisons
<1>4. op \in {"sub", "cmp", "sbb"} => R = sub(l, r, m, c)
  BY DEF alu
<1>5. op \in {"add", "adc"} => R = add(l, r, m, c)
  BY DEF alu
<1> HIDE DEF R, c
<1>6. op \in Sums => (R.result \in 0 .. m - 1 => rax' % m = R.result)
  <2> SUFFICES ASSUME op \in Sums, R.result \in 0 .. m - 1 PROVE rax' % m = R.result
    OBVIOUS
  <2>1. rax' % m = R.result % m
    BY <1>0, <1>2, WriteRead DEF Sums
  <2> QED BY <1>0, <2>1, Modulus, NearRemainders
<1>7. ConditionsAreComparisons'
  <2>1. op \in Comparisons => Compares(l, r, m, flags')
    <3> SUFFICES ASSUME op \in Comparisons PROVE Compares(l, r, m, flags')
      OBVIOUS
    <3>1. R = sub(l, r, m, 0)
      BY <1>3, <1>4 DEF Comparisons
    <3>2. Exactly(l, r, m, 0, R.result, R.flags)
      BY <1>0, <3>1, SubExact
    <3>3. R.flags \in Flags
      BY <3>1, SubFlags
    <3> QED BY <1>0, <1>2, <3>2, <3>3, SubCompares
  <2> QED BY <1>0, <1>1, <2>1 DEF ConditionsAreComparisons, Compares, Comparisons
<1>8. ASSUME NEW v \in Widths \ {WordBits} PROVE ExactSum(v)'
  <2>1. CASE ~(w = v /\ op \in Sums)
    BY <1>1, <2>1 DEF ExactSum, Sums
  <2>2. CASE w = v /\ op \in {"sub", "sbb"}
    <3>1. Exactly(l, r, m, c, R.result, R.flags)
      BY <1>0, <1>3, <1>4, <2>2, SubExact
    <3>2. rax' % m = R.result
      BY <1>6, <2>2, <3>1 DEF Exactly, Sums
    <3> QED BY <1>0, <1>1, <1>2, <2>2, <3>1, <3>2 DEF ExactSum, Exactly, c
  <2>3. CASE w = v /\ op \in {"add", "adc"}
    <3>1. Summed(l, r, m, c, R.result, R.flags)
      BY <1>0, <1>3, <1>5, <2>3, AddExact
    <3>2. rax' % m = R.result
      BY <1>6, <2>3, <3>1 DEF Summed, Sums
    <3> QED BY <1>0, <1>1, <1>2, <2>3, <3>1, <3>2 DEF ExactSum, Summed, c
  <2> QED BY <2>1, <2>2, <2>3 DEF Sums
<1>9. ProductsAndQuotientsAreExact'
  BY <1>1 DEF ProductsAndQuotientsAreExact, AluOperations
<1> QED BY <1>7, <1>8, <1>9 DEF NarrowSumsAreExact

\* F6/F7 /4: the pair holds the product, CF tells whether its upper half is used.
LEMMA MulStep ==
  ASSUME Ready, NEW w \in Widths, Fetch("mul", w, 0), execute_mul("mul", w)
  PROVE  ProductsAndQuotientsAreExact'
<1>0. PICK l \in Int, o \in Int, m \in Int :
        l = rax /\ o = opnd /\ m = modulus(w) /\ m > 0
  BY Modulus DEF Ready
<1>1. ins'.op = "mul" /\ ins'.w = w /\ ins'.rax = l /\ opnd' = o
  BY <1>0, Fetched DEF execute_mul
<1>2. PICK x \in 0 .. m - 1, y \in 0 .. m - 1 : x = l % m /\ y = o % m
  BY <1>0, Quotient
<1>3. PICK n \in 0 .. (m * m) - 1 : n = x * y /\ (n \div m # 0 <=> n >= m)
  BY <1>0, MulRange
<1>4. n \in Int /\ n \div m \in Int
  BY <1>0, Quotient
<1>5. WritePair(n, n \div m, w)
  BY <1>0, <1>2, <1>3 DEF execute_mul
<1>6. flags'.CF <=> n >= m
  <2>1. flags' = [flags EXCEPT !.CF = n \div m # 0, !.OF = n \div m # 0]
    BY <1>0, <1>2, <1>3 DEF execute_mul
  <2> QED BY <1>3, <2>1 DEF Ready, Flags
<1>7. Pair(rax', rdx', w) = (n % m) + m * ((n \div m) % m)
  BY <1>0, <1>4, <1>5, PairRead DEF Ready
<1>8. Pair(rax', rdx', w) = n
  BY <1>0, <1>3, <1>4, <1>7, Together
<1> QED BY <1>0, <1>1, <1>2, <1>3, <1>6, <1>8 DEF ProductsAndQuotientsAreExact

\* Half of the modulus, and half of its square.
LEMMA Half ==
  ASSUME NEW w \in Widths
  PROVE  \E h \in Int : /\ h > 0 /\ modulus(w) = 2 * h /\ modulus(w) \div 2 = h
                        /\ 2 * (h * h) \in Int /\ 2 * (h * h) > 0
                        /\ modulus(w) * modulus(w) = 2 * (2 * (h * h))
<1>1. PICK h \in Int, m \in Int : m = modulus(w) /\ m > 0 /\ m = 2 * h /\ h = m \div 2
  BY Modulus
<1>2. h > 0 /\ h * h > 0 /\ h * h \in Int
  BY <1>1
<1>3. m * m = 2 * (2 * (h * h))
  BY <1>1
<1> QED BY <1>1, <1>2, <1>3

\* The signed reading depends on the remainder alone.
LEMMA SignedCongruent ==
  ASSUME NEW m \in Int, m > 0, NEW a \in Int, NEW b \in Int, a % m = b % m
  PROVE  Signed(a, m) = Signed(b, m)
BY DEF Signed, Negative

\* F6/F7 /5: the signed product.
LEMMA ImulStep ==
  ASSUME Ready, NEW w \in Widths, Fetch("imul", w, 0), execute_mul("imul", w)
  PROVE  ProductsAndQuotientsAreExact'
<1>0. PICK l \in Int, o \in Int, m \in Int, h \in Int, k \in Int :
        /\ l = rax /\ o = opnd /\ m = modulus(w) /\ m > 0 /\ h > 0 /\ m = 2 * h
        /\ k = 2 * (h * h) /\ k > 0 /\ m * m = 2 * k
  BY Modulus, Half DEF Ready
<1>1. ins'.op = "imul" /\ ins'.w = w /\ ins'.rax = l /\ opnd' = o
  BY <1>0, Fetched DEF execute_mul
<1>2. PICK x \in -h .. h - 1, y \in -h .. h - 1 : x = Signed(l, m) /\ y = Signed(o, m)
  BY <1>0, SignedRange
<1>3. PICK n \in -k .. k - 1 : n = x * y
  BY <1>0, ImulRange
<1>4. n \in Int /\ n \div m \in Int
  BY <1>0, Quotient
<1>5. WritePair(n, n \div m, w)
  BY <1>0, <1>2, <1>3 DEF execute_mul
<1>6. flags'.CF <=> n # Signed(n, m)
  <2>1. flags' = [flags EXCEPT !.CF = n # Signed(n, m), !.OF = n # Signed(n, m)]
    BY <1>0, <1>2, <1>3 DEF execute_mul
  <2> QED BY <2>1 DEF Ready, Flags
<1>7. Pair(rax', rdx', w) = (n % m) + m * ((n \div m) % m)
  BY <1>0, <1>4, <1>5, PairRead DEF Ready
<1>8. PICK p \in Int, j \in Int : p = Pair(rax', rdx', w) /\ p % m = n % m /\ p = j * (m * m) + n
  <2>1. PICK p \in Int : p = (n % m) + m * ((n \div m) % m)
    BY <1>0, <1>4, Quotient
  <2>2. p % m = n % m /\ Congruent(p, n, m * m)
    BY <1>0, <1>4, <2>1, Together
  <2>3. PICK j \in Int : p = j * (m * m) + n
    BY <2>2 DEF Congruent
  <2> QED BY <1>7, <2>1, <2>2, <2>3
<1>9. Signed(p, m * m) = n
  <2>1. PICK mm \in Int : mm = m * m
    BY <1>0
  <2>2. p = j * mm + n /\ mm = 2 * k
    BY <1>0, <1>8, <2>1
  <2>3. Signed(p, mm) = n
    BY <1>0, <1>3, <2>2, SignedUnique
  <2> QED BY <2>1, <2>3
<1>10. Signed(p, m) = Signed(n, m)
  BY <1>0, <1>4, <1>8, SignedCongruent
<1> QED BY <1>0, <1>1, <1>2, <1>3, <1>6, <1>8, <1>9, <1>10 DEF ProductsAndQuotientsAreExact

\* What a pair of registers can hold.
LEMMA PairRange ==
  ASSUME NEW w \in Widths, NEW low \in Int, NEW high \in Int
  PROVE  Pair(low, high, w) \in 0 .. (modulus(w) * modulus(w)) - 1
<1>0. PICK m \in Int : m = modulus(w) /\ m > 0
  BY Modulus
<1>1. CASE w = ByteBits
  <2>1. Pair(low, high, w) = low % modulus(2 * w) /\ modulus(2 * w) = m * m
    BY <1>0, <1>1, TwoBytes DEF Pair
  <2>2. PICK mm \in Int : mm = m * m /\ mm > 0
    BY <1>0
  <2>3. low % mm \in 0 .. mm - 1
    BY <2>2, Quotient
  <2> QED BY <1>0, <2>1, <2>2, <2>3
<1>2. CASE w # ByteBits
  <2>1. PICK l \in 0 .. m - 1, u \in 0 .. m - 1 : l = low % m /\ u = high % m
    BY <1>0, Quotient
  <2>2. Pair(low, high, w) = l + m * u
    BY <1>0, <1>2, <2>1 DEF Pair
  <2> QED BY <1>0, <2>2, Halves
<1> QED BY <1>1, <1>2

\* F6/F7 /6.
LEMMA DivStep ==
  ASSUME Ready, NEW w \in Widths, Fetch("div", w, 0), execute_div("div", w)
  PROVE  ProductsAndQuotientsAreExact'
<1>0. PICK l \in Int, u \in Int, o \in Int, m \in Int :
        l = rax /\ u = rdx /\ o = opnd /\ m = modulus(w) /\ m > 0
  BY Modulus DEF Ready
<1>1. ins'.op = "div" /\ ins'.w = w /\ ins'.rax = l /\ ins'.rdx = u /\ opnd' = o
  BY <1>0, Fetched DEF execute_div
<1>2. PICK d \in 0 .. m - 1 : d = o % m
  BY <1>0, Quotient
<1>3. PICK n \in Int : n = Pair(l, u, w) /\ n >= 0
  <2>1. PICK mm \in Int : mm = m * m
    BY <1>0
  <2>2. Pair(l, u, w) \in 0 .. mm - 1
    BY <1>0, <2>1, PairRange
  <2> QED BY <2>1, <2>2
<1> DEFINE q == Truncated(n, d)
<1>4. /\ d # 0 /\ q <= m - 1 => WritePair(q, n - q * d, w) /\ fault' = FALSE
      /\ ~(d # 0 /\ q <= m - 1) => fault' = TRUE
  BY <1>0, <1>2, <1>3 DEF execute_div, QuotientFits, Ready
<1>5. d # 0 => /\ q \in Int /\ q >= 0
               /\ n - q * d \in 0 .. d - 1
  <2> SUFFICES ASSUME d # 0
               PROVE  q \in Int /\ q >= 0 /\ n - q * d \in 0 .. d - 1
    OBVIOUS
  <2>0. d \in Int /\ d > 0
    BY <1>0
  <2>1. q = n \div d
    BY <1>0, <1>3, <2>0 DEF Truncated
  <2> HIDE DEF q
  <2>2. q \in Int /\ n % d \in 0 .. d - 1 /\ n = q * d + (n % d)
    BY <2>0, <2>1, Quotient
  <2>3. PICK r \in 0 .. d - 1, e \in Int : r = n % d /\ e = q * d /\ n = e + r
    BY <2>0, <2>2
  <2>4. q <= -1 => q * d <= (-1) * d
    BY <2>0, <2>2
  <2>5. q >= 0
    BY <1>3, <2>0, <2>2, <2>3, <2>4
  <2>6. n - q * d = r
    BY <2>2, <2>3
  <2> QED BY <2>2, <2>3, <2>5, <2>6
<1> HIDE DEF q
<1>6. CASE d # 0 /\ q <= m - 1
  <2>1. PICK a \in 0 .. m - 1 : a = q
    BY <1>0, <1>5, <1>6
  <2>2. PICK r \in Int, e \in Int : e = a * d /\ r = n - e
    BY <1>0
  <2>3. r \in 0 .. d - 1 /\ r \in 0 .. m - 1 /\ n = a * d + r
    BY <1>0, <1>5, <1>6, <2>1, <2>2
  <2>4. WritePair(a, r, w)
    BY <1>4, <1>6, <2>1, <2>2
  <2>5. a % m = a /\ r % m = r
    BY <1>0, <2>1, <2>2, <2>3, NearRemainders
  <2>6. Pair(rax', rdx', w) = a + m * r /\ rax' % m = a
    BY <1>0, <2>1, <2>2, <2>4, <2>5, PairRead DEF Ready
  <2>7. (a + m * r) \div m = r
    BY <1>0, <2>1, <2>3, Halves
  <2>8. fault' = FALSE /\ r < d
    BY <1>0, <1>4, <1>6, <2>3
  <2> QED BY <1>0, <1>1, <1>2, <1>3, <2>3, <2>6, <2>7, <2>8 DEF ProductsAndQuotientsAreExact
<1>7. CASE ~(d # 0 /\ q <= m - 1)
  <2>1. fault' = TRUE
    BY <1>4, <1>7
  <2>2. n >= m * d
    <3>1. CASE d = 0
      BY <1>0, <1>3, <3>1
    <3>2. CASE d # 0
      <4>1. PICK a \in Int, e \in Int : a = q /\ a >= m /\ e = a * d /\ n >= e
        <5>1. PICK a \in Int : a = q
          BY <1>5, <3>2
        <5>2. PICK e \in Int : e = a * d
          BY <1>2
        <5> QED BY <1>0, <1>5, <1>7, <3>2, <5>1, <5>2
      <4>2. a * d >= m * d
        BY <1>0, <4>1
      <4>3. m * d \in Int
        BY <1>0
      <4> QED BY <4>1, <4>2, <4>3
    <3> QED BY <3>1, <3>2
  <2> QED BY <1>0, <1>1, <1>2, <1>3, <2>1, <2>2 DEF ProductsAndQuotientsAreExact
<1> QED BY <1>6, <1>7

\* F6/F7 /7.
LEMMA IdivStep ==
  ASSUME Ready, NEW w \in Widths, Fetch("idiv", w, 0), execute_div("idiv", w)
  PROVE  ProductsAndQuotientsAreExact'
<1>0. PICK l \in Int, u \in Int, o \in Int, m \in Int, h \in Int :
        /\ l = rax /\ u = rdx /\ o = opnd /\ m = modulus(w) /\ m > 0
        /\ h > 0 /\ m = 2 * h /\ m \div 2 = h
  BY Modulus, Half DEF Ready
<1>1. /\ ins'.op = "idiv" /\ ins'.w = w /\ ins'.rax = l /\ ins'.rdx = u /\ opnd' = o
  BY <1>0, Fetched DEF execute_div
<1>2. PICK d \in -h .. h - 1 : d = Signed(o, m)
  BY <1>0, SignedRange
<1>3. PICK n \in Int : n = Signed(Pair(l, u, w), m * m)
  <2>1. PICK k \in Int, mm \in Int : k > 0 /\ mm = m * m /\ mm = 2 * k
    BY <1>0, Half
  <2>2. PICK b \in Int : b = Pair(l, u, w)
    BY <1>0, <2>1, PairRange
  <2>3. Signed(b, mm) \in -k .. k - 1
    BY <2>1, SignedRange
  <2> QED BY <2>1, <2>2, <2>3
<1> DEFINE q == Truncated(n, d)
<1>4. /\ d # 0 /\ q >= -h /\ q <= h - 1 => WritePair(q, n - q * d, w) /\ fault' = FALSE
      /\ ~(d # 0 /\ q >= -h /\ q <= h - 1) => fault' = TRUE
  BY <1>0, <1>2, <1>3 DEF execute_div, QuotientFits, Ready
<1>5. d # 0 => q \in Int /\ Truncates(n, d, q, n - q * d)
  BY TruncatedDivides
<1> HIDE DEF q
<1> DEFINE Divides(p, s) == /\ n = p * d + s
                            /\ s * s < d * d
                            /\ s = 0 \/ (s < 0) = (n < 0)
<1>6. ASSUME NEW p \in Int, NEW s \in Int
      PROVE  Divides(p, s) <=> Truncates(n, d, p, s)
  <2>1. s * s < d * d <=> Abs(s) < Abs(d)
    BY Squares
  <2>2. (s < 0) = (n < 0) <=> (s < 0 <=> n < 0)
    OBVIOUS
  <2> QED BY <2>1, <2>2 DEF Truncates
<1> HIDE DEF Divides
<1>7. CASE d # 0 /\ q >= -h /\ q <= h - 1
  <2>1. PICK a \in -h .. h - 1 : a = q
    BY <1>0, <1>5, <1>7
  <2>2. PICK s \in Int, e \in Int : e = a * d /\ s = n - e
    OBVIOUS
  <2>3. Truncates(n, d, a, s) /\ WritePair(a, s, w) /\ fault' = FALSE
    BY <1>4, <1>5, <1>7, <2>1, <2>2
  <2>4. s \in -h .. h - 1
    BY <1>0, <2>3 DEF Truncates, Abs
  <2>5. PICK x \in 0 .. m - 1, y \in 0 .. m - 1 : x = a % m /\ y = s % m
    <3>1. a \in Int
      BY <2>1
    <3> QED BY <1>0, <3>1, Quotient
  <2>6. Pair(rax', rdx', w) = x + m * y /\ rax' % m = x
    <3>1. a \in Int
      BY <2>1
    <3> QED BY <1>0, <2>3, <2>5, <3>1, PairRead DEF Ready
  <2>7. (x + m * y) \div m = y
    BY <1>0, Halves
  <2>8. Signed(x, m) = a /\ Signed(y, m) = s
    <3>1. Signed(a, m) = a /\ Signed(s, m) = s
      BY <1>0, <2>4, SignedSelf
    <3>2. x % m = a % m /\ y % m = s % m
      BY <1>0, <2>5, NearRemainders
    <3>3. Signed(x, m) = Signed(a, m) /\ Signed(y, m) = Signed(s, m)
      <4>1. x \in Int /\ y \in Int /\ a \in Int
        BY <1>0
      <4> QED BY <1>0, <3>2, <4>1, SignedCongruent
    <3> QED BY <3>1, <3>3
  <2>9. Divides(Signed(x, m), Signed(y, m))
    BY <1>6, <2>1, <2>2, <2>3, <2>8
  <2> QED BY <1>0, <1>1, <1>2, <1>3, <2>3, <2>6, <2>7, <2>9
          DEF ProductsAndQuotientsAreExact, Divides
<1>8. CASE ~(d # 0 /\ q >= -h /\ q <= h - 1)
  <2>1. fault' = TRUE
    BY <1>4, <1>8
  <2>2. ASSUME NEW p \in -h .. h - 1, NEW s \in -m .. m, Divides(p, s)
        PROVE  FALSE
    <3>1. Truncates(n, d, p, s)
      BY <1>0, <1>6, <2>2
    <3>2. d # 0
      BY <3>1 DEF Truncates, Abs
    <3>3. PICK a \in Int, e \in Int, r \in Int : a = q /\ e = a * d /\ r = n - e
      BY <1>5, <3>2
    <3>4. Truncates(n, d, a, r)
      BY <1>5, <3>2, <3>3
    <3>5. p = a
      BY <1>0, <3>1, <3>3, <3>4, TruncatedUnique
    <3> QED BY <1>0, <1>8, <3>2, <3>3, <3>5
  <2> QED BY <1>0, <1>1, <1>2, <1>3, <2>1, <2>2 DEF ProductsAndQuotientsAreExact, Divides
<1> QED BY <1>7, <1>8

LEMMA Step == IInv /\ [Next]_vars => IInv'
<1> SUFFICES ASSUME IInv, [Next]_vars PROVE IInv'
  OBVIOUS
<1>1. CASE UNCHANGED vars
  BY <1>1 DEF IInv, vars, Ready, ConditionsAreComparisons, NarrowSumsAreExact, ExactSum,
              ProductsAndQuotientsAreExact
<1>2. CASE Next
  <2>1. ins'.op # "none" /\ Ready
    BY <1>2, Instructions DEF IInv
  <2>2. ins'.op \notin Sums \cup Comparisons => ConditionsAreComparisons' /\ NarrowSumsAreExact'
    BY DEF ConditionsAreComparisons, NarrowSumsAreExact, ExactSum, Sums, Comparisons
  <2>3. ins'.op \notin Products => ProductsAndQuotientsAreExact'
    BY DEF ProductsAndQuotientsAreExact, Products
  <2>4. CASE \E w \in Widths, op \in AluOperations : Fetch(op, w, 0) /\ execute_alu(op, w)
    BY <2>1, <2>4, AluStep DEF IInv
  <2>5. CASE \E w \in Widths, op \in {"mul", "imul"} : Fetch(op, w, 0) /\ execute_mul(op, w)
    <3>1. ProductsAndQuotientsAreExact'
      BY <2>1, <2>5, MulStep, ImulStep
    <3>2. ins'.op \notin Sums \cup Comparisons
      BY <2>5, Fetched DEF Sums, Comparisons
    <3> QED BY <2>1, <2>2, <3>1, <3>2 DEF IInv
  <2>6. CASE \E w \in Widths, op \in {"div", "idiv"} : Fetch(op, w, 0) /\ execute_div(op, w)
    <3>1. ProductsAndQuotientsAreExact'
      BY <2>1, <2>6, DivStep, IdivStep
    <3>2. ins'.op \notin Sums \cup Comparisons
      BY <2>6, Fetched DEF Sums, Comparisons
    <3> QED BY <2>1, <2>2, <3>1, <3>2 DEF IInv
  <2>7. CASE ins'.op \notin Sums \cup Comparisons \cup Products
    BY <2>1, <2>2, <2>3, <2>7 DEF IInv
  <2> QED BY <1>2, <2>4, <2>5, <2>6, <2>7, Instructions
<1> QED BY <1>1, <1>2

LEMMA InitGood == Init => IInv
<1> SUFFICES ASSUME Init PROVE IInv
  OBVIOUS
<1>1. ins.op = "none"
  BY DEF Init
<1>2. Words \subseteq Int /\ HighWords \subseteq Int
  BY WidthsAssumption, Modulus DEF Word
<1>3. Ready
  BY <1>2 DEF Init, Ready
<1> QED BY <1>1, <1>3 DEF IInv, ConditionsAreComparisons, NarrowSumsAreExact, ExactSum,
                          ProductsAndQuotientsAreExact

\* After cmp or sub the conditions b, be, e, l and le (SoftCPU64.cpp:539) are the
\* unsigned and signed comparisons of the operands, at every width.
THEOREM Comparing == Spec => []ConditionsAreComparisons
BY InitGood, Step, PTL DEF Spec, IInv

\* add, adc, sub and sbb (SoftCPU64.cpp:507) are exact at every width narrower than u64:
\* CF is the carry or borrow of the sum, OF tells whether the signed sum fits.
THEOREM Summing == Spec => []NarrowSumsAreExact
BY InitGood, Step, PTL DEF Spec, IInv

\* Products fill the register pair exactly, and divisions leave the only quotient and
\* remainder, or end the emulator because there is none (SoftCPU64.cpp:788), for every
\* width and all contents of the registers.
THEOREM Multiplying == Spec => []ProductsAndQuotientsAreExact
BY InitGood, Step, PTL DEF Spec, IInv

-----------------------------------------------------------------------------
(* A number and its bits.                                                  *)

LEMMA DivDiv ==
  ASSUME NEW x \in Int, NEW p \in Int, p > 0, NEW q \in Int, q > 0
  PROVE  (x \div p) \div q = x \div (p * q)
<1>1. PICK a \in Int, r \in 0 .. p - 1 : a = x \div p /\ x = a * p + r
  BY Quotient
<1>2. PICK b \in Int, s \in 0 .. q - 1 : b = a \div q /\ a = b * q + s
  BY Quotient
<1>3. PICK n \in Int : n = p * q /\ n > 0
  OBVIOUS
<1>4. PICK t \in Int : t = s * p + r
  OBVIOUS
<1>5. t >= 0 /\ t <= n - 1
  <2>1. s * p >= 0 * p /\ s * p <= (q - 1) * p
    OBVIOUS
  <2>2. (q - 1) * p = n - p
    BY <1>3
  <2> QED BY <1>4, <2>1, <2>2
<1>6. x = b * n + t
  <2>1. x = (b * q + s) * p + r
    BY <1>1, <1>2
  <2>2. (b * q + s) * p = b * (p * q) + s * p
    OBVIOUS
  <2> QED BY <1>3, <1>4, <2>1, <2>2
<1>7. x \div n = b
  BY <1>3, <1>5, <1>6, Division
<1> QED BY <1>1, <1>2, <1>3, <1>7

\* The bit of value 2^i.
Bit(x, i) == (x \div modulus(i)) % 2 = 1

LEMMA BitsAre ==
  ASSUME NEW v
  PROVE  \A i : i \in Bits(v) <=> i \in 0 .. WordBits - 1 /\ Bit(v, i)
  BY DEF Bits, Bit, modulus

LEMMA ShiftedBit ==
  ASSUME NEW x \in Int, NEW k \in Positions, NEW i \in Positions, k + i \in Positions
  PROVE  Bit(x \div modulus(k), i) <=> Bit(x, k + i)
<1>1. /\ modulus(k) \in Int /\ modulus(k) > 0 /\ modulus(i) \in Int /\ modulus(i) > 0
      /\ modulus(k + i) = modulus(k) * modulus(i)
  BY Powers DEF Positions
<1> QED BY <1>1, DivDiv DEF Bit

\* Of a number in two parts the lower part has the lower bits, the upper part the others.
LEMMA LowBits ==
  ASSUME NEW k \in Positions, NEW a \in Int, NEW b \in Int, NEW x, x = a * modulus(k) + b,
         NEW i, i \in 0 .. k - 1
  PROVE  Bit(x, i) <=> Bit(b, i)
<1>0. WordBits \in Nat
  BY PowersAssumption
<1>1. k - i \in Positions /\ 1 \in 0 .. k - i /\ i \in 0 .. k
  BY <1>0 DEF Positions
<1>2. PICK p \in Int, m \in Int : /\ p = modulus(i) /\ p > 0 /\ m = modulus(k - i)
                                  /\ modulus(k) = p * m
  BY <1>1, Split
<1>3. PICK h \in Int : m = 2 * h
  <2>1. modulus(k - i) = modulus(1) * modulus(k - i - 1) /\ modulus(k - i - 1) \in Int
    BY <1>1, Split
  <2>2. modulus(1) = 2
    BY <1>1, Powers
  <2> QED BY <1>2, <2>1, <2>2
<1>4. PICK q \in Int, r \in 0 .. p - 1 : q = b \div p /\ b = q * p + r
  <2>1. b \div p \in Int /\ b % p \in 0 .. p - 1 /\ b = (b \div p) * p + (b % p)
    BY <1>2, Quotient
  <2> QED BY <2>1
<1>5. PICK n \in Int : n = a * h
  BY <1>3
<1>6. PICK y \in Int : y = 2 * n + q
  BY <1>5
<1>7. x = y * p + r
  <2>1. x = a * (p * (2 * h)) + (q * p + r)
    BY <1>2, <1>3, <1>4
  <2>2. a * (p * (2 * h)) = (2 * (a * h)) * p
    BY <1>2, <1>3
  <2>3. y * p = (2 * n) * p + q * p
    BY <1>2, <1>6
  <2> QED BY <1>5, <2>1, <2>2, <2>3
<1>8. x \div p = y
  <2>1. PICK n2 \in Int : n2 = y * p
    BY <1>2
  <2>2. PICK z \in Int : z = x
    BY <1>2, <1>7, <2>1
  <2>3. z = y * p + r
    BY <1>7, <2>2
  <2>4. z \div p = y
    BY <1>2, <2>3, Division
  <2> QED BY <2>2, <2>4
<1>9. y % 2 = q % 2
  BY <1>6
<1> QED BY <1>2, <1>4, <1>8, <1>9 DEF Bit

LEMMA HighBits ==
  ASSUME NEW k \in Positions, NEW a \in Int, NEW b \in 0 .. modulus(k) - 1,
         NEW x, x = a * modulus(k) + b, NEW i \in Positions, i >= k
  PROVE  Bit(x, i) <=> Bit(a, i - k)
<1>0. WordBits \in Nat
  BY PowersAssumption
<1>1. PICK p \in Int : p = modulus(k) /\ p > 0
  BY Powers
<1>2. x \in Int /\ x \div p = a
  <2>1. PICK n \in Int : n = a * p
    BY <1>1
  <2>2. x = a * p + b /\ x = n + b /\ b \in 0 .. p - 1
    BY <1>1, <2>1
  <2>3. PICK z \in Int : z = x
    BY <1>1, <2>2
  <2>4. z = a * p + b
    BY <2>2, <2>3
  <2>5. z \div p = a
    BY <1>1, <2>2, <2>4, Division
  <2> QED BY <2>3, <2>5
<1>3. PICK j \in Positions : j = i - k /\ k + j = i
  BY <1>0 DEF Positions
<1>4. Bit(x \div modulus(k), j) <=> Bit(x, k + j)
  BY <1>2, <1>3, ShiftedBit
<1> QED BY <1>1, <1>2, <1>3, <1>4

LEMMA ZeroBits ==
  ASSUME NEW i \in Positions
  PROVE  ~Bit(0, i)
<1>1. PICK p \in Int : p = modulus(i) /\ p > 0
  BY Powers
<1>2. 0 = 0 * p + 0 /\ 0 \in 0 .. p - 1
  BY <1>1
<1>3. 0 \div p = 0
  BY <1>1, <1>2, Division
<1> QED BY <1>1, <1>3 DEF Bit

\* A number below 2^k has no bit above.
LEMMA SmallBits ==
  ASSUME NEW k \in Positions, NEW b \in 0 .. modulus(k) - 1, NEW i \in Positions, i >= k
  PROVE  ~Bit(b, i)
<1>0. WordBits \in Nat
  BY PowersAssumption
<1>1. modulus(k) \in Int
  BY Powers
<1>2. b = 0 * modulus(k) + b
  BY <1>1
<1>3. Bit(b, i) <=> Bit(0, i - k)
  BY <1>2, HighBits
<1>4. i - k \in Positions
  BY <1>0 DEF Positions
<1> QED BY <1>3, <1>4, ZeroBits

\* Wrapping keeps the lower bits.
LEMMA WrappedBits ==
  ASSUME NEW x \in Int, NEW k \in Positions, NEW i, i \in 0 .. k - 1
  PROVE  Bit(x % modulus(k), i) <=> Bit(x, i)
<1>1. modulus(k) \in Int /\ modulus(k) > 0
  BY Powers
<1>2. PICK a \in Int, b \in Int : b = x % modulus(k) /\ x = a * modulus(k) + b
  <2>1. /\ x \div modulus(k) \in Int /\ x % modulus(k) \in 0 .. modulus(k) - 1
        /\ x = (x \div modulus(k)) * modulus(k) + (x % modulus(k))
    BY <1>1, Quotient
  <2> QED BY <1>1, <2>1
<1>3. Bit(x, i) <=> Bit(b, i)
  BY <1>2, LowBits
<1> QED BY <1>2, <1>3

LEMMA Induction ==
  ASSUME NEW n \in Nat, NEW P, 0 \in P, \A i \in 1 .. n : i - 1 \in P => i \in P
  PROVE  \A i \in 0 .. n : i \in P
<1> DEFINE T == {i \in 0 .. n : i \notin P}
           R == OpToRel(<, Nat)
<1> SUFFICES ASSUME T # {} PROVE FALSE
  OBVIOUS
<1>1. IsWellFoundedOn(R, Nat)
  BY NatLessThanWellFounded
<1>2. \A x, y \in Nat : x < y => <<x, y>> \in R
  BY DEF OpToRel
<1>3. T \in SUBSET Nat
  OBVIOUS
<1> HIDE DEF R, T
<1>4. PICK x \in T : \A y \in T : ~(<<y, x>> \in R)
  BY <1>1, <1>3, WFMin
<1>5. x \in 0 .. n /\ x \notin P
  BY <1>4 DEF T
<1>6. x \in 1 .. n /\ x - 1 \in 0 .. n
  BY <1>5
<1>7. x - 1 \notin P
  BY <1>5, <1>6
<1>8. x - 1 \in T /\ x - 1 \in Nat /\ x \in Nat /\ x - 1 < x
  BY <1>6, <1>7 DEF T
<1> QED BY <1>2, <1>4, <1>8

\* One more bit of a remainder.
LEMMA NextRemainder ==
  ASSUME NEW x \in Int, NEW n \in Positions, n >= 1
  PROVE  x % modulus(n) = (x % modulus(n - 1)) + (IF Bit(x, n - 1) THEN modulus(n - 1) ELSE 0)
<1>1. PICK p \in Int : p = modulus(n - 1) /\ p > 0 /\ modulus(n) = 2 * p
  BY Doubled
<1>2. PICK q \in Int, r \in 0 .. p - 1 : q = x \div p /\ r = x % p /\ x = q * p + r
  <2>1. x \div p \in Int /\ x % p \in 0 .. p - 1 /\ x = (x \div p) * p + (x % p)
    BY <1>1, Quotient
  <2> QED BY <2>1
<1>3. PICK h \in Int, t \in 0 .. 1 : t = q % 2 /\ q = 2 * h + t
  OBVIOUS
<1>4. PICK s \in Int : s = IF t = 1 THEN p + r ELSE r
  BY <1>1
<1>5. s \in 0 .. 2 * p - 1
  BY <1>1, <1>4
<1>6. x = h * (2 * p) + s
  <2>1. x = (2 * h + t) * p + r
    BY <1>2, <1>3
  <2>2. (2 * h + t) * p = h * (2 * p) + t * p
    BY <1>1
  <2>3. t * p + r = s
    BY <1>1, <1>4
  <2> QED BY <1>1, <2>1, <2>2, <2>3
<1>7. PICK m \in Int : m = 2 * p /\ m > 0
  BY <1>1
<1>8. x % m = s
  BY <1>5, <1>6, <1>7, Remainder
<1>9. Bit(x, n - 1) <=> t = 1
  BY <1>1, <1>2, <1>3 DEF Bit
<1>10. x % modulus(n) = s /\ s = r + (IF t = 1 THEN p ELSE 0)
  BY <1>1, <1>4, <1>7, <1>8
<1> QED BY <1>1, <1>2, <1>9, <1>10, Zenon

\* A number is its bits.
LEMMA SameBits ==
  ASSUME NEW k \in Positions, NEW x \in 0 .. modulus(k) - 1, NEW y \in 0 .. modulus(k) - 1,
         \A i \in 0 .. k - 1 : Bit(x, i) <=> Bit(y, i)
  PROVE  x = y
<1> DEFINE P == {n \in 0 .. k : x % modulus(n) = y % modulus(n)}
<1>0. k \in Nat /\ WordBits \in Nat
  BY PowersAssumption DEF Positions
<1>1. 0 \in P
  <2>1. modulus(0) = 1 /\ modulus(k) \in Int
    BY Powers
  <2> QED BY <1>0, <2>1
<1>2. ASSUME NEW n \in 1 .. k, n - 1 \in P PROVE n \in P
  <2>1. x \in Int /\ y \in Int /\ n \in Positions /\ n >= 1 /\ n - 1 \in 0 .. k - 1 /\ n \in 0 .. k
    BY <1>0, Powers DEF Positions
  <2>2. /\ x % modulus(n) = (x % modulus(n - 1)) + (IF Bit(x, n - 1) THEN modulus(n - 1) ELSE 0)
        /\ y % modulus(n) = (y % modulus(n - 1)) + (IF Bit(y, n - 1) THEN modulus(n - 1) ELSE 0)
    BY <2>1, NextRemainder, Zenon
  <2>3. Bit(x, n - 1) <=> Bit(y, n - 1)
    BY <2>1
  <2>4. x % modulus(n - 1) = y % modulus(n - 1)
    BY <1>2
  <2>5. x % modulus(n) = y % modulus(n)
    BY <2>2, <2>3, <2>4, Zenon
  <2> QED BY <2>1, <2>5
<1> HIDE DEF P
<1>3. k \in P
  BY <1>0, <1>1, <1>2, Induction
<1>4. x % modulus(k) = y % modulus(k)
  BY <1>3 DEF P
<1>5. PICK m \in Int : m = modulus(k) /\ m > 0
  BY Powers
<1>6. x % m = x /\ y % m = y
  BY <1>5, NearRemainders
<1> QED BY <1>4, <1>5, <1>6

\* Any set of positions is the bits of a word.
LEMMA SomeWord ==
  ASSUME NEW S \in SUBSET (0 .. WordBits - 1)
  PROVE  \E v \in 0 .. Word - 1 : Bits(v) = S
<1> DEFINE Fits(n, v) == \A i \in 0 .. n - 1 : Bit(v, i) <=> i \in S
           P == {n \in 0 .. WordBits : \E v \in 0 .. modulus(n) - 1 : Fits(n, v)}
<1>0. WordBits \in Nat /\ WordBits \in Positions
  BY WordFacts
<1>1. 0 \in P
  <2>1. modulus(0) = 1
    BY <1>0, Powers
  <2>2. 0 \in 0 .. modulus(0) - 1 /\ Fits(0, 0) /\ 0 \in 0 .. WordBits
    BY <1>0, <2>1
  <2> QED BY <2>2
<1>2. ASSUME NEW n \in 1 .. WordBits, n - 1 \in P PROVE n \in P
  <2>0. n \in Positions /\ n >= 1 /\ n \in 0 .. WordBits /\ n - 1 \in Positions
    BY <1>0 DEF Positions
  <2>1. PICK p \in Int : p = modulus(n - 1) /\ p > 0 /\ modulus(n) = 2 * p
    BY <2>0, Doubled
  <2>2. PICK u \in 0 .. p - 1 : Fits(n - 1, u)
    BY <1>2, <2>1
  <2>3. PICK a \in 0 .. 1 : a = 1 <=> n - 1 \in S
    <3>1. CASE n - 1 \in S
      <4>1. 1 \in 0 .. 1
        OBVIOUS
      <4> QED BY <3>1, <4>1
    <3>2. CASE n - 1 \notin S
      <4>1. 0 \in 0 .. 1 /\ 0 # 1
        OBVIOUS
      <4> QED BY <3>2, <4>1
    <3> QED BY <3>1, <3>2
  <2>4. PICK v \in Int : v = a * p + u /\ v = a * modulus(n - 1) + u
    <3>1. a * p \in Int /\ a * p + u \in Int
      BY <2>1
    <3> QED BY <2>1, <3>1
  <2>5. v \in 0 .. modulus(n) - 1
    <3>1. a = 0 \/ a = 1
      OBVIOUS
    <3>2. v = u \/ v = p + u
      BY <2>1, <2>4, <3>1
    <3> QED BY <2>1, <3>2
  <2>6. ASSUME NEW i \in 0 .. n - 1 PROVE Bit(v, i) <=> i \in S
    <3>1. CASE i \in 0 .. (n - 1) - 1
      <4>1. Bit(v, i) <=> Bit(u, i)
        BY <2>0, <2>4, <3>1, LowBits
      <4> QED BY <2>2, <3>1, <4>1
    <3>2. CASE i = n - 1
      <4>1. Bit(v, i) <=> Bit(a, 0)
        <5>1. /\ i \in Positions /\ i >= n - 1 /\ i - (n - 1) = 0
              /\ u \in 0 .. modulus(n - 1) - 1 /\ a \in Int
          BY <2>0, <2>1, <3>2
        <5>2. Bit(v, i) <=> Bit(a, i - (n - 1))
          BY <2>0, <2>4, <5>1, HighBits
        <5> QED BY <5>1, <5>2
      <4>2. Bit(a, 0) <=> a = 1
        <5>1. modulus(0) = 1
          BY <1>0, Powers
        <5> QED BY <5>1 DEF Bit
      <4> QED BY <2>3, <3>2, <4>1, <4>2
    <3> QED BY <2>0, <3>1, <3>2
  <2>7. Fits(n, v)
    BY <2>6
  <2> HIDE DEF Fits
  <2> QED BY <2>0, <2>5, <2>7
<1> HIDE DEF P
<1>3. WordBits \in P
  BY <1>0, <1>1, <1>2, Induction
<1>4. PICK v \in 0 .. modulus(WordBits) - 1 : Fits(WordBits, v)
  BY <1>3 DEF P
<1>5. Bits(v) = S
  BY <1>4, BitsAre
<1> QED BY <1>4, <1>5, WordFacts

LEMMA FromBitsIs ==
  ASSUME NEW S \in SUBSET (0 .. WordBits - 1)
  PROVE  FromBits(S) \in 0 .. Word - 1 /\ Bits(FromBits(S)) = S
  BY SomeWord DEF FromBits

LEMMA BitwiseWords ==
  ASSUME NEW a, NEW b
  PROVE  /\ BitAnd(a, b) \in 0 .. Word - 1 /\ BitOr(a, b) \in 0 .. Word - 1
         /\ BitXor(a, b) \in 0 .. Word - 1
<1>1. Bits(a) \in SUBSET (0 .. WordBits - 1) /\ Bits(b) \in SUBSET (0 .. WordBits - 1)
  BY DEF Bits
<1> QED BY <1>1, FromBitsIs DEF BitAnd, BitOr, BitXor

LEMMA OrBits ==
  ASSUME NEW a, NEW b, NEW i \in 0 .. WordBits - 1
  PROVE  Bit(BitOr(a, b), i) <=> Bit(a, i) \/ Bit(b, i)
<1>1. Bits(a) \cup Bits(b) \in SUBSET (0 .. WordBits - 1)
  BY DEF Bits
<1>2. Bits(BitOr(a, b)) = Bits(a) \cup Bits(b)
  BY <1>1, FromBitsIs DEF BitOr
<1> QED BY <1>2, BitsAre

\* A set of positions has a first and a last.
LEMMA Extremes ==
  ASSUME NEW n \in Nat, NEW V \in SUBSET (0 .. n), V # {}
  PROVE  Min(V) \in V /\ Max(V) \in V
<1>1. \E x \in V : \A y \in V : x <= y
  <2> SUFFICES ASSUME ~\E x \in V : \A y \in V : x <= y PROVE FALSE
    OBVIOUS
  <2> DEFINE P == {k \in 0 .. n : \A j \in 0 .. k : j \notin V}
  <2>1. 0 \in P
    OBVIOUS
  <2>2. ASSUME NEW k \in 1 .. n, k - 1 \in P PROVE k \in P
    <3>1. \A j \in 0 .. k - 1 : j \notin V
      BY <2>2
    <3>2. k \notin V
      BY <3>1
    <3> QED BY <3>1, <3>2
  <2> HIDE DEF P
  <2>3. n \in P
    BY <2>1, <2>2, Induction
  <2> QED BY <2>3 DEF P
<1>2. \E x \in V : \A y \in V : x >= y
  <2> SUFFICES ASSUME ~\E x \in V : \A y \in V : x >= y PROVE FALSE
    OBVIOUS
  <2> DEFINE P == {k \in 0 .. n : \A j \in n - k .. n : j \notin V}
  <2>1. 0 \in P
    OBVIOUS
  <2>2. ASSUME NEW k \in 1 .. n, k - 1 \in P PROVE k \in P
    <3>1. \A j \in n - k + 1 .. n : j \notin V
      BY <2>2
    <3>2. n - k \notin V
      BY <3>1
    <3> QED BY <3>1, <3>2
  <2> HIDE DEF P
  <2>3. n \in P
    BY <2>1, <2>2, Induction
  <2>4. \A j \in n - n .. n : j \notin V
    BY <2>3 DEF P
  <2>5. n - n = 0
    OBVIOUS
  <2>6. \A j \in 0 .. n : j \notin V
    BY <2>4, <2>5
  <2> QED BY <2>6
<1> QED BY <1>1, <1>2 DEF Min, Max

-----------------------------------------------------------------------------
(* Types: every instruction leaves words.                                  *)

Words64 == 0 .. Word - 1

LEMMA WriteWord ==
  ASSUME NEW w \in Widths, NEW old \in Words64, NEW v \in Int
  PROVE  write_gpr(old, v, w) \in Words64
<1>1. PICK m \in Int, k \in Int : m = modulus(w) /\ m > 0 /\ k > 0 /\ Word = m * k
  <2>1. WordBits \in Positions /\ w \in 0 .. WordBits
    BY WordFacts, WidthsAssumption
  <2> QED BY <2>1, Split, WordFacts
<1>2. PICK r \in 0 .. m - 1 : r = v % m
  BY <1>1, Quotient
<1>3. Word \in Int /\ m <= Word
  BY <1>1, Modulus
<1>4. CASE w >= LongBits
  BY <1>1, <1>2, <1>3, <1>4 DEF write_gpr, Words64
<1>5. CASE ~(w >= LongBits)
  <2>1. PICK q \in Int, s \in 0 .. m - 1 : s = old % m /\ old = q * m + s
    <3>1. old \in Int
      BY <1>3 DEF Words64
    <3>2. old \div m \in Int /\ old % m \in 0 .. m - 1 /\ old = (old \div m) * m + (old % m)
      BY <1>1, <3>1, Quotient
    <3> QED BY <3>2
  <2>2. PICK n \in Int : n = q * m
    BY <1>1
  <2>3. n + s >= 0 /\ n + s <= Word - 1
    BY <1>3, <2>1, <2>2 DEF Words64
  <2>4. q <= -1 => q * m <= (-1) * m
    BY <1>1
  <2>5. n >= 0
    <3>1. q >= 0 => q * m >= 0
      BY <1>1
    <3> QED BY <1>1, <2>1, <2>2, <2>3, <2>4, <3>1
  <2>6. q >= k => q * m >= k * m
    BY <1>1
  <2>7. q <= k - 1
    BY <1>1, <2>1, <2>2, <2>3, <2>6
  <2>8. q * m <= (k - 1) * m /\ (k - 1) * m = Word - m
    BY <1>1, <2>7
  <2>9. n + r >= 0 /\ n + r <= Word - 1 /\ n + r \in Int
    BY <1>1, <1>2, <2>2, <2>5, <2>8
  <2>10. write_gpr(old, v, w) = r + (old - s)
    BY <1>1, <1>2, <1>5, <2>1 DEF write_gpr
  <2>11. old - s = n
    BY <2>1, <2>2
  <2> QED BY <1>3, <2>9, <2>10, <2>11 DEF Words64
<1> QED BY <1>4, <1>5

LEMMA AddType ==
  ASSUME NEW l \in Int, NEW r \in Int, NEW w \in Widths, NEW c \in Int
  PROVE  add(l, r, modulus(w), c).result \in Int /\ add(l, r, modulus(w), c).flags \in Flags
<1>1. PICK m \in Int : m = modulus(w) /\ m > 0
  BY Modulus
<1>2. PICK full \in Int : full = u64((l % m) + (r % m) + c)
  <2>1. (l % m) + (r % m) + c \in Int
    BY <1>1
  <2> QED BY <2>1, WordFacts DEF u64
<1>3. add(l, r, m, c).result = full % m
  BY <1>2 DEF add
<1>4. add(l, r, m, c).flags \in Flags
  BY DEF add, result_flags, Flags, Negative, CarryOut, parity_even
<1> QED BY <1>1, <1>3, <1>4

LEMMA SubType ==
  ASSUME NEW l \in Int, NEW r \in Int, NEW w \in Widths, NEW c \in Int
  PROVE  sub(l, r, modulus(w), c).result \in Int /\ sub(l, r, modulus(w), c).flags \in Flags
<1>1. PICK m \in Int : m = modulus(w) /\ m > 0
  BY Modulus
<1>2. PICK x \in Int : x = u64((r % m) + c)
  <2>1. (r % m) + c \in Int
    BY <1>1
  <2> QED BY <2>1, WordFacts DEF u64
<1>3. sub(l, r, m, c).result = ((l % m) - x) % m
  BY <1>2 DEF sub
<1>4. sub(l, r, m, c).flags \in Flags
  BY SubFlags
<1> QED BY <1>1, <1>3, <1>4

LEMMA LogicType ==
  ASSUME NEW x \in Int, NEW w \in Widths
  PROVE  Logic(x, modulus(w)).result \in Int /\ Logic(x, modulus(w)).flags \in Flags
<1>1. modulus(w) \in Int /\ modulus(w) > 0
  BY Modulus
<1>2. Logic(x, modulus(w)).result = x % modulus(w)
  BY DEF Logic
<1>3. Logic(x, modulus(w)).flags \in Flags
  BY DEF Logic, set_logic_flags, result_flags, Flags, Negative, parity_even
<1> QED BY <1>1, <1>2, <1>3

LEMMA AluType ==
  ASSUME NEW op \in AluOperations, NEW l \in Int, NEW r \in Int, NEW w \in Widths, NEW f \in Flags,
         NEW a, a = alu(op, l, r, modulus(w), f)
  PROVE  a.result \in Int /\ a.flags \in Flags
<1>0. Carry(f) \in Int /\ 0 \in Int
  BY CarryBit
<1>1. CASE op = "add"
  BY <1>0, <1>1, AddType DEF alu
<1>2. CASE op = "adc"
  BY <1>0, <1>2, AddType DEF alu
<1>3. CASE op = "sbb"
  BY <1>0, <1>3, SubType DEF alu
<1>4. CASE op \in {"sub", "cmp"}
  BY <1>0, <1>4, SubType DEF alu
<1>5. BitOr(l, r) \in Int /\ BitAnd(l, r) \in Int /\ BitXor(l, r) \in Int
  BY BitwiseWords, WordFacts
<1>6. CASE op = "or"
  BY <1>5, <1>6, LogicType DEF alu
<1>7. CASE op = "and"
  BY <1>5, <1>7, LogicType DEF alu
<1>8. CASE op = "xor"
  BY <1>5, <1>8, LogicType DEF alu
<1> QED BY <1>1, <1>2, <1>3, <1>4, <1>6, <1>7, <1>8 DEF AluOperations

LEMMA SignedInt ==
  ASSUME NEW v \in Int, NEW w \in Widths
  PROVE  /\ Signed(v, modulus(w)) \in Int /\ v % modulus(w) \in Int
         /\ sign_extend(v, modulus(w)) \in Int
<1>1. PICK m \in Int : m = modulus(w) /\ m > 0
  BY Modulus
<1>2. v % m \in Int /\ Signed(v, m) \in Int
  BY <1>1, SignedValue
<1>3. u64(Signed(v, m)) \in Int
  BY <1>2, WordFacts DEF u64
<1> QED BY <1>1, <1>2, <1>3 DEF sign_extend

LEMMA PairWord ==
  ASSUME NEW w \in Widths, NEW low \in Int, NEW high \in Int, rax \in Words64, rdx \in Words64,
         WritePair(low, high, w)
  PROVE  rax' \in Words64 /\ rdx' \in Words64
<1>1. PICK m \in Int : m = modulus(w) /\ m > 0
  BY Modulus
<1>2. CASE w = ByteBits
  <2>1. PICK v \in Int : v = (low % m) + m * (high % m)
    <3>1. low % m \in Int /\ high % m \in Int
      BY <1>1
    <3> QED BY <1>1, <3>1
  <2>2. rax' = write_gpr(rax, v, 2 * w) /\ rdx' = rdx
    BY <1>1, <1>2, <2>1 DEF WritePair
  <2>3. 2 * w \in Widths
    BY <1>2, WidthsAssumption
  <2> QED BY <2>2, <2>3, WriteWord
<1>3. CASE w # ByteBits
  BY <1>3, WriteWord DEF WritePair
<1> QED BY <1>2, <1>3

Typed == {rax, rdx, opnd} \subseteq Words64 /\ flags \in Flags /\ fault \in BOOLEAN

LEMMA Registers == Typed => rax \in Int /\ rdx \in Int /\ opnd \in Int
BY WordFacts DEF Typed, Words64

LEMMA TypedAlu ==
  ASSUME Typed, NEW w \in Widths, NEW op \in AluOperations, execute_alu(op, w)
  PROVE  Typed'
<1>1. PICK r : r = alu(op, rax, opnd, modulus(w), flags)
  OBVIOUS
<1>2. r.result \in Int /\ r.flags \in Flags
  BY <1>1, AluType, Registers DEF Typed
<1>3. write_gpr(rax, r.result, w) \in Words64
  BY <1>2, WriteWord DEF Typed
<1>4. /\ rax' = IF op = "cmp" THEN rax ELSE write_gpr(rax, r.result, w)
      /\ flags' = r.flags /\ rdx' = rdx /\ opnd' = opnd /\ fault' = fault
  BY <1>1 DEF execute_alu
<1> QED BY <1>2, <1>3, <1>4 DEF Typed

LEMMA WithFlag ==
  ASSUME NEW f \in Flags, NEW b \in BOOLEAN, NEW d \in BOOLEAN
  PROVE  /\ [f EXCEPT !.CF = b] \in Flags /\ [f EXCEPT !.ZF = b] \in Flags
         /\ [f EXCEPT !.CF = b, !.OF = d] \in Flags
BY DEF Flags

LEMMA TypedIncDec ==
  ASSUME Typed, NEW w \in Widths, NEW op \in {"inc", "dec"}, execute_inc_dec(op, w)
  PROVE  Typed'
<1>1. PICK r : r = IF op = "inc" THEN add(opnd, 1, modulus(w), 0) ELSE sub(opnd, 1, modulus(w), 0)
  OBVIOUS
<1>0. opnd \in Int /\ 1 \in Int /\ 0 \in Int
  BY Registers
<1>2. r.result \in Int /\ r.flags \in Flags
  BY <1>0, <1>1, AddType, SubType
<1>3. write_gpr(opnd, r.result, w) \in Words64
  BY <1>2, WriteWord DEF Typed
<1>4. /\ opnd' = write_gpr(opnd, r.result, w)
      /\ flags' = [r.flags EXCEPT !.CF = flags.CF] /\ rdx' = rdx /\ rax' = rax /\ fault' = fault
  BY <1>1 DEF execute_inc_dec
<1>5. flags.CF \in BOOLEAN
  BY DEF Typed, Flags
<1>6. flags' \in Flags
  BY <1>2, <1>4, <1>5, WithFlag
<1> QED BY <1>3, <1>4, <1>6 DEF Typed

LEMMA TypedUnary ==
  ASSUME Typed, NEW w \in Widths, NEW op \in {"test", "not", "neg"}, execute_unary(op, w)
  PROVE  Typed'
<1>0. opnd \in Int /\ rax \in Int /\ 0 \in Int
  BY Registers
<1>1. PICK m \in Int : m = modulus(w) /\ m > 0
  BY Modulus
<1>2. rdx' = rdx /\ rax' = rax /\ fault' = fault
  BY DEF execute_unary
<1>3. CASE op = "test"
  <2>1. PICK x \in Int : x = BitAnd(opnd, rax)
    BY BitwiseWords, WordFacts
  <2>2. opnd' = opnd /\ flags' = Logic(x, modulus(w)).flags
    BY <1>3, <2>1 DEF execute_unary, Logic
  <2>3. flags' \in Flags
    BY <2>2, LogicType
  <2> QED BY <1>2, <2>2, <2>3 DEF Typed
<1>4. CASE op = "not"
  <2>1. PICK x \in Int : x = m - 1 - (opnd % m)
    BY <1>0, <1>1
  <2>2. opnd' = write_gpr(opnd, x, w) /\ flags' = flags
    BY <1>1, <1>4, <2>1 DEF execute_unary
  <2>3. opnd' \in Words64
    BY <2>2, WriteWord DEF Typed
  <2> QED BY <1>2, <2>2, <2>3 DEF Typed
<1>5. CASE op = "neg"
  <2>1. PICK r : r = sub(0, opnd, modulus(w), 0)
    OBVIOUS
  <2>2. opnd' = write_gpr(opnd, r.result, w) /\ flags' = r.flags
    BY <1>5, <2>1 DEF execute_unary
  <2>3. r.result \in Int /\ r.flags \in Flags
    BY <1>0, <2>1, SubType
  <2>4. opnd' \in Words64
    BY <2>2, <2>3, WriteWord DEF Typed
  <2> QED BY <1>2, <2>2, <2>3, <2>4 DEF Typed
<1> QED BY <1>3, <1>4, <1>5

LEMMA TypedMul ==
  ASSUME Typed, NEW w \in Widths, NEW op \in {"mul", "imul"}, execute_mul(op, w)
  PROVE  Typed'
<1>1. PICK m \in Int : m = modulus(w) /\ m > 0
  BY Modulus
<1>2. PICK x \in Int : x = IF op = "mul" THEN (rax % m) * (opnd % m)
                           ELSE Signed(rax, m) * Signed(opnd, m)
  <2>1. rax % m \in Int /\ opnd % m \in Int /\ Signed(rax, m) \in Int /\ Signed(opnd, m) \in Int
    BY <1>1, Registers, SignedInt
  <2> QED BY <2>1
<1>3. PICK y \in Int : y = x \div m
  BY <1>1
<1>4. PICK b \in BOOLEAN : b = IF op = "mul" THEN y # 0 ELSE x # Signed(x, m)
  OBVIOUS
<1>5. /\ WritePair(x, y, w) /\ flags' = [flags EXCEPT !.CF = b, !.OF = b]
      /\ opnd' = opnd /\ fault' = fault
  BY <1>1, <1>2, <1>3, <1>4 DEF execute_mul
<1>6. rax' \in Words64 /\ rdx' \in Words64
  BY <1>5, PairWord DEF Typed
<1>7. flags' \in Flags
  BY <1>5, WithFlag DEF Typed
<1> QED BY <1>5, <1>6, <1>7 DEF Typed

LEMMA TypedDiv ==
  ASSUME Typed, NEW w \in Widths, NEW op \in {"div", "idiv"}, execute_div(op, w)
  PROVE  Typed'
<1>1. PICK m \in Int : m = modulus(w) /\ m > 0
  BY Modulus
<1>2. PICK p \in Int : p = Pair(rax, rdx, w)
  <2>1. rax % m \in Int /\ rdx % m \in Int
    BY <1>1, Registers, SignedInt
  <2>2. m * (rdx % m) \in Int
    BY <1>1, <2>1
  <2>3. w = ByteBits => rax % modulus(2 * w) \in Int
    BY Registers, SignedInt, WidthsAssumption
  <2> QED BY <1>1, <2>1, <2>2, <2>3 DEF Pair
<1>3. PICK n \in Int : n = IF op = "div" THEN p ELSE Signed(p, m * m)
  <2>1. PICK s \in Int : s = m * m /\ s > 0
    BY <1>1
  <2>2. Signed(p, s) \in Int
    BY <2>1, SignedValue
  <2> QED BY <2>1, <2>2
<1>4. PICK d \in Int : d = IF op = "div" THEN opnd % m ELSE Signed(opnd, m)
  BY <1>1, Registers, SignedInt
<1>5. \/ rdx' = rdx /\ rax' = rax
      \/ d # 0 /\ WritePair(Truncated(n, d), n - Truncated(n, d) * d, w)
  BY <1>1, <1>2, <1>3, <1>4 DEF execute_div
<1>6. fault' \in BOOLEAN /\ opnd' = opnd /\ flags' = flags
  BY DEF execute_div, Typed
<1>7. rax' \in Words64 /\ rdx' \in Words64
  <2>1. CASE rdx' = rdx /\ rax' = rax
    BY <2>1 DEF Typed
  <2>2. CASE d # 0 /\ WritePair(Truncated(n, d), n - Truncated(n, d) * d, w)
    <3>1. PICK a \in Int, b \in Int : /\ a = (IF n < 0 THEN -n ELSE n)
                                      /\ b = (IF d < 0 THEN -d ELSE d) /\ b > 0
      BY <2>2
    <3>2. a \div b \in Int
      BY <3>1
    <3>3. PICK q \in Int : q = Truncated(n, d)
      BY <3>1, <3>2 DEF Truncated
    <3>4. PICK e \in Int : e = n - q * d
      OBVIOUS
    <3> QED BY <2>2, <3>3, <3>4, PairWord DEF Typed
  <2> QED BY <1>5, <2>1, <2>2
<1> QED BY <1>6, <1>7 DEF Typed

LEMMA WordOperand ==
  ASSUME NEW v \in Int, NEW w \in Widths
  PROVE  /\ WordBits \in Positions /\ w \in Positions /\ w \in 1 .. WordBits /\ WordBits \in Nat
         /\ v % modulus(w) \in Int /\ v % modulus(w) \in 0 .. modulus(w) - 1
         /\ modulus(w) \in Int /\ modulus(w) > 0
<1>1. w \in 1 .. WordBits /\ WordBits \in Nat
  BY WidthsAssumption, WordFacts
<1>2. w \in Positions
  BY <1>1 DEF Positions
<1>3. modulus(w) \in Int /\ modulus(w) > 0
  BY Modulus
<1> QED BY <1>1, <1>2, <1>3, WordFacts, Quotient

ShiftOperations == {"rol", "ror", "shl", "shr", "sar"}

LEMMA ShiftType ==
  ASSUME NEW op \in ShiftOperations, NEW x \in Int, NEW w \in Widths,
         NEW count \in 0 .. WordBits - 1, NEW result \in ShiftResults(op, x % modulus(w), w, count)
  PROVE  result \in Int
<1>1. PICK m \in Int : m = modulus(w) /\ m > 0
  BY Modulus
<1>2. PICK v \in Int : v = x % m
  BY <1>1
<1>3. count \in Positions
  BY WordFacts DEF Positions
<1>4. PICK p \in Int : p = 2^count /\ p > 0
  BY <1>3, Powers DEF modulus
<1>5. CASE op = "shl"
  <2>1. PICK y \in Int : y = u64(v * p)
    <3>1. v * p \in Int
      OBVIOUS
    <3> QED BY <3>1, WordFacts DEF u64
  <2>2. result = y % m
    BY <1>1, <1>2, <1>4, <1>5, <2>1 DEF ShiftResults
  <2> QED BY <1>1, <2>2
<1>6. CASE op = "shr"
  <2>1. result = (v \div p) % m
    BY <1>1, <1>2, <1>4, <1>6 DEF ShiftResults
  <2> QED BY <1>1, <1>4, <2>1
<1>7. CASE op = "sar"
  <2>1. PICK y \in Int : y = sign_extend(v, m)
    BY <1>1, SignedInt
  <2>2. result = (y \div p) % m
    BY <1>1, <1>2, <1>4, <1>7, <2>1 DEF ShiftResults, SarResult
  <2> QED BY <1>1, <1>4, <2>2
<1>8. CASE op \in {"rol", "ror"} /\ count > w
  <2>1. op \notin {"shl", "shr", "sar"} /\ ~(count <= w)
    BY <1>8, WordOperand
  <2>2. ShiftResults(op, x % modulus(w), w, count) = 0 .. m - 1
    BY <1>1, <1>8, <2>1 DEF ShiftResults
  <2> QED BY <1>1, <2>2
<1>9. CASE op \in {"rol", "ror"} /\ count <= w
  <2>0. ~(count > w)
    BY <1>9, WordOperand
  <2>1. PICK a, b : result = BitOr(a, b) % m
    BY <1>1, <1>9, <2>0 DEF ShiftResults
  <2>2. BitOr(a, b) \in Int
    BY BitwiseWords, WordFacts
  <2> QED BY <1>1, <2>1, <2>2
<1>10. count > w \/ count <= w
  BY WordOperand
<1> QED BY <1>5, <1>6, <1>7, <1>8, <1>9, <1>10 DEF ShiftOperations

LEMMA TypedShift ==
  ASSUME Typed, NEW w \in Widths, NEW op \in ShiftOperations, NEW count \in 0 .. WordBits - 1,
         execute_shift(op, w, count)
  PROVE  Typed'
<1>1. PICK result \in ShiftResults(op, opnd % modulus(w), w, count) :
         IF count = 0
         THEN opnd' = opnd /\ flags' = flags
         ELSE opnd' = write_gpr(opnd, result, w) /\ flags' = set_logic_flags(result, modulus(w))
  BY DEF execute_shift
<1>2. rax' = rax /\ rdx' = rdx /\ fault' = fault
  BY DEF execute_shift
<1>3. result \in Int
  BY <1>1, ShiftType, Registers
<1>4. write_gpr(opnd, result, w) \in Words64
  BY <1>3, WriteWord DEF Typed
<1>5. set_logic_flags(result, modulus(w)) \in Flags
  BY DEF set_logic_flags, result_flags, Flags, Negative, parity_even
<1> QED BY <1>1, <1>2, <1>4, <1>5 DEF Typed

LEMMA TypedDoubleShift ==
  ASSUME Typed, NEW w \in Widths, NEW op, NEW count, execute_double_shift(op, w, count)
  PROVE  Typed'
<1>1. PICK m \in Int : m = modulus(w) /\ m > 0
  BY Modulus
<1>2. PICK result \in Int : result = DoubleShift(op, opnd % m, rdx % m, w, count) % m
  <2>1. DoubleShift(op, opnd % m, rdx % m, w, count) \in Int
    BY BitwiseWords, WordFacts DEF DoubleShift
  <2> QED BY <1>1, <2>1
<1>3. PICK out, V : out = (IF op = "shld" THEN w - count ELSE count - 1) /\ V = Bits(opnd % m)
  OBVIOUS
<1>4. IF count = 0
      THEN opnd' = opnd /\ flags' = flags
      ELSE /\ opnd' = write_gpr(opnd, result, w)
           /\ flags' = result_flags(result, m, out \in V, FALSE)
  BY <1>1, <1>2, <1>3 DEF execute_double_shift
<1>5. rax' = rax /\ rdx' = rdx /\ fault' = fault
  BY DEF execute_double_shift
<1>6. write_gpr(opnd, result, w) \in Words64
  BY <1>2, WriteWord DEF Typed
<1>7. result_flags(result, m, out \in V, FALSE) \in Flags
  BY DEF result_flags, Flags, Negative, parity_even
<1> QED BY <1>4, <1>5, <1>6, <1>7 DEF Typed

LEMMA TypedBit ==
  ASSUME Typed, NEW w \in Widths, NEW op \in {"bt", "bts", "btr", "btc"}, execute_bit(op, w)
  PROVE  Typed'
<1>1. PICK j \in 0 .. w - 1 : j = (rdx % modulus(w)) % w
  <2>1. rdx % modulus(w) \in Int /\ w \in Int /\ w > 0
    BY Registers, WordOperand
  <2> QED BY <2>1
<1>2. PICK V \in SUBSET (0 .. WordBits - 1) : V = Bits(opnd % modulus(w))
  BY DEF Bits
<1>3. {j} \in SUBSET (0 .. WordBits - 1)
  BY <1>1, Registers, WordOperand
<1>4. PICK S \in SUBSET (0 .. WordBits - 1) :
        S = CASE op = "bt"  -> V
              [] op = "bts" -> V \cup {j}
              [] op = "btr" -> V \ {j}
              [] op = "btc" -> (V \cup {j}) \ (V \cap {j})
  BY <1>2, <1>3
<1>5. PICK b \in BOOLEAN : b = ({j} \subseteq V)
  OBVIOUS
<1>6. /\ flags' = [flags EXCEPT !.CF = b]
      /\ opnd' = IF S = V THEN opnd ELSE write_gpr(opnd, FromBits(S), w)
      /\ rax' = rax /\ rdx' = rdx /\ fault' = fault
  BY <1>1, <1>2, <1>4, <1>5 DEF execute_bit
<1>7. FromBits(S) \in Int
  BY FromBitsIs, WordFacts
<1>8. write_gpr(opnd, FromBits(S), w) \in Words64
  BY <1>7, WriteWord DEF Typed
<1>9. flags' \in Flags
  BY <1>6, WithFlag DEF Typed
<1> QED BY <1>6, <1>8, <1>9 DEF Typed

LEMMA TypedScan ==
  ASSUME Typed, NEW w \in Widths, NEW op, execute_scan(op, w)
  PROVE  Typed'
<1>1. PICK V \in SUBSET (0 .. WordBits - 1) : V = Bits(opnd % modulus(w))
  BY DEF Bits
<1>2. PICK b \in BOOLEAN : b = (V = {})
  OBVIOUS
<1>3. PICK x : x = IF op = "bsf" THEN Min(V) ELSE Max(V)
  OBVIOUS
<1>4. /\ rax' = IF V = {} THEN rax ELSE write_gpr(rax, x, w)
      /\ flags' = [flags EXCEPT !.ZF = b] /\ rdx' = rdx /\ opnd' = opnd /\ fault' = fault
  BY <1>1, <1>2, <1>3 DEF execute_scan
<1>5. V # {} => x \in Int
  <2>1. PICK n \in Nat : n = WordBits - 1
    BY WordFacts
  <2>2. V \in SUBSET (0 .. n) /\ \A i \in V : i \in Int
    BY <2>1
  <2>3. V # {} => Min(V) \in V /\ Max(V) \in V
    BY <2>2, Extremes
  <2> QED BY <1>3, <2>2, <2>3
<1>6. rax' \in Words64
  BY <1>4, <1>5, WriteWord DEF Typed
<1>7. flags' \in Flags
  BY <1>4, WithFlag DEF Typed
<1> QED BY <1>4, <1>6, <1>7 DEF Typed

LEMMA TypedImul ==
  ASSUME Typed, NEW w \in Widths, NEW op, execute_imul(op, w)
  PROVE  Typed'
<1>1. PICK m \in Int : m = modulus(w) /\ m > 0
  BY Modulus
<1>2. PICK x \in Int : x = Signed(opnd, m) * Signed(IF op = "imul2" THEN rax ELSE rdx, m)
  <2>1. Signed(opnd, m) \in Int /\ Signed(rax, m) \in Int /\ Signed(rdx, m) \in Int
    BY <1>1, Registers, SignedInt
  <2> QED BY <2>1
<1>3. PICK b \in BOOLEAN : b = (x # Signed(x, m))
  OBVIOUS
<1>4. /\ rax' = write_gpr(rax, x, w)
      /\ flags' = IF op = "imul2" THEN flags ELSE [flags EXCEPT !.CF = b, !.OF = b]
      /\ rdx' = rdx /\ opnd' = opnd /\ fault' = fault
  BY <1>1, <1>2, <1>3 DEF execute_imul
<1>5. rax' \in Words64
  BY <1>4, WriteWord DEF Typed
<1>6. flags' \in Flags
  BY <1>4, WithFlag DEF Typed
<1> QED BY <1>4, <1>5, <1>6 DEF Typed

LEMMA TypedCmpxchg ==
  ASSUME Typed, NEW w \in Widths, execute_cmpxchg(w)
  PROVE  Typed'
<1>1. write_gpr(opnd, rdx, w) \in Words64 /\ write_gpr(rax, opnd, w) \in Words64
  BY Registers, WriteWord DEF Typed
<1>2. PICK b \in BOOLEAN : b = (opnd % modulus(w) = rax % modulus(w))
  OBVIOUS
<1>3. /\ opnd' = IF b THEN write_gpr(opnd, rdx, w) ELSE opnd
      /\ rax' = IF b THEN rax ELSE write_gpr(rax, opnd, w)
      /\ flags' = [flags EXCEPT !.ZF = b] /\ rdx' = rdx /\ fault' = fault
  BY <1>2 DEF execute_cmpxchg
<1>4. flags' \in Flags
  BY <1>3, WithFlag DEF Typed
<1> QED BY <1>1, <1>3, <1>4 DEF Typed

LEMMA TypedXadd ==
  ASSUME Typed, NEW w \in Widths, execute_xadd(w)
  PROVE  Typed'
<1>1. PICK r : r = add(opnd, rdx, modulus(w), 0)
  OBVIOUS
<1>2. r.result \in Int /\ r.flags \in Flags
  <2>1. opnd \in Int /\ rdx \in Int /\ 0 \in Int
    BY Registers
  <2> QED BY <1>1, <2>1, AddType
<1>3. write_gpr(rdx, opnd, w) \in Words64 /\ write_gpr(opnd, r.result, w) \in Words64
  BY <1>2, Registers, WriteWord DEF Typed
<1>4. /\ rdx' = write_gpr(rdx, opnd, w) /\ opnd' = write_gpr(opnd, r.result, w)
      /\ flags' = r.flags /\ rax' = rax /\ fault' = fault
  BY <1>1 DEF execute_xadd
<1> QED BY <1>2, <1>3, <1>4 DEF Typed

LEMMA TypedExtend ==
  ASSUME Typed, NEW w \in Widths, NEW from \in Widths, NEW op, execute_extend(op, from, w)
  PROVE  Typed'
<1>1. PICK x \in Int : x = IF op = "movzx" THEN opnd % modulus(from)
                                           ELSE sign_extend(opnd, modulus(from))
  BY Registers, SignedInt
<1>2. /\ rax' = write_gpr(rax, x, w) /\ rdx' = rdx /\ opnd' = opnd /\ flags' = flags
      /\ fault' = fault
  BY <1>1 DEF execute_extend
<1>3. rax' \in Words64
  BY <1>2, WriteWord DEF Typed
<1> QED BY <1>2, <1>3 DEF Typed

LEMMA TypedWiden ==
  ASSUME Typed, NEW w \in Widths, NEW op \in {"cdqe", "cqo"}, execute_widen(op, w)
  PROVE  Typed'
<1>1. PICK half \in Widths : half = IF w = WordBits THEN LongBits ELSE 2 * ByteBits
  BY WidthsAssumption
<1>2. PICK x \in Int : x = sign_extend(rax, modulus(half))
  BY Registers, SignedInt
<1>3. PICK y \in Int : y = IF Negative(rax, modulus(w)) THEN modulus(w) - 1 ELSE 0
  BY Modulus
<1>4. /\ rax' = IF op = "cdqe" THEN write_gpr(rax, x, w) ELSE rax
      /\ rdx' = IF op = "cqo" THEN write_gpr(rdx, y, w) ELSE rdx
      /\ opnd' = opnd /\ flags' = flags /\ fault' = fault
  BY <1>1, <1>2, <1>3 DEF execute_widen
<1>5. write_gpr(rax, x, w) \in Words64 /\ write_gpr(rdx, y, w) \in Words64
  BY WriteWord DEF Typed
<1> QED BY <1>4, <1>5 DEF Typed

LEMMA TypedCondition ==
  ASSUME Typed, NEW w \in Widths, NEW op \in {"set", "cmov", "clc"}, NEW cc,
         execute_condition(op, cc, w)
  PROVE  Typed'
<1>1. PICK x \in Int : x = IF condition(cc, flags) THEN 1 ELSE 0
  OBVIOUS
<1>2. ByteBits \in Widths
  BY WidthsAssumption
<1>3. write_gpr(rax, x, ByteBits) \in Words64 /\ write_gpr(rax, opnd, w) \in Words64
  BY <1>2, WriteWord, Registers DEF Typed
<1>4. /\ rdx' = rdx /\ opnd' = opnd /\ fault' = fault
      /\ flags' = IF op = "clc" THEN [flags EXCEPT !.CF = FALSE] ELSE flags
      /\ rax' = CASE op = "set"  -> write_gpr(rax, x, ByteBits)
                  [] op = "cmov" -> IF condition(cc, flags) THEN write_gpr(rax, opnd, w) ELSE rax
                  [] op = "clc"  -> rax
  BY <1>1 DEF execute_condition
<1>5. flags' \in Flags
  BY <1>4, WithFlag DEF Typed
<1>6. rax' \in Words64
  BY <1>3, <1>4 DEF Typed
<1> QED BY <1>4, <1>5, <1>6 DEF Typed

\* What an instruction records is what it found.
LEMMA Recorded ==
  ASSUME Typed, NEW op, NEW w \in Widths, NEW count, Fetch(op, w, count), Typed'
  PROVE  TypeOK'
<1>1. ins' = [op |-> op, w |-> w, count |-> count,
              rax |-> rax, rdx |-> rdx, opnd |-> opnd, flags |-> flags]
  BY DEF Fetch
<1>2. /\ ins'.w = w /\ ins'.flags = flags /\ ins'.rax = rax /\ ins'.rdx = rdx /\ ins'.opnd = opnd
  BY <1>1
<1> QED BY <1>2 DEF TypeOK, Typed, Words64

LEMMA TypeStep == TypeOK /\ [Next]_vars => TypeOK'
<1> SUFFICES ASSUME TypeOK, [Next]_vars PROVE TypeOK'
  OBVIOUS
<1>1. CASE UNCHANGED vars
  BY <1>1 DEF TypeOK, vars
<1>2. Typed
  BY DEF TypeOK, Typed, Words64
<1>3. CASE Next
  <2>1. PICK w \in Widths : \E op, count : Fetch(op, w, count) /\ Typed'
    BY <1>2, <1>3, TypedAlu, TypedIncDec, TypedUnary, TypedMul, TypedDiv, TypedShift,
       TypedDoubleShift, TypedBit, TypedScan, TypedImul, TypedCmpxchg, TypedXadd, TypedExtend,
       TypedWiden, TypedCondition, Zenon DEF Next, ShiftOperations
  <2> QED BY <1>2, <2>1, Recorded, Zenon
<1> QED BY <1>1, <1>3

LEMMA TypeInit == Init => TypeOK
<1> SUFFICES ASSUME Init PROVE TypeOK
  OBVIOUS
<1>1. 0 \in 0 .. Word - 1 /\ WordBits \in Widths
  BY WordFacts, WidthsAssumption
<1>2. Words \subseteq 0 .. Word - 1 /\ HighWords \subseteq 0 .. Word - 1
  BY WidthsAssumption
<1>3. set_logic_flags(0, Word) \in Flags
  BY DEF set_logic_flags, result_flags, Flags, Negative, parity_even
<1> QED BY <1>1, <1>2, <1>3 DEF Init, TypeOK

\* Every instruction leaves words, whatever its operation and width.
THEOREM AluTypeCorrect == Spec => []TypeOK
BY TypeInit, TypeStep, PTL DEF Spec

-----------------------------------------------------------------------------
(* Shifts and rotations, bit by bit.                                       *)

LEMMA Width ==
  ASSUME NEW w \in Widths
  PROVE  /\ w \in Positions /\ w \in 1 .. WordBits /\ WordBits \in Nat /\ w \in Int
         /\ modulus(w) \in Int /\ modulus(w) > 0
<1>1. 0 \in Int
  OBVIOUS
<1> QED BY <1>1, WordOperand

\* A shift to the left, wrapped to a word.
LEMMA LeftBit ==
  ASSUME NEW x \in Int, NEW k, k \in 0 .. WordBits, NEW i, i \in 0 .. WordBits - 1
  PROVE  Bit(u64(x * modulus(k)), i) <=> i >= k /\ Bit(x, i - k)
<1>0. WordBits \in Nat /\ WordBits \in Positions /\ k \in Positions /\ i \in Positions /\ k \in Int
  BY WordFacts DEF Positions
<1>1. PICK p \in Int : p = modulus(k) /\ p > 0
  BY <1>0, Powers
<1>2. PICK y \in Int : y = x * p
  BY <1>1
<1>3. y = x * modulus(k) + 0 /\ 0 \in 0 .. modulus(k) - 1
  BY <1>1, <1>2
<1>4. Bit(u64(y), i) <=> Bit(y, i)
  BY <1>0, WrappedBits, WordFacts DEF u64
<1>5. CASE i >= k
  <2>1. Bit(y, i) <=> Bit(x, i - k)
    BY <1>0, <1>3, <1>5, HighBits
  <2> QED BY <1>1, <1>2, <1>4, <1>5, <2>1
<1>6. CASE ~(i >= k)
  <2>1. i \in 0 .. k - 1
    BY <1>0, <1>6
  <2>2. Bit(y, i) <=> Bit(0, i)
    BY <1>0, <1>3, <2>1, LowBits
  <2> QED BY <1>0, <1>1, <1>2, <1>4, <1>6, <2>2, ZeroBits
<1> QED BY <1>5, <1>6

\* A disjunction, wrapped to a width.
LEMMA JoinedBit ==
  ASSUME NEW w \in Widths, NEW a, NEW b, NEW i, i \in 0 .. w - 1
  PROVE  Bit(BitOr(a, b) % modulus(w), i) <=> Bit(a, i) \/ Bit(b, i)
<1>1. w \in Positions /\ i \in 0 .. WordBits - 1
  BY WordOperand, WordFacts
<1>2. BitOr(a, b) \in Int
  BY BitwiseWords, WordFacts
<1>3. Bit(BitOr(a, b) % modulus(w), i) <=> Bit(BitOr(a, b), i)
  BY <1>1, <1>2, WrappedBits
<1> QED BY <1>1, <1>3, OrBits

\* The two halves of a shift: what moves up by c and what moves down by w - c.
Up(x, low, w, c, y) ==
  \A i \in 0 .. w - 1 : Bit(y, i) <=> (i >= c /\ Bit(x, i - c)) \/ Bit(low, i + w - c)
Down(x, high, w, c, y) ==
  \A i \in 0 .. w - 1 : Bit(y, i) <=> Bit(x, i + c) \/ (i >= w - c /\ Bit(high, i - (w - c)))

LEMMA ShiftUp ==
  ASSUME NEW w \in Widths, NEW c \in 0 .. w - 1, NEW x \in Int, NEW low \in Int
  PROVE  Up(x, low, w, c, BitOr(u64(x * 2^c), low \div 2^(w - c)) % modulus(w))
<1>1. /\ c \in 0 .. WordBits /\ w - c \in Positions /\ w \in 1 .. WordBits
      /\ WordBits \in Nat /\ w \in Int /\ c \in Int
  BY Width DEF Positions
<1> SUFFICES ASSUME NEW i \in 0 .. w - 1
             PROVE  Bit(BitOr(u64(x * 2^c), low \div 2^(w - c)) % modulus(w), i)
                      <=> (i >= c /\ Bit(x, i - c)) \/ Bit(low, i + w - c)
  BY DEF Up
<1>2. /\ i \in 0 .. WordBits - 1 /\ i \in Positions /\ (w - c) + i \in Positions
      /\ i + w - c = (w - c) + i
  BY <1>1 DEF Positions
<1>3. Bit(u64(x * modulus(c)), i) <=> i >= c /\ Bit(x, i - c)
  BY <1>1, <1>2, LeftBit
<1>4. Bit(low \div modulus(w - c), i) <=> Bit(low, (w - c) + i)
  BY <1>1, <1>2, ShiftedBit
<1>5. 2^c = modulus(c) /\ 2^(w - c) = modulus(w - c)
  BY DEF modulus
<1>6. Bit(BitOr(u64(x * 2^c), low \div 2^(w - c)) % modulus(w), i)
        <=> Bit(u64(x * 2^c), i) \/ Bit(low \div 2^(w - c), i)
  BY JoinedBit
<1> QED BY <1>2, <1>3, <1>4, <1>5, <1>6

LEMMA ShiftDown ==
  ASSUME NEW w \in Widths, NEW c \in 0 .. w - 1, NEW x \in Int, NEW high \in Int
  PROVE  Down(x, high, w, c, BitOr(x \div 2^c, u64(high * 2^(w - c))) % modulus(w))
<1>1. /\ c \in Positions /\ w - c \in 0 .. WordBits /\ w \in 1 .. WordBits
      /\ WordBits \in Nat /\ w \in Int /\ c \in Int
  BY Width DEF Positions
<1> SUFFICES ASSUME NEW i \in 0 .. w - 1
             PROVE  Bit(BitOr(x \div 2^c, u64(high * 2^(w - c))) % modulus(w), i)
                      <=> Bit(x, i + c) \/ (i >= w - c /\ Bit(high, i - (w - c)))
  BY DEF Down
<1>2. i \in 0 .. WordBits - 1 /\ i \in Positions /\ c + i \in Positions /\ i + c = c + i
  BY <1>1 DEF Positions
<1>3. Bit(u64(high * modulus(w - c)), i) <=> i >= w - c /\ Bit(high, i - (w - c))
  BY <1>1, <1>2, LeftBit
<1>4. Bit(x \div modulus(c), i) <=> Bit(x, c + i)
  BY <1>1, <1>2, ShiftedBit
<1>5. 2^c = modulus(c) /\ 2^(w - c) = modulus(w - c)
  BY DEF modulus
<1>6. Bit(BitOr(x \div 2^c, u64(high * 2^(w - c))) % modulus(w), i)
        <=> Bit(x \div 2^c, i) \/ Bit(u64(high * 2^(w - c)), i)
  BY JoinedBit
<1> QED BY <1>2, <1>3, <1>4, <1>5, <1>6

\* A shift by nothing.
LEMMA ShiftNot ==
  ASSUME NEW w \in Widths, NEW x \in 0 .. modulus(w) - 1, NEW y \in 0 .. modulus(w) - 1
  PROVE  Up(x, y, w, 0, x) /\ Down(x, y, w, 0, x)
<1>1. w \in Positions /\ w \in 1 .. WordBits /\ WordBits \in Nat /\ modulus(w) \in Int
  BY Width
<1>2. ASSUME NEW i \in 0 .. w - 1
      PROVE  /\ ~Bit(y, i + w - 0) /\ i - 0 = i /\ i + 0 = i /\ i >= 0 /\ ~(i >= w - 0)
  <2>1. i + w - 0 \in Positions /\ i + w - 0 >= w
    BY <1>1 DEF Positions
  <2> QED BY <1>1, <2>1, SmallBits
<1>3. ASSUME NEW i \in 0 .. w - 1
      PROVE  /\ Bit(x, i) <=> (i >= 0 /\ Bit(x, i - 0)) \/ Bit(y, i + w - 0)
             /\ Bit(x, i) <=> Bit(x, i + 0) \/ (i >= w - 0 /\ Bit(y, i - (w - 0)))
  <2>1. /\ ~Bit(y, i + w - 0) /\ i - 0 = i /\ i + 0 = i /\ i >= 0 /\ ~(i >= w - 0)
    BY <1>2
  <2> QED BY <2>1
<1> QED BY <1>3 DEF Up, Down

\* Of two words in a row, the bits from position k on.
LEMMA WindowBit ==
  ASSUME NEW w \in Widths, NEW high \in Int, NEW low \in 0 .. modulus(w) - 1, NEW k \in 0 .. w,
         NEW i \in 0 .. w - 1
  PROVE  Bit(((high * modulus(w) + low) \div modulus(k)) % modulus(w), i)
           <=> IF i + k >= w THEN Bit(high, i + k - w) ELSE Bit(low, i + k)
<1>1. /\ w \in Positions /\ w \in 1 .. WordBits /\ WordBits \in Nat
      /\ modulus(w) \in Int /\ modulus(w) > 0
  BY Width
<1>2. /\ k \in Positions /\ i \in Positions /\ k + i \in Positions /\ k + i = i + k
      /\ i + k \in Positions /\ i + k \in Int
  BY <1>1 DEF Positions
<1>3. PICK n \in Int : n = high * modulus(w)
  BY <1>1
<1>4. PICK x \in Int : x = high * modulus(w) + low
  BY <1>1, <1>3
<1>5. PICK y \in Int : y = x \div modulus(k)
  <2>1. modulus(k) \in Int /\ modulus(k) > 0
    BY <1>2, Powers
  <2> QED BY <2>1
<1>6. Bit(y % modulus(w), i) <=> Bit(y, i)
  BY <1>1, WrappedBits
<1>7. Bit(y, i) <=> Bit(x, i + k)
  BY <1>2, <1>5, ShiftedBit
<1>8. CASE i + k >= w
  <2>0. PICK j \in Positions : j = i + k /\ j >= w
    BY <1>2, <1>8
  <2>1. Bit(x, j) <=> Bit(high, j - w)
    BY <1>1, <1>4, <2>0, HighBits
  <2>2. j - w = i + k - w
    BY <1>1, <2>0
  <2>3. Bit(x, i + k) <=> Bit(high, i + k - w)
    BY <2>0, <2>1, <2>2, Zenon
  <2> QED BY <1>4, <1>5, <1>6, <1>7, <1>8, <2>3
<1>9. CASE ~(i + k >= w)
  <2>1. i + k \in 0 .. w - 1
    BY <1>1, <1>9
  <2>2. low \in Int
    BY <1>1
  <2>3. Bit(x, i + k) <=> Bit(low, i + k)
    BY <1>1, <1>4, <2>1, <2>2, LowBits
  <2> QED BY <1>4, <1>5, <1>6, <1>7, <1>9, <2>3
<1> QED BY <1>8, <1>9

\* SHLD and SHRD take a window out of the two words.
LEMMA UpWindow ==
  ASSUME NEW w \in Widths, NEW c \in 0 .. w - 1, NEW y \in 0 .. modulus(w) - 1,
         NEW x \in 0 .. modulus(w) - 1, NEW low \in 0 .. modulus(w) - 1, Up(x, low, w, c, y)
  PROVE  y = ((x * modulus(w) + low) \div modulus(w - c)) % modulus(w)
<1>1. /\ w \in Positions /\ w \in 1 .. WordBits /\ WordBits \in Nat /\ w - c \in 0 .. w
      /\ modulus(w) \in Int /\ modulus(w) > 0 /\ x \in Int /\ y \in Int /\ low \in Int /\ c \in Int
  BY Width
<1>2. PICK z \in 0 .. modulus(w) - 1 :
        z = ((x * modulus(w) + low) \div modulus(w - c)) % modulus(w)
  <2>0. w - c \in Positions
    BY <1>1 DEF Positions
  <2>1. modulus(w - c) \in Int /\ modulus(w - c) > 0
    BY <2>0, Powers
  <2>2. x * modulus(w) + low \in Int
    BY <1>1
  <2>3. (x * modulus(w) + low) \div modulus(w - c) \in Int
    BY <2>1, <2>2
  <2> QED BY <1>1, <2>3
<1>3. ASSUME NEW i \in 0 .. w - 1 PROVE Bit(y, i) <=> Bit(z, i)
  <2>1. Bit(z, i) <=> IF i + (w - c) >= w THEN Bit(x, i + (w - c) - w) ELSE Bit(low, i + (w - c))
    BY <1>1, <1>2, WindowBit
  <2>2. Bit(y, i) <=> (i >= c /\ Bit(x, i - c)) \/ Bit(low, i + w - c)
    BY DEF Up
  <2>3. /\ i + (w - c) >= w <=> i >= c
        /\ i + (w - c) - w = i - c /\ i + (w - c) = i + w - c
    BY <1>1
  <2>4. i >= c => ~Bit(low, i + w - c)
    <3>1. i >= c => i + w - c \in Positions /\ i + w - c >= w
      BY <1>1 DEF Positions
    <3> QED BY <1>1, <3>1, SmallBits
  <2> QED BY <2>1, <2>2, <2>3, <2>4
<1>4. y = z
  BY <1>1, <1>3, SameBits
<1> QED BY <1>2, <1>4

LEMMA DownWindow ==
  ASSUME NEW w \in Widths, NEW c \in 0 .. w - 1, NEW y \in 0 .. modulus(w) - 1,
         NEW x \in 0 .. modulus(w) - 1, NEW high \in 0 .. modulus(w) - 1, Down(x, high, w, c, y)
  PROVE  y = ((high * modulus(w) + x) \div modulus(c)) % modulus(w)
<1>1. /\ w \in Positions /\ w \in 1 .. WordBits /\ WordBits \in Nat /\ c \in 0 .. w
      /\ modulus(w) \in Int /\ modulus(w) > 0 /\ x \in Int /\ y \in Int /\ high \in Int /\ c \in Int
  BY Width
<1>2. PICK z \in 0 .. modulus(w) - 1 :
        z = ((high * modulus(w) + x) \div modulus(c)) % modulus(w)
  <2>0. c \in Positions
    BY <1>1 DEF Positions
  <2>1. modulus(c) \in Int /\ modulus(c) > 0
    BY <2>0, Powers
  <2>2. high * modulus(w) + x \in Int
    BY <1>1
  <2>3. (high * modulus(w) + x) \div modulus(c) \in Int
    BY <2>1, <2>2
  <2> QED BY <1>1, <2>3
<1>3. ASSUME NEW i \in 0 .. w - 1 PROVE Bit(y, i) <=> Bit(z, i)
  <2>1. Bit(z, i) <=> IF i + c >= w THEN Bit(high, i + c - w) ELSE Bit(x, i + c)
    BY <1>1, <1>2, WindowBit
  <2>2. Bit(y, i) <=> Bit(x, i + c) \/ (i >= w - c /\ Bit(high, i - (w - c)))
    BY DEF Down
  <2>3. (i + c >= w <=> i >= w - c) /\ i + c - w = i - (w - c)
    BY <1>1
  <2>4. i + c >= w => ~Bit(x, i + c)
    <3>1. i + c \in Positions
      BY <1>1 DEF Positions
    <3> QED BY <1>1, <3>1, SmallBits
  <2> QED BY <2>1, <2>2, <2>3, <2>4
<1>4. y = z
  BY <1>1, <1>3, SameBits
<1> QED BY <1>2, <1>4

\* A rotation permutes the positions.
Rotated(x, w, c, y) ==
  \A i \in 0 .. w - 1 : Bit(y, i) <=> IF i >= c THEN Bit(x, i - c) ELSE Bit(x, i + w - c)

LEMMA UpRotates ==
  ASSUME NEW w \in Widths, NEW c \in 0 .. w - 1, NEW y, NEW x \in 0 .. modulus(w) - 1,
         Up(x, x, w, c, y)
  PROVE  Rotated(x, w, c, y)
<1>1. /\ w \in Positions /\ w \in 1 .. WordBits /\ WordBits \in Nat /\ c \in Int
  BY Width
<1>2. ASSUME NEW i \in 0 .. w - 1
      PROVE  Bit(y, i) <=> IF i >= c THEN Bit(x, i - c) ELSE Bit(x, i + w - c)
  <2>1. Bit(y, i) <=> (i >= c /\ Bit(x, i - c)) \/ Bit(x, i + w - c)
    BY DEF Up
  <2>2. i >= c => ~Bit(x, i + w - c)
    <3>1. i >= c => i + w - c \in Positions /\ i + w - c >= w
      BY <1>1 DEF Positions
    <3> QED BY <1>1, <3>1, SmallBits
  <2> QED BY <2>1, <2>2
<1> QED BY <1>2 DEF Rotated

LEMMA DownRotates ==
  ASSUME NEW w \in Widths, NEW c \in 0 .. w - 1, NEW y, NEW x \in 0 .. modulus(w) - 1,
         Down(x, x, w, c, y)
  PROVE  Rotated(y, w, c, x)
<1>1. /\ w \in Positions /\ w \in 1 .. WordBits /\ WordBits \in Nat /\ c \in Int
  BY Width
<1>2. ASSUME NEW i \in 0 .. w - 1
      PROVE  Bit(x, i) <=> IF i >= c THEN Bit(y, i - c) ELSE Bit(y, i + w - c)
  <2>1. CASE i >= c
    <3>1. PICK j \in 0 .. w - 1 : j = i - c /\ j + c = i /\ ~(j >= w - c)
      BY <1>1, <2>1
    <3>2. Bit(y, j) <=> Bit(x, j + c) \/ (j >= w - c /\ Bit(x, j - (w - c)))
      BY DEF Down
    <3> QED BY <2>1, <3>1, <3>2
  <2>2. CASE ~(i >= c)
    <3>1. PICK j \in 0 .. w - 1 : /\ j = i + w - c /\ j >= w - c /\ j - (w - c) = i
                                  /\ j + c \in Positions /\ j + c >= w
      BY <1>1, <2>2 DEF Positions
    <3>2. Bit(y, j) <=> Bit(x, j + c) \/ (j >= w - c /\ Bit(x, j - (w - c)))
      BY DEF Down
    <3>3. ~Bit(x, j + c)
      BY <1>1, <3>1, SmallBits
    <3> QED BY <2>2, <3>1, <3>2, <3>3
  <2> QED BY <2>1, <2>2
<1> QED BY <1>2 DEF Rotated

LEMMA RotatedBits ==
  ASSUME NEW w \in Widths, NEW c \in 0 .. w - 1, NEW x \in 0 .. modulus(w) - 1,
         NEW y \in 0 .. modulus(w) - 1, Rotated(x, w, c, y)
  PROVE  Bits(y) = {(i + c) % w : i \in Bits(x)}
<1>1. /\ w \in Positions /\ w \in 1 .. WordBits /\ WordBits \in Nat /\ c \in Int /\ w \in Int
      /\ modulus(w) \in Int
  BY Width
<1>2. ASSUME NEW v \in 0 .. modulus(w) - 1
      PROVE  \A i : i \in Bits(v) <=> i \in 0 .. w - 1 /\ Bit(v, i)
  <2> SUFFICES ASSUME NEW i \in 0 .. WordBits - 1, Bit(v, i) PROVE i \in 0 .. w - 1
    BY <1>1, BitsAre
  <2>1. i \in Positions /\ (i >= w => ~Bit(v, i))
    BY <1>1, SmallBits DEF Positions
  <2> QED BY <1>1, <2>1
<1>3. ASSUME NEW i \in 0 .. w - 1
      PROVE  (i + c) % w = IF i + c >= w THEN i + c - w ELSE i + c
  BY <1>1, NearRemainders
<1>4. ASSUME NEW j \in Bits(y) PROVE \E i \in Bits(x) : j = (i + c) % w
  <2>1. j \in 0 .. w - 1 /\ Bit(y, j)
    BY <1>2
  <2>2. Bit(y, j) <=> IF j >= c THEN Bit(x, j - c) ELSE Bit(x, j + w - c)
    BY <2>1 DEF Rotated
  <2>3. PICK i \in 0 .. w - 1 : /\ i = IF j >= c THEN j - c ELSE j + w - c
                                /\ j = IF i + c >= w THEN i + c - w ELSE i + c
    <3>1. CASE j >= c
      <4>1. PICK i \in 0 .. w - 1 : i = j - c
        BY <1>1, <2>1, <3>1
      <4>2. j = i + c /\ ~(i + c >= w)
        BY <1>1, <2>1, <4>1
      <4> QED BY <3>1, <4>1, <4>2
    <3>2. CASE ~(j >= c)
      <4>1. PICK i \in 0 .. w - 1 : i = j + w - c
        BY <1>1, <2>1, <3>2
      <4>2. j = i + c - w /\ i + c >= w
        BY <1>1, <2>1, <4>1
      <4> QED BY <3>2, <4>1, <4>2
    <3> QED BY <3>1, <3>2
  <2>4. i \in Bits(x)
    BY <1>2, <2>1, <2>2, <2>3
  <2>5. j = (i + c) % w
    BY <1>3, <2>3
  <2> QED BY <2>4, <2>5
<1>5. ASSUME NEW i \in Bits(x) PROVE (i + c) % w \in Bits(y)
  <2>1. i \in 0 .. w - 1 /\ Bit(x, i)
    BY <1>2
  <2>2. PICK j \in 0 .. w - 1 : /\ j = IF i + c >= w THEN i + c - w ELSE i + c
                                /\ i = IF j >= c THEN j - c ELSE j + w - c
    <3>1. CASE i + c >= w
      <4>1. PICK j \in 0 .. w - 1 : j = i + c - w
        BY <1>1, <2>1, <3>1
      <4>2. i = j + w - c /\ ~(j >= c)
        BY <1>1, <2>1, <4>1
      <4> QED BY <3>1, <4>1, <4>2
    <3>2. CASE ~(i + c >= w)
      <4>1. PICK j \in 0 .. w - 1 : j = i + c
        BY <1>1, <2>1, <3>2
      <4>2. i = j - c /\ j >= c
        BY <1>1, <2>1, <4>1
      <4> QED BY <3>2, <4>1, <4>2
    <3> QED BY <3>1, <3>2
  <2>3. Bit(y, j) <=> IF j >= c THEN Bit(x, j - c) ELSE Bit(x, j + w - c)
    BY DEF Rotated
  <2>4. j \in Bits(y)
    BY <1>2, <2>1, <2>2, <2>3
  <2>5. j = (i + c) % w
    BY <1>3, <2>1, <2>2
  <2> QED BY <2>4, <2>5
<1> QED BY <1>4, <1>5

-----------------------------------------------------------------------------
(* Shifts as multiplication and division.                                  *)

\* Wrapping to a word first does not change what is wrapped to a width.
LEMMA WrapTwice ==
  ASSUME NEW w \in Widths, NEW x \in Int
  PROVE  u64(x) % modulus(w) = x % modulus(w)
<1>1. PICK m \in Int, k \in Int : m = modulus(w) /\ m > 0 /\ k > 0 /\ Word = m * k
  <2>1. WordBits \in Positions /\ w \in 0 .. WordBits
    BY WordFacts, Width
  <2> QED BY <2>1, Split, WordFacts
<1>2. PICK y \in Int, a \in Int : y = u64(x) /\ x = a * Word + y
  <2>1. x \div Word \in Int /\ x % Word \in 0 .. Word - 1 /\ x = (x \div Word) * Word + (x % Word)
    BY WordFacts, Quotient
  <2> QED BY <2>1, WordFacts DEF u64
<1>3. PICK b \in Int, r \in 0 .. m - 1 : r = y % m /\ y = b * m + r
  <2>1. y \div m \in Int /\ y % m \in 0 .. m - 1 /\ y = (y \div m) * m + (y % m)
    BY <1>1, Quotient
  <2> QED BY <2>1
<1>4. PICK n \in Int : n = a * k + b
  OBVIOUS
<1>5. x = n * m + r
  <2>1. x = a * (m * k) + (b * m + r)
    BY <1>1, <1>2, <1>3
  <2>2. n * m = a * (m * k) + b * m
    BY <1>4
  <2> QED BY <2>1, <2>2
<1>6. x % m = r
  BY <1>1, <1>5, Remainder
<1> QED BY <1>1, <1>2, <1>3, <1>6

LEMMA Shr ==
  ASSUME NEW w \in Widths, NEW v \in 0 .. modulus(w) - 1, NEW p \in Int, p > 0
  PROVE  v \div p \in 0 .. modulus(w) - 1 /\ (v \div p) % modulus(w) = v \div p
<1>1. PICK m \in Int : m = modulus(w) /\ m > 0
  BY Width
<1>2. PICK q \in Int, r \in 0 .. p - 1 : q = v \div p /\ v = q * p + r
  <2>0. v \in Int
    BY <1>1
  <2>1. v \div p \in Int /\ v % p \in 0 .. p - 1 /\ v = (v \div p) * p + (v % p)
    BY <2>0, Quotient
  <2> QED BY <2>1
<1>3. q >= 0
  <2>1. q <= -1 => q * p <= (-1) * p
    OBVIOUS
  <2> QED BY <1>1, <1>2, <2>1
<1>4. q * p >= q * 1
  BY <1>3
<1>5. q \in 0 .. m - 1
  BY <1>1, <1>2, <1>3, <1>4
<1>6. q % m = q
  BY <1>1, <1>5, NearRemainders
<1> QED BY <1>1, <1>2, <1>5, <1>6

\* Below the width of u64 the bits that follow the sign into the word do not reach
\* the result.
LEMMA Sar ==
  ASSUME NEW w \in Widths, w # WordBits, NEW c \in 0 .. w - 1, NEW v \in Int, NEW x \in Int,
         x % modulus(w) = SarResult(v, modulus(w), c)
  PROVE  Signed(x, modulus(w)) = Signed(v, modulus(w)) \div modulus(c)
<1>0. 2 * w <= WordBits
  BY WidthsAssumption
<1>1. /\ w \in Positions /\ w \in 1 .. WordBits /\ WordBits \in Nat /\ w \in Int /\ c \in Int
      /\ WordBits \in Positions
  BY Width, WordFacts
<1>2. /\ c \in 0 .. WordBits /\ WordBits - c \in Positions /\ w \in 0 .. WordBits - c
  BY <1>0, <1>1 DEF Positions
<1>3. PICK p \in Int, t \in Int : /\ p = modulus(c) /\ p > 0 /\ t = modulus(WordBits - c) /\ t > 0
                                  /\ Word = p * t
  BY <1>1, <1>2, Split, WordFacts
<1>4. PICK m \in Int, k \in Int : m = modulus(w) /\ m > 0 /\ k > 0 /\ t = m * k
  BY <1>2, <1>3, Split
<1>5. PICK h \in Int : h > 0 /\ m = 2 * h
  BY <1>4, Half
<1>6. PICK s \in -h .. h - 1 : s = Signed(v, m)
  BY <1>5, SignedRange
<1>7. PICK q \in Int, r \in 0 .. p - 1 : q = s \div p /\ s = q * p + r
  <2>0. s \in Int
    BY <1>5
  <2>1. s \div p \in Int /\ s % p \in 0 .. p - 1 /\ s = (s \div p) * p + (s % p)
    BY <1>3, <2>0, Quotient
  <2> QED BY <2>1
<1>8. q \in -h .. h - 1
  <2>1. q >= 0 => q * p >= q * 1
    BY <1>3
  <2>2. q <= -h - 1 => q * p <= (-h - 1) * p
    BY <1>3
  <2>3. (-h - 1) * p = -(h * p) - p /\ h * p >= h * 1
    BY <1>3, <1>5
  <2>4. h * p \in Int
    BY <1>3
  <2> QED BY <1>3, <1>5, <1>7, <2>1, <2>2, <2>3, <2>4
<1>9. PICK y \in Int, e \in Int : y = sign_extend(v, m) /\ s = e * Word + y
  <2>1. s \div Word \in Int /\ s % Word \in 0 .. Word - 1 /\ s = (s \div Word) * Word + (s % Word)
    BY WordFacts, Quotient
  <2> QED BY <1>6, <2>1, WordFacts DEF sign_extend, u64
<1>10. PICK z \in Int : z = q - e * t
  BY <1>3
<1>11. y = z * p + r
  <2>0. PICK n \in Int : n = e * (p * t)
    BY <1>3
  <2>1. y = (q * p + r) - e * (p * t)
    <3>1. e * Word = n
      BY <1>3, <2>0
    <3>2. PICK f \in Int : f = q * p
      BY <1>3
    <3>3. s = f + r /\ s = n + y
      BY <1>7, <1>9, <3>1, <3>2, Zenon
    <3>4. r \in Int
      BY <1>3
    <3>5. y = f + r - n
      BY <3>3, <3>4
    <3>6. y = (f + r) - n
      BY <3>4, <3>5
    <3> QED BY <2>0, <3>2, <3>6, Zenon
  <2>2. z * p = q * p - e * (p * t)
    BY <1>3, <1>10
  <2> QED BY <2>1, <2>2
<1>12. y \div p = z
  BY <1>3, <1>11, Division
<1>13. x % m = z % m
  BY <1>3, <1>4, <1>12, <1>9 DEF SarResult, modulus
<1>14. PICK j \in Int : j = -(e * k)
  BY <1>4
<1>15. z = j * m + q
  <2>1. z = q - e * (m * k)
    BY <1>4, <1>10
  <2>2. j * m = -(e * (m * k))
    BY <1>4, <1>14
  <2> QED BY <1>4, <2>1, <2>2
<1>16. Signed(z, m) = q
  BY <1>5, <1>8, <1>15, SignedUnique
<1>17. Signed(x, m) = Signed(z, m)
  BY <1>4, <1>13, SignedCongruent
<1> QED BY <1>3, <1>4, <1>6, <1>7, <1>16, <1>17

LEMMA Once ==
  ASSUME NEW x \in Int
  PROVE  2^0 = 1 /\ modulus(0) = 1 /\ x * 1 = x /\ x \div 1 = x
<1>1. x = x * 1 + 0 /\ 0 \in 0 .. 1 - 1 /\ 1 > 0
  OBVIOUS
<1>2. x \div 1 = x
  BY <1>1, Division
<1> QED BY <1>2, PowersAssumption DEF modulus

-----------------------------------------------------------------------------
(* The steps.                                                              *)

\* What an exact shift leaves, as a relation of the operands and the result.
Exact(op, v, s, w, c, y) ==
  /\ op = "shl" => y % modulus(w) = (v * 2^c) % modulus(w)
  /\ op = "shr" => y % modulus(w) = v \div 2^c
  /\ op = "sar" /\ w # WordBits => Signed(y, modulus(w)) = Signed(v, modulus(w)) \div 2^c
  /\ op = "rol" => Bits(y % modulus(w)) = {(i + c) % w : i \in Bits(v)}
  /\ op = "ror" => Bits(v) = {(i + c) % w : i \in Bits(y % modulus(w))}
  /\ op = "shld" => y % modulus(w) = ((v * modulus(w) + s) \div 2^(w - c)) % modulus(w)
  /\ op = "shrd" => y % modulus(w) = ((s * modulus(w) + v) \div 2^c) % modulus(w)

LEMMA ExactNot ==
  ASSUME NEW w \in Widths, NEW op, NEW x \in Int, NEW s \in 0 .. modulus(w) - 1
  PROVE  Exact(op, x % modulus(w), s, w, 0, x)
<1>1. PICK m \in Int : m = modulus(w) /\ m > 0
  BY Width
<1>2. PICK v \in 0 .. m - 1 : v = x % m
  BY <1>1, Quotient
<1>3. v \in Int /\ v % m = v
  BY <1>1, NearRemainders
<1>4. 2^0 = 1 /\ modulus(0) = 1 /\ v * 1 = v /\ v \div 1 = v
  BY <1>3, Once
<1>5. Signed(x, m) = Signed(v, m) \div 2^0
  <2>1. Signed(x, m) = Signed(v, m)
    BY <1>1, <1>2, <1>3, SignedCongruent
  <2>2. Signed(v, m) \in Int
    BY <1>1, <1>3, SignedInt
  <2> QED BY <2>1, <2>2, Once
<1>6. 0 \in 0 .. w - 1 /\ w - 0 = w
  BY Width
<1>7. Up(v, s, w, 0, v) /\ Down(v, s, w, 0, v) /\ Up(v, v, w, 0, v)
  BY <1>1, ShiftNot
<1>8. Bits(v) = {(i + 0) % w : i \in Bits(v)}
  <2>1. Rotated(v, w, 0, v)
    BY <1>1, <1>6, <1>7, UpRotates
  <2> QED BY <1>1, <1>6, <2>1, RotatedBits
<1>9. v = ((v * modulus(w) + s) \div modulus(w - 0)) % modulus(w)
  BY <1>1, <1>6, <1>7, UpWindow
<1>10. v = ((s * modulus(w) + v) \div modulus(0)) % modulus(w)
  BY <1>1, <1>6, <1>7, DownWindow
<1>11. 2^(w - 0) = modulus(w - 0) /\ 2^0 = modulus(0)
  BY DEF modulus
<1> QED BY <1>1, <1>2, <1>3, <1>4, <1>5, <1>8, <1>9, <1>10, <1>11, Zenon DEF Exact

LEMMA ShiftExact ==
  ASSUME NEW w \in Widths, NEW c \in 0 .. w - 1, NEW op \in ShiftOperations, NEW x \in Int, NEW s,
         NEW result \in ShiftResults(op, x % modulus(w), w, c),
         NEW y \in Int, y % modulus(w) = result % modulus(w)
  PROVE  Exact(op, x % modulus(w), s, w, c, y)
<1>1. PICK m \in Int : m = modulus(w) /\ m > 0
  BY Width
<1>2. PICK v \in 0 .. m - 1 : v = x % m
  BY <1>1, Quotient
<1>3. v \in Int /\ c <= w /\ ~(c > w) /\ c \in Positions
  BY <1>1, Width DEF Positions
<1>4. PICK p \in Int : p = 2^c /\ p = modulus(c) /\ p > 0
  BY <1>3, Powers DEF modulus
<1>5. result \in ShiftResults(op, v, w, c) /\ y % m = result % m
  BY <1>1, <1>2
<1>6. ASSUME NEW z \in Int, result = z % m PROVE y % m = z % m /\ result \in 0 .. m - 1
  <2>1. z % m \in 0 .. m - 1
    BY <1>1
  <2>2. (z % m) % m = z % m
    BY <1>1, <2>1, NearRemainders
  <2> QED BY <1>5, <1>6, <2>1, <2>2
<1>7. CASE op = "shl"
  <2>1. PICK z \in Int : z = v * p
    BY <1>3
  <2>2. u64(z) \in Int /\ u64(z) % m = z % m
    BY <1>1, WrapTwice, WordFacts DEF u64
  <2>3. result = u64(z) % m
    BY <1>1, <1>4, <1>5, <1>7, <2>1 DEF ShiftResults
  <2>4. y % m = (v * 2^c) % m
    BY <1>4, <1>6, <2>1, <2>2, <2>3
  <2> QED BY <1>1, <1>2, <1>7, <2>4 DEF Exact
<1>8. CASE op = "shr"
  <2>1. result = (v \div p) % m
    BY <1>1, <1>4, <1>5, <1>8 DEF ShiftResults
  <2>2. v \div p \in Int /\ (v \div p) % m = v \div p
    BY <1>1, <1>3, <1>4, Shr
  <2>3. y % m = v \div 2^c
    BY <1>4, <1>6, <2>1, <2>2
  <2> QED BY <1>1, <1>2, <1>8, <2>3 DEF Exact
<1>9. CASE op = "sar"
  <2>1. result = SarResult(v, m, c)
    BY <1>1, <1>5, <1>9 DEF ShiftResults
  <2>2. PICK e \in Int : e = sign_extend(v, m) \div p
    <3>1. sign_extend(v, m) \in Int
      BY <1>1, <1>3, SignedInt
    <3> QED BY <1>4, <3>1
  <2>3. result = e % m
    BY <1>4, <2>1, <2>2 DEF SarResult
  <2>4. y % m = SarResult(v, m, c)
    BY <1>6, <2>1, <2>3
  <2>5. w # WordBits => Signed(y, m) = Signed(v, m) \div 2^c
    BY <1>1, <1>3, <1>4, <2>4, Sar
  <2> QED BY <1>1, <1>2, <1>9, <2>5 DEF Exact
<1>10. CASE op = "rol"
  <2>1. PICK z \in Int : z = BitOr(u64(v * 2^c), v \div 2^(w - c))
    BY BitwiseWords, WordFacts
  <2>2. result = z % m
    BY <1>1, <1>3, <1>5, <1>10, <2>1 DEF ShiftResults
  <2>3. Up(v, v, w, c, result)
    BY <1>1, <1>3, <2>1, <2>2, ShiftUp
  <2>4. y % m = result /\ result \in 0 .. m - 1
    BY <1>6, <2>2
  <2>5. Rotated(v, w, c, result)
    BY <1>1, <2>3, UpRotates
  <2>6. Bits(y % m) = {(i + c) % w : i \in Bits(v)}
    BY <1>1, <2>4, <2>5, RotatedBits
  <2> QED BY <1>1, <1>2, <1>10, <2>6 DEF Exact
<1>11. CASE op = "ror"
  <2>1. PICK z \in Int : z = BitOr(v \div 2^c, u64(v * 2^(w - c)))
    BY BitwiseWords, WordFacts
  <2>2. result = z % m
    BY <1>1, <1>3, <1>5, <1>11, <2>1 DEF ShiftResults
  <2>3. Down(v, v, w, c, result)
    BY <1>1, <1>3, <2>1, <2>2, ShiftDown
  <2>4. y % m = result /\ result \in 0 .. m - 1
    BY <1>6, <2>2
  <2>5. Rotated(result, w, c, v)
    BY <1>1, <2>3, DownRotates
  <2>6. Bits(v) = {(i + c) % w : i \in Bits(y % m)}
    BY <1>1, <2>4, <2>5, RotatedBits
  <2> QED BY <1>1, <1>2, <1>11, <2>6 DEF Exact
<1> QED BY <1>7, <1>8, <1>9, <1>10, <1>11 DEF ShiftOperations

LEMMA DoubleShiftExact ==
  ASSUME NEW w \in Widths, NEW c \in 0 .. w - 1, NEW op \in {"shld", "shrd"}, NEW x \in Int,
         NEW s \in 0 .. modulus(w) - 1, NEW y \in Int,
         y % modulus(w) = DoubleShift(op, x % modulus(w), s, w, c) % modulus(w)
  PROVE  Exact(op, x % modulus(w), s, w, c, y)
<1>1. PICK m \in Int : m = modulus(w) /\ m > 0
  BY Width
<1>2. PICK v \in 0 .. m - 1 : v = x % m
  BY <1>1, Quotient
<1>3. v \in Int /\ s \in Int
  BY <1>1
<1>4. y % m \in 0 .. m - 1
  BY <1>1
<1>5. 2^c = modulus(c) /\ 2^(w - c) = modulus(w - c)
  BY DEF modulus
<1>6. CASE op = "shld"
  <2>1. y % m = BitOr(u64(v * 2^c), s \div 2^(w - c)) % m
    BY <1>1, <1>2, <1>6 DEF DoubleShift
  <2>2. Up(v, s, w, c, y % m)
    BY <1>1, <1>3, <2>1, ShiftUp
  <2>3. y % m = ((v * modulus(w) + s) \div modulus(w - c)) % modulus(w)
    BY <1>1, <1>4, <2>2, UpWindow
  <2> QED BY <1>1, <1>2, <1>5, <1>6, <2>3 DEF Exact
<1>7. CASE op = "shrd"
  <2>1. y % m = BitOr(v \div 2^c, u64(s * 2^(w - c))) % m
    BY <1>1, <1>2, <1>7 DEF DoubleShift
  <2>2. Down(v, s, w, c, y % m)
    BY <1>1, <1>3, <2>1, ShiftDown
  <2>3. y % m = ((s * modulus(w) + v) \div modulus(c)) % modulus(w)
    BY <1>1, <1>4, <2>2, DownWindow
  <2> QED BY <1>1, <1>2, <1>5, <1>7, <2>3 DEF Exact
<1> QED BY <1>6, <1>7

\* What the registers hold when an instruction begins.
LEMMA ShiftStep ==
  ASSUME rdx \in Int, opnd \in Int, NEW w \in Widths, NEW op \in ShiftOperations, NEW count \in Int,
         Fetch(op, w, count), execute_shift(op, w, count), count \in 0 .. WordBits - 1
  PROVE  ShiftsAreExact'
<1>1. /\ ins'.op = op /\ ins'.w = w /\ ins'.count = count /\ ins'.opnd = opnd /\ ins'.rdx = rdx
  BY DEF Fetch
<1>2. ASSUME count < w
      PROVE  Exact(op, opnd % modulus(w), rdx % modulus(w), w, count, opnd')
  <2>1. count \in 0 .. w - 1
    BY <1>2, Width
  <2>2. CASE count = 0
    <3>1. opnd' = opnd /\ opnd' \in Int
      BY <2>2 DEF execute_shift
    <3>2. rdx % modulus(w) \in 0 .. modulus(w) - 1
      BY WordOperand
    <3> QED BY <2>2, <3>1, <3>2, ExactNot
  <2>3. CASE count # 0
    <3>1. PICK result \in ShiftResults(op, opnd % modulus(w), w, count) :
            opnd' = write_gpr(opnd, result, w)
      BY <2>3 DEF execute_shift
    <3>2. result \in Int
      BY ShiftType
    <3>3. opnd' \in Int /\ opnd' % modulus(w) = result % modulus(w)
      BY <3>1, <3>2, WriteRead
    <3> QED BY <2>1, <3>3, ShiftExact
  <2> QED BY <2>2, <2>3
<1>3. ShiftsAreExact' <=>
        (count < w => Exact(op, opnd % modulus(w), rdx % modulus(w), w, count, opnd'))
  BY <1>1 DEF ShiftsAreExact, Exact, ShiftOperations
<1> QED BY <1>2, <1>3

LEMMA DoubleShiftStep ==
  ASSUME rdx \in Int, opnd \in Int, NEW w \in Widths, NEW op \in {"shld", "shrd"},
         NEW count \in 0 .. w - 1, Fetch(op, w, count), execute_double_shift(op, w, count)
  PROVE  ShiftsAreExact'
<1>1. /\ ins'.op = op /\ ins'.w = w /\ ins'.count = count /\ ins'.opnd = opnd /\ ins'.rdx = rdx
  BY DEF Fetch
<1>0. rdx % modulus(w) \in 0 .. modulus(w) - 1
  BY WordOperand
<1>2. Exact(op, opnd % modulus(w), rdx % modulus(w), w, count, opnd')
  <2>2. CASE count = 0
    <3>1. opnd' = opnd /\ opnd' \in Int
      BY <2>2 DEF execute_double_shift
    <3> QED BY <1>0, <2>2, <3>1, ExactNot
  <2>3. CASE count # 0
    <3>0. PICK m \in Int : m = modulus(w) /\ m > 0
      BY Width
    <3>1. PICK d \in Int : d = DoubleShift(op, opnd % m, rdx % m, w, count)
      BY BitwiseWords, WordFacts DEF DoubleShift
    <3>2. PICK result \in 0 .. m - 1 : result = d % m
      BY <3>0
    <3>3. opnd' = write_gpr(opnd, result, w)
      BY <2>3, <3>0, <3>1, <3>2 DEF execute_double_shift
    <3>4. result \in Int /\ result % m = result
      BY <3>0, NearRemainders
    <3>5. opnd' \in Int /\ opnd' % m = result
      BY <3>0, <3>3, <3>4, WriteRead
    <3> QED BY <1>0, <3>0, <3>1, <3>2, <3>5, DoubleShiftExact
  <2> QED BY <2>2, <2>3
<1>3. ShiftsAreExact' <=>
        (count < w => Exact(op, opnd % modulus(w), rdx % modulus(w), w, count, opnd'))
  BY <1>1 DEF ShiftsAreExact, Exact
<1> QED BY <1>2, <1>3

Shifts == ShiftOperations \cup {"shld", "shrd"}

LEMMA ShiftInstructions ==
  ASSUME Next
  PROVE  \/ \E w \in Widths, op \in ShiftOperations, count \in 0 .. WordBits - 1 :
              Fetch(op, w, count) /\ execute_shift(op, w, count)
         \/ \E w \in Widths, op \in {"shld", "shrd"} : \E count \in 0 .. w - 1 :
              Fetch(op, w, count) /\ execute_double_shift(op, w, count)
         \/ ins'.op \notin Shifts
<1> DEFINE Others == {"inc", "dec", "test", "not", "neg", "mul", "imul", "div", "idiv",
                      "bt", "bts", "btr", "btc", "bsf", "bsr", "imul2", "imul3", "cmpxchg",
                      "xadd", "movzx", "movsx", "cdqe", "cqo", "set", "cmov", "clc"}
<1>1. PICK w \in Widths :
        \/ \E op \in ShiftOperations, count \in 0 .. WordBits - 1 :
             Fetch(op, w, count) /\ execute_shift(op, w, count)
        \/ \E op \in {"shld", "shrd"}, count \in 0 .. w - 1 :
             Fetch(op, w, count) /\ execute_double_shift(op, w, count)
        \/ \E op \in AluOperations : \E count : Fetch(op, w, count)
        \/ \E op \in Others : \E count : Fetch(op, w, count)
  BY DEF Next, ShiftOperations
<1>2. CASE \E op \in AluOperations : \E count : Fetch(op, w, count)
  BY <1>2, Fetched DEF AluOperations, Shifts, ShiftOperations
<1>3. CASE \E op \in Others : \E count : Fetch(op, w, count)
  BY <1>3, Fetched DEF Shifts, ShiftOperations
<1> HIDE DEF Others
<1> QED BY <1>1, <1>2, <1>3

LEMMA ShiftsKept == TypeOK /\ ShiftsAreExact /\ [Next]_vars => ShiftsAreExact'
<1> SUFFICES ASSUME TypeOK, ShiftsAreExact, [Next]_vars PROVE ShiftsAreExact'
  OBVIOUS
<1>0. rdx \in Int /\ opnd \in Int
  BY WordFacts DEF TypeOK
<1>1. CASE UNCHANGED vars
  BY <1>1 DEF vars, ShiftsAreExact
<1>2. CASE \E w \in Widths, op \in ShiftOperations, count \in 0 .. WordBits - 1 :
             Fetch(op, w, count) /\ execute_shift(op, w, count)
  BY <1>0, <1>2, ShiftStep
<1>3. CASE \E w \in Widths, op \in {"shld", "shrd"} : \E count \in 0 .. w - 1 :
             Fetch(op, w, count) /\ execute_double_shift(op, w, count)
  BY <1>0, <1>3, DoubleShiftStep
<1>4. CASE ins'.op \notin Shifts
  BY <1>4 DEF ShiftsAreExact, Shifts, ShiftOperations
<1> QED BY <1>1, <1>2, <1>3, <1>4, ShiftInstructions

LEMMA ShiftsInit == Init => ShiftsAreExact
BY DEF Init, ShiftsAreExact

\* Shifts, rotations and double-precision shifts move the bits where they belong, at
\* every width and by every count below it.
THEOREM Shifting == Spec => []ShiftsAreExact
BY TypeInit, TypeStep, ShiftsInit, ShiftsKept, PTL DEF Spec

-----------------------------------------------------------------------------
(* The ring's arithmetic.                                                  *)

\* Register i as seen from top t.
At(t, i) == (t + i) % Slots

\* A sum of a top and an index wraps at most once.
LEMMA AtValue ==
  ASSUME NEW t \in Slot, NEW i \in 0 .. Slots
  PROVE  At(t, i) = IF t + i < Slots THEN t + i ELSE t + i - Slots
<1> USE SlotsAssumption
<1>1. CASE t + i < Slots
  BY <1>1, Z3 DEF At, Slot
<1>2. CASE ~(t + i < Slots)
  <2>1. /\ t + i \in Int /\ Slots <= t + i /\ t + i < 2 * Slots
    BY <1>2, Z3 DEF Slot
  <2>2. ASSUME NEW x \in Int, Slots <= x, x < 2 * Slots
        PROVE  x % Slots = x - Slots
    BY <2>2, Z3
  <2> QED
    <3>1. (t + i) % Slots = (t + i) - Slots
      BY <2>1, <2>2
    <3> QED
      BY <1>2, <3>1 DEF At, Slot
<1> QED
  BY <1>1, <1>2

\* The slot below the top.
LEMMA BelowValue ==
  ASSUME NEW t \in Slot
  PROVE  (t - 1) % Slots = IF t = 0 THEN Slots - 1 ELSE t - 1
<1> USE SlotsAssumption
<1>1. CASE t = 0
  <2>1. (0 - 1) % Slots = Slots - 1
    BY Z3
  <2> QED
    BY <1>1, <2>1
<1>2. CASE t # 0
  BY <1>2, Z3 DEF Slot
<1> QED
  BY <1>1, <1>2

LEMMA AtSlot ==
  ASSUME NEW t \in Slot, NEW i \in 0 .. Slots
  PROVE  At(t, i) \in Slot
  BY AtValue, SlotsAssumption DEF Slot

\* Different registers are in different slots.
LEMMA AtInjective ==
  ASSUME NEW t \in Slot, NEW i \in Slot, NEW j \in Slot, At(t, i) = At(t, j)
  PROVE  i = j
  BY AtValue, SlotsAssumption DEF Slot

\* After a push, register i + 1 is what register i was.
LEMMA AtBelow ==
  ASSUME NEW t \in Slot, NEW i \in 0 .. Slots - 1
  PROVE  /\ (t - 1) % Slots \in Slot
         /\ At((t - 1) % Slots, 0) = (t - 1) % Slots
         /\ At((t - 1) % Slots, i + 1) = At(t, i)
<1> DEFINE b == (t - 1) % Slots
<1>1. b = IF t = 0 THEN Slots - 1 ELSE t - 1
  BY BelowValue
<1>2. b \in Slot
  BY <1>1, SlotsAssumption DEF Slot
<1> HIDE DEF b
<1>3. /\ 0 \in 0 .. Slots /\ i + 1 \in 0 .. Slots /\ i \in 0 .. Slots
  BY SlotsAssumption
<1>4. At(b, 0) = b
  BY <1>2, <1>3, AtValue, SlotsAssumption DEF Slot
<1>5. At(b, i + 1) = IF b + (i + 1) < Slots THEN b + (i + 1) ELSE b + (i + 1) - Slots
  BY <1>2, <1>3, AtValue
<1>6. At(t, i) = IF t + i < Slots THEN t + i ELSE t + i - Slots
  BY <1>3, AtValue
<1>7. At(b, i + 1) = At(t, i)
  BY <1>1, <1>5, <1>6, SlotsAssumption DEF Slot
<1> QED
  BY <1>2, <1>4, <1>7 DEF b

\* After pops, register i is what register i + pops was, the ring taken as closed.
LEMMA AtAbove ==
  ASSUME NEW t \in Slot, NEW p \in 0 .. 2, NEW i \in Slot
  PROVE  /\ At(t, p) \in Slot
         /\ p + i < Slots => At(At(t, p), i) = At(t, p + i)
         /\ p + i >= Slots => At(At(t, p), i) = At(t, p + i - Slots)
<1>1. p \in 0 .. Slots /\ i \in 0 .. Slots
  BY SlotsAssumption DEF Slot
<1>2. At(t, p) \in Slot
  BY <1>1, AtSlot
<1>3. At(t, p) = IF t + p < Slots THEN t + p ELSE t + p - Slots
  BY <1>1, AtValue
<1>4. At(At(t, p), i) = IF At(t, p) + i < Slots THEN At(t, p) + i ELSE At(t, p) + i - Slots
  BY <1>1, <1>2, AtValue
<1>5. CASE p + i < Slots
  <2>1. p + i \in 0 .. Slots
    BY <1>5, <1>1, SlotsAssumption
  <2>2. At(t, p + i) = IF t + (p + i) < Slots THEN t + (p + i) ELSE t + (p + i) - Slots
    BY <2>1, AtValue
  <2> QED
    BY <1>1, <1>2, <1>3, <1>4, <1>5, <2>2, SlotsAssumption DEF Slot
<1>6. CASE p + i >= Slots
  <2>1. p + i - Slots \in 0 .. Slots
    BY <1>6, <1>1, SlotsAssumption DEF Slot
  <2>2. At(t, p + i - Slots) =
          IF t + (p + i - Slots) < Slots THEN t + (p + i - Slots) ELSE t + (p + i - Slots) - Slots
    BY <2>1, AtValue
  <2> QED
    BY <1>1, <1>2, <1>3, <1>4, <1>6, <2>2, SlotsAssumption DEF Slot
<1> QED
  BY <1>1, <1>2, <1>5, <1>6, SlotsAssumption DEF Slot

-----------------------------------------------------------------------------
(* Registers, tags and a sequence.                                         *)

Ring(regs, t, s) == \A i \in 0 .. Len(s) - 1 : regs[At(t, i)] = s[i + 1]

Tags(e, t, n, all) ==
  \A i \in Slot : /\ i < n => e[At(t, i)] = FALSE
                  /\ ~(i < n) /\ all => e[At(t, i)] = TRUE

LEMMA PushRing ==
  ASSUME NEW t \in Slot, NEW regs \in [Slot -> Values], NEW v \in Values,
         NEW s \in Seq(Values), Len(s) + 1 <= Slots, Ring(regs, t, s)
  PROVE  Ring([regs EXCEPT ![(t - 1) % Slots] = v], (t - 1) % Slots, <<v>> \o s)
<1> DEFINE b == (t - 1) % Slots
           new == <<v>> \o s
<1>1. /\ Len(s) \in Nat
      /\ Len(new) = Len(s) + 1
      /\ new[1] = v
      /\ \A k \in 1 .. Len(s) : new[k + 1] = s[k]
  OBVIOUS
<1>2. b \in Slot /\ At(b, 0) = b
  BY AtBelow, SlotsAssumption
<1>3. ASSUME NEW i \in 0 .. Len(s) - 1
      PROVE  At(b, i + 1) = At(t, i) /\ At(t, i) # b /\ At(t, i) \in Slot
  <2>1. i \in 0 .. Slots - 1 /\ i + 1 \in Slot /\ 0 \in Slot /\ i \in 0 .. Slots
    BY <1>1, SlotsAssumption DEF Slot
  <2>2. At(b, i + 1) = At(t, i)
    BY <2>1, AtBelow
  <2>3. At(b, i + 1) # At(b, 0)
    BY <2>1, <1>2, AtInjective DEF Slot
  <2> QED
    BY <1>2, <2>1, <2>2, <2>3, AtSlot
<1> HIDE DEF b, new
<1> SUFFICES ASSUME NEW j \in 0 .. Len(new) - 1
             PROVE  [regs EXCEPT ![b] = v][At(b, j)] = new[j + 1]
  BY DEF Ring, b, new
<1>4. CASE j = 0
  BY <1>1, <1>2, <1>4
<1>5. CASE j # 0
  <2>1. j - 1 \in 0 .. Len(s) - 1 /\ (j - 1) + 1 = j /\ j \in 1 .. Len(s)
    BY <1>1, <1>5
  <2>2. At(b, j) = At(t, j - 1) /\ At(t, j - 1) # b /\ At(t, j - 1) \in Slot
    BY <2>1, <1>3
  <2>3. regs[At(t, j - 1)] = s[j]
    BY <2>1 DEF Ring
  <2> QED
    BY <1>1, <2>1, <2>2, <2>3
<1> QED
  BY <1>4, <1>5

LEMMA PushTags ==
  ASSUME NEW t \in Slot, NEW e \in [Slot -> BOOLEAN], NEW n \in Nat, NEW all,
         n + 1 <= Slots, Tags(e, t, n, all)
  PROVE  Tags([e EXCEPT ![(t - 1) % Slots] = FALSE], (t - 1) % Slots, n + 1, all)
<1> DEFINE b == (t - 1) % Slots
           f == [e EXCEPT ![b] = FALSE]
<1>1. b \in Slot /\ At(b, 0) = b /\ 0 \in Slot
  BY AtBelow, SlotsAssumption DEF Slot
<1>2. ASSUME NEW i \in Slot, i + 1 \in Slot
      PROVE  At(b, i + 1) = At(t, i) /\ At(t, i) # b /\ At(t, i) \in Slot
  <2>1. i \in 0 .. Slots - 1 /\ i \in 0 .. Slots
    BY SlotsAssumption DEF Slot
  <2>2. At(b, i + 1) = At(t, i)
    BY <2>1, AtBelow
  <2>3. At(b, i + 1) # At(b, 0)
    BY <1>1, <1>2, AtInjective DEF Slot
  <2> QED
    BY <1>1, <2>1, <2>2, <2>3, AtSlot
<1>3. f[b] = FALSE /\ \A q \in Slot : q # b => f[q] = e[q]
  BY <1>1
<1> HIDE DEF b, f
<1> SUFFICES ASSUME NEW j \in Slot
             PROVE  /\ j < n + 1 => f[At(b, j)] = FALSE
                    /\ ~(j < n + 1) /\ all => f[At(b, j)] = TRUE
  BY DEF Tags, b, f
<1>4. CASE j = 0
  BY <1>1, <1>3, <1>4
<1>5. CASE j # 0
  <2>1. j - 1 \in Slot /\ (j - 1) + 1 = j /\ (j < n + 1 <=> j - 1 < n)
    BY <1>5, SlotsAssumption DEF Slot
  <2>2. At(b, j) = At(t, j - 1) /\ At(t, j - 1) # b /\ At(t, j - 1) \in Slot
    BY <2>1, <1>2
  <2>3. f[At(b, j)] = e[At(t, j - 1)]
    BY <2>2, <1>3
  <2>4. /\ j - 1 < n => e[At(t, j - 1)] = FALSE
        /\ ~(j - 1 < n) /\ all => e[At(t, j - 1)] = TRUE
    BY <2>1 DEF Tags
  <2> QED
    BY <2>1, <2>3, <2>4
<1> QED
  BY <1>4, <1>5

LEMMA PopRing ==
  ASSUME NEW t \in Slot, NEW regs, NEW s \in Seq(Values), NEW p \in 0 .. 2,
         p <= Len(s), Len(s) <= Slots, Ring(regs, t, s)
  PROVE  /\ Ring(regs, At(t, p), SubSeq(s, p + 1, Len(s)))
         /\ SubSeq(s, p + 1, Len(s)) \in Seq(Values)
         /\ Len(SubSeq(s, p + 1, Len(s))) = Len(s) - p
<1> DEFINE rest == SubSeq(s, p + 1, Len(s))
<1>1. Len(s) \in Nat
  OBVIOUS
<1>2. /\ rest \in Seq(Values)
      /\ Len(rest) = Len(s) - p
      /\ \A k \in 1 .. Len(s) - p : rest[k] = s[p + k]
  BY <1>1
<1> HIDE DEF rest
<1>3. ASSUME NEW i \in 0 .. Len(rest) - 1
      PROVE  regs[At(At(t, p), i)] = rest[i + 1]
  <2>1. /\ i \in Slot /\ p + i < Slots /\ p + i \in 0 .. Len(s) - 1
        /\ i + 1 \in 1 .. Len(s) - p /\ p + (i + 1) = (p + i) + 1
    BY <1>1, <1>2, SlotsAssumption DEF Slot
  <2>2. At(At(t, p), i) = At(t, p + i)
    BY <2>1, AtAbove
  <2>3. regs[At(t, p + i)] = s[(p + i) + 1]
    BY <2>1 DEF Ring
  <2> QED
    BY <1>2, <2>1, <2>2, <2>3
<1> QED
  BY <1>2, <1>3 DEF Ring, rest

Popped(e, t, p) == [q \in Slot |-> e[q] \/ \E i \in 0 .. p - 1 : q = At(t, i)]

LEMMA PopTags ==
  ASSUME NEW t \in Slot, NEW e \in [Slot -> BOOLEAN], NEW n \in Nat, NEW p \in 0 .. 2, NEW all,
         p <= n, n <= Slots, Tags(e, t, n, all)
  PROVE  Tags(Popped(e, t, p), At(t, p), n - p, all)
<1> SUFFICES ASSUME NEW i \in Slot
             PROVE  /\ i < n - p => Popped(e, t, p)[At(At(t, p), i)] = FALSE
                    /\ ~(i < n - p) /\ all => Popped(e, t, p)[At(At(t, p), i)] = TRUE
  BY DEF Tags
<1>1. ASSUME NEW k \in Slot
      PROVE  At(t, k) \in Slot
  BY AtSlot, SlotsAssumption DEF Slot
<1>2. ASSUME i < n - p
      PROVE  Popped(e, t, p)[At(At(t, p), i)] = FALSE
  <2>1. p + i < Slots /\ p + i \in Slot /\ p + i < n
    BY <1>2, SlotsAssumption DEF Slot
  <2>2. At(At(t, p), i) = At(t, p + i) /\ e[At(t, p + i)] = FALSE
    BY <2>1, AtAbove DEF Tags
  <2>3. ASSUME NEW k \in 0 .. p - 1
        PROVE  At(t, p + i) # At(t, k)
    <3>1. k \in Slot /\ k # p + i
      BY <2>1, SlotsAssumption DEF Slot
    <3> QED
      BY <2>1, <3>1, AtInjective
  <2>4. At(t, p + i) \in Slot
    BY <2>1, <1>1
  <2> QED
    BY <2>2, <2>3, <2>4, Zenon DEF Popped
<1>3. ASSUME ~(i < n - p), all
      PROVE  Popped(e, t, p)[At(At(t, p), i)] = TRUE
  <2>1. CASE p + i < Slots
    <3>1. p + i \in Slot /\ ~(p + i < n)
      BY <1>3, <2>1, SlotsAssumption DEF Slot
    <3>2. At(At(t, p), i) = At(t, p + i) /\ e[At(t, p + i)] = TRUE
      BY <1>3, <2>1, <3>1, AtAbove DEF Tags
    <3>3. At(t, p + i) \in Slot
      BY <3>1, <1>1
    <3> QED
      BY <3>2, <3>3, Zenon DEF Popped
  <2>2. CASE p + i >= Slots
    <3>1. p + i - Slots \in 0 .. p - 1 /\ p + i - Slots \in Slot
      BY <2>2, SlotsAssumption DEF Slot
    <3>2. At(At(t, p), i) = At(t, p + i - Slots)
      BY <2>2, AtAbove
    <3>3. At(t, p + i - Slots) \in Slot
      BY <3>1, <1>1
    <3> QED
      BY <3>1, <3>2, <3>3, Zenon DEF Popped
  <2>3. p + i < Slots \/ p + i >= Slots
    BY SlotsAssumption DEF Slot
  <2> QED
    BY <2>1, <2>2, <2>3, Zenon
<1> QED
  BY <1>2, <1>3

\* A register and the element of the sequence are replaced together.
LEMMA ReplaceRing ==
  ASSUME NEW t \in Slot, NEW regs \in [Slot -> Values], NEW s \in Seq(Values), NEW v \in Values,
         NEW i \in Nat, i < Len(s), Len(s) <= Slots, Ring(regs, t, s)
  PROVE  /\ Ring([regs EXCEPT ![At(t, i)] = v], t, [s EXCEPT ![i + 1] = v])
         /\ [s EXCEPT ![i + 1] = v] \in Seq(Values)
         /\ Len([s EXCEPT ![i + 1] = v]) = Len(s)
<1> DEFINE new == [s EXCEPT ![i + 1] = v]
<1>1. Len(s) \in Nat /\ i \in Slot /\ i + 1 \in 1 .. Len(s)
  BY SlotsAssumption DEF Slot
<1>2. /\ new \in Seq(Values) /\ Len(new) = Len(s)
      /\ \A k \in 1 .. Len(s) : new[k] = IF k = i + 1 THEN v ELSE s[k]
  BY <1>1
<1> HIDE DEF new
<1>3. ASSUME NEW j \in 0 .. Len(new) - 1
      PROVE  [regs EXCEPT ![At(t, i)] = v][At(t, j)] = new[j + 1]
  <2>1. /\ j \in Slot /\ j \in 0 .. Len(s) - 1 /\ j + 1 \in 1 .. Len(s) /\ (j + 1 = i + 1 <=> j = i)
        /\ j \in 0 .. Slots /\ i \in 0 .. Slots
    BY <1>1, <1>2, SlotsAssumption DEF Slot
  <2>2. At(t, j) \in Slot /\ At(t, i) \in Slot
    BY <2>1, AtSlot
  <2>3. At(t, i) = At(t, j) => i = j
    BY <1>1, <2>1, AtInjective
  <2>4. regs[At(t, j)] = s[j + 1]
    BY <2>1 DEF Ring
  <2> QED
    BY <1>2, <2>1, <2>2, <2>3, <2>4
<1> QED
  BY <1>2, <1>3 DEF Ring, new

-----------------------------------------------------------------------------
(* The inductive invariant.  A register beyond the program's stack is never *)
(* mentioned by RingIsStack, but a push makes it ST(0) only if X87TypeOK says  *)
(* that the stack still fits, so the three parts are proved together.       *)

X87Inv == X87TypeOK /\ RingIsStack /\ TagsFollowStack

\* The last two parts in terms of Ring and Tags.
Parts ==
  /\ RingIsStack <=> (in_order => Ring(st, top, stack))
  /\ X87TypeOK => (TagsFollowStack <=> (in_order => Tags(empty, top, Depth, tagged)))

LEMMA IInvParts == Parts
<1>1. RingIsStack <=> (in_order => Ring(st, top, stack))
  BY DEF RingIsStack, Ring, fst, slot, At, Depth
<1>2. ASSUME X87TypeOK
      PROVE  TagsFollowStack <=> (in_order => Tags(empty, top, Depth, tagged))
  <2>1. \A i \in Slot : empty[At(top, i)] \in BOOLEAN
    <3>1. ASSUME NEW i \in Slot
          PROVE  At(top, i) \in Slot
      BY <1>2, AtSlot, SlotsAssumption DEF X87TypeOK, Slot
    <3> QED
      BY <1>2, <3>1 DEF X87TypeOK
  <2> QED
    BY <1>2, <2>1, Zenon DEF TagsFollowStack, Tags, fst_empty, slot, At, Depth
<1> QED
  BY <1>1, <1>2 DEF Parts

LEMMA IInvKept ==
  ASSUME X87TypeOK',
         in_order' => Ring(st', top', stack') /\ Tags(empty', top', Len(stack'), tagged')
  PROVE  X87Inv'
<1>1. Parts'
  BY IInvParts, PTL
<1> QED
  BY <1>1 DEF Parts, X87Inv, Depth

\* What Follows leaves, given what the program's new stack would be.
LEMMA FollowsType ==
  ASSUME X87TypeOK, NEW uses \in Nat, NEW new, Follows(uses, new),
         in_order /\ uses <= Depth => new \in Seq(Values)
  PROVE  /\ in_order' \in BOOLEAN
         /\ stack' \in Seq(Values) /\ Len(stack') <= Slots
         /\ in_order' => in_order /\ uses <= Depth /\ stack' = new /\ Len(new) <= Slots
<1>1. /\ in_order' \in BOOLEAN
      /\ in_order' => in_order /\ uses <= Depth /\ stack' = new /\ Len(new) <= Slots
      /\ ~in_order' => stack' = <<>>
  BY Zenon DEF Follows
<1>2. CASE in_order'
  BY <1>1, <1>2
<1>3. CASE ~in_order'
  BY <1>1, <1>3, SlotsAssumption
<1> QED
  BY <1>1, <1>2, <1>3

\* An instruction that pushes v on the registers regs and w on the stack s.
LEMMA PushStep ==
  ASSUME X87Inv, NEW regs \in [Slot -> Values], NEW v \in Values, NEW w, NEW s, NEW uses \in Nat,
         fpu_push(regs, v), Follows(uses, <<w>> \o s),
         in_order /\ uses <= Depth =>
           /\ s \in Seq(Values) /\ Len(s) = Depth /\ Ring(regs, top, s) /\ v = w,
         UNCHANGED <<codes, tagged>>
  PROVE  X87Inv'
<1> DEFINE b == (top - 1) % Slots
<1>1. X87TypeOK /\ top \in Slot /\ Depth \in Nat /\ stack \in Seq(Values)
  BY DEF X87Inv, X87TypeOK, Depth
<1>2. b \in Slot
  BY <1>1, AtBelow, SlotsAssumption
<1>3. top' = b /\ st' = [regs EXCEPT ![b] = v] /\ empty' = [empty EXCEPT ![b] = FALSE]
  BY DEF fpu_push
<1>4. in_order /\ uses <= Depth => <<w>> \o s \in Seq(Values) /\ Len(<<w>> \o s) = Depth + 1
  BY <1>1 DEF Depth
<1>5. /\ in_order' \in BOOLEAN
      /\ stack' \in Seq(Values) /\ Len(stack') <= Slots
      /\ in_order' => /\ in_order /\ uses <= Depth /\ stack' = <<w>> \o s
                      /\ Len(<<w>> \o s) <= Slots
  BY <1>1, <1>4, FollowsType
<1>6. X87TypeOK'
  BY <1>1, <1>2, <1>3, <1>5, Zenon DEF X87TypeOK, Depth
<1>7. ASSUME in_order'
      PROVE  Ring(st', top', stack') /\ Tags(empty', top', Len(stack'), tagged')
  <2>1. in_order /\ uses <= Depth /\ stack' = <<v>> \o s /\ Depth + 1 <= Slots
        /\ s \in Seq(Values) /\ Len(s) = Depth /\ Ring(regs, top, s) /\ Len(stack') = Depth + 1
    BY <1>4, <1>5, <1>7
  <2>2. Ring(st', top', stack')
    BY <1>1, <1>3, <2>1, PushRing
  <2>3. Tags(empty, top, Depth, tagged)
    BY <1>1, <2>1, IInvParts DEF X87Inv, Parts
  <2>4. Tags(empty', b, Depth + 1, tagged)
    BY <1>1, <1>3, <2>1, <2>3, PushTags DEF X87TypeOK
  <2> QED
    BY <1>3, <2>1, <2>2, <2>4
<1> QED
  BY <1>6, <1>7, IInvKept

\* An instruction that replaces registers and then pops.
LEMMA PopStep ==
  ASSUME X87Inv, NEW regs \in [Slot -> Values], NEW s, NEW uses \in Nat, NEW pops \in 0 .. 2,
         fpu_pop(regs, pops), Follows(uses, SubSeq(s, pops + 1, Depth)), pops <= uses,
         in_order /\ uses <= Depth =>
           s \in Seq(Values) /\ Len(s) = Depth /\ Ring(regs, top, s),
         codes' \in Codes, UNCHANGED tagged
  PROVE  X87Inv'
<1> DEFINE new == SubSeq(s, pops + 1, Depth)
<1>1. /\ X87TypeOK /\ top \in Slot /\ Depth \in Nat /\ Depth <= Slots /\ stack \in Seq(Values)
      /\ empty \in [Slot -> BOOLEAN]
  BY DEF X87Inv, X87TypeOK, Depth
<1>2. top' = At(top, pops) /\ st' = regs /\ empty' = Popped(empty, top, pops)
  BY DEF fpu_pop, At, Popped, slot
<1>3. At(top, pops) \in Slot
  BY <1>1, AtSlot, SlotsAssumption
<1>4. Popped(empty, top, pops) \in [Slot -> BOOLEAN]
  BY <1>1, Zenon DEF Popped
<1>5. ASSUME in_order, uses <= Depth
      PROVE  /\ Ring(regs, At(top, pops), new) /\ new \in Seq(Values)
             /\ Len(new) = Depth - pops /\ pops <= Depth
  <2>1. pops <= Depth
    BY <1>1, <1>5
  <2>2. s \in Seq(Values) /\ Len(s) = Depth /\ Ring(regs, top, s)
    BY <1>5
  <2> QED
    BY <1>1, <2>1, <2>2, PopRing
<1> HIDE DEF new
<1>6. /\ in_order' \in BOOLEAN
      /\ stack' \in Seq(Values) /\ Len(stack') <= Slots
      /\ in_order' => in_order /\ uses <= Depth /\ stack' = new
  BY <1>1, <1>5, FollowsType DEF new
<1>7. X87TypeOK'
  BY <1>1, <1>2, <1>3, <1>4, <1>6, Zenon DEF X87TypeOK, Depth
<1>8. ASSUME in_order'
      PROVE  Ring(st', top', stack') /\ Tags(empty', top', Len(stack'), tagged')
  <2>1. Ring(st', top', stack') /\ Len(stack') = Depth - pops /\ pops <= Depth
    BY <1>2, <1>5, <1>6, <1>8
  <2>2. Tags(empty, top, Depth, tagged)
    BY <1>1, <1>6, <1>8, IInvParts DEF X87Inv, Parts
  <2>3. Tags(Popped(empty, top, pops), At(top, pops), Depth - pops, tagged)
    BY <1>1, <2>1, <2>2, PopTags
  <2> QED
    BY <1>2, <2>1, <2>3
<1> QED
  BY <1>7, <1>8, IInvKept

\* An instruction that replaces registers, and leaves the top and the tags.
LEMMA KeepStep ==
  ASSUME X87Inv, NEW regs \in [Slot -> Values], NEW s, NEW uses \in Nat,
         st' = regs, Follows(uses, s),
         in_order /\ uses <= Depth =>
           s \in Seq(Values) /\ Len(s) = Depth /\ Ring(regs, top, s),
         UNCHANGED <<empty, top, codes, tagged>>
  PROVE  X87Inv'
<1>1. X87TypeOK
  BY DEF X87Inv
<1>2. /\ in_order' \in BOOLEAN
      /\ stack' \in Seq(Values) /\ Len(stack') <= Slots
      /\ in_order' => in_order /\ uses <= Depth /\ stack' = s
  BY <1>1, FollowsType
<1>3. X87TypeOK'
  BY <1>1, <1>2, Zenon DEF X87TypeOK, Depth
<1>4. ASSUME in_order'
      PROVE  Ring(st', top', stack') /\ Tags(empty', top', Len(stack'), tagged')
  BY <1>1, <1>2, <1>4, IInvParts DEF X87Inv, Parts
<1> QED
  BY <1>3, <1>4, IInvKept

-----------------------------------------------------------------------------
(* Instructions.                                                           *)

LEMMA Facts ==
  ASSUME X87Inv
  PROVE  /\ st \in [Slot -> Values] /\ top \in Slot /\ empty \in [Slot -> BOOLEAN]
         /\ stack \in Seq(Values) /\ Depth \in Nat /\ Depth <= Slots /\ Len(stack) = Depth
         /\ codes \in Codes
         /\ in_order => Ring(st, top, stack)
         /\ \A i \in Slot : slot(i) = At(top, i) /\ slot(i) \in Slot /\ fst(i) \in Values
         /\ 0 \in Slot /\ Slot \subseteq Nat
<1>1. /\ st \in [Slot -> Values] /\ top \in Slot /\ empty \in [Slot -> BOOLEAN]
      /\ stack \in Seq(Values) /\ Depth \in Nat /\ Depth <= Slots /\ Len(stack) = Depth
      /\ codes \in Codes
  BY DEF X87Inv, X87TypeOK, Depth
<1>2. in_order => Ring(st, top, stack)
  BY IInvParts DEF Parts, X87Inv
<1>3. 0 \in Slot /\ Slot \subseteq Nat /\ Slot \subseteq 0 .. Slots
  BY SlotsAssumption DEF Slot
<1>4. ASSUME NEW i \in Slot
      PROVE  slot(i) = At(top, i) /\ slot(i) \in Slot /\ fst(i) \in Values
  <2>1. slot(i) = At(top, i)
    BY DEF slot, At
  <2>2. At(top, i) \in Slot
    BY <1>1, <1>3, AtSlot
  <2> QED
    BY <1>1, <2>1, <2>2 DEF fst
<1> QED
  BY <1>1, <1>2, <1>3, <1>4

\* What a register in use holds, and the registers after it has been replaced.
LEMMA RegisterInUse ==
  ASSUME X87Inv, NEW i \in Slot, in_order, i + 1 <= Depth
  PROVE  /\ i < Depth /\ fst(i) = stack[i + 1] /\ stack[i + 1] \in Values
         /\ \A v \in Values :
              LET s == [stack EXCEPT ![i + 1] = v]
              IN  s \in Seq(Values) /\ Len(s) = Depth /\ Ring(Replaced(i, v), top, s)
<1>1. i < Depth /\ i \in Nat /\ i \in 0 .. Len(stack) - 1 /\ i + 1 \in 1 .. Len(stack)
  BY Facts
<1>2. fst(i) = stack[i + 1]
  BY <1>1, Facts DEF Ring, fst
<1>3. ASSUME NEW v \in Values
      PROVE  /\ [stack EXCEPT ![i + 1] = v] \in Seq(Values)
             /\ Len([stack EXCEPT ![i + 1] = v]) = Depth
             /\ Ring(Replaced(i, v), top, [stack EXCEPT ![i + 1] = v])
  <2>1. Replaced(i, v) = [st EXCEPT ![At(top, i)] = v]
    BY Facts DEF Replaced
  <2> QED
    BY <1>1, <2>1, Facts, ReplaceRing
<1> QED
  BY <1>1, <1>2, <1>3, Facts

LEMMA ReplacedType ==
  ASSUME X87Inv, NEW i \in Slot, NEW v \in Values
  PROVE  Replaced(i, v) \in [Slot -> Values]
  BY Facts DEF Replaced

LEMMA LoadKeeps ==
  ASSUME X87Inv, NEW v \in Values, Load(v)
  PROVE  X87Inv'
<1>1. 0 \in Nat /\ fpu_push(st, v) /\ Follows(0, <<v>> \o stack) /\ UNCHANGED <<codes, tagged>>
  BY DEF Load
<1> QED
  BY <1>1, Facts, PushStep

LEMMA LoadRegisterKeeps ==
  ASSUME X87Inv, NEW i \in Slot, LoadRegister(i)
  PROVE  X87Inv'
<1> DEFINE w == IF i < Depth THEN stack[i + 1] ELSE Zero
<1>1. /\ i + 1 \in Nat /\ fpu_push(st, fst(i)) /\ Follows(i + 1, <<w>> \o stack)
      /\ UNCHANGED <<codes, tagged>> /\ fst(i) \in Values
  BY Facts DEF LoadRegister
<1>2. in_order /\ i + 1 <= Depth => fst(i) = w
  BY RegisterInUse
<1> HIDE DEF w
<1> QED
  BY <1>1, <1>2, Facts, PushStep

LEMMA ReplaceAndPushKeeps ==
  ASSUME X87Inv, NEW v \in Values, NEW w \in Values, ReplaceAndPush(v, w)
  PROVE  X87Inv'
<1> DEFINE s == After(0, v, 0)
<1>1. /\ 1 \in Nat /\ fpu_push(Replaced(0, v), w) /\ Follows(1, <<w>> \o s)
      /\ UNCHANGED <<codes, tagged>> /\ Replaced(0, v) \in [Slot -> Values]
  BY Facts, ReplacedType DEF ReplaceAndPush
<1>2. ASSUME in_order, 1 <= Depth
      PROVE  s \in Seq(Values) /\ Len(s) = Depth /\ Ring(Replaced(0, v), top, s)
  <2> DEFINE r == [stack EXCEPT ![0 + 1] = v]
  <2>1. 0 \in Slot /\ 0 + 1 <= Depth
    BY <1>2, Facts
  <2> HIDE DEF s
  <2>2. 0 < Depth /\ r \in Seq(Values) /\ Len(r) = Depth /\ Ring(Replaced(0, v), top, r)
    BY <1>2, <2>1, RegisterInUse
  <2>3. s = SubSeq(r, 1, Depth)
    BY <2>2 DEF After, s
  <2> HIDE DEF r
  <2>4. SubSeq(r, 1, Depth) = r
    BY <2>2
  <2> QED
    BY <2>2, <2>3, <2>4
<1> HIDE DEF s
<1> QED
  BY <1>1, <1>2, PushStep

\* An instruction that only pops.
LEMMA PlainPop ==
  ASSUME X87Inv, NEW uses \in Nat, NEW pops \in 0 .. 2, pops <= uses, fpu_pop(st, pops),
         Follows(uses, SubSeq(stack, pops + 1, Depth)), codes' \in Codes, UNCHANGED tagged
  PROVE  X87Inv'
  BY Facts, PopStep

LEMMA StoreKeeps ==
  ASSUME X87Inv, NEW pops \in 0 .. 1, Store(pops)
  PROVE  X87Inv'
<1>1. /\ 1 \in Nat /\ pops \in 0 .. 2 /\ pops <= 1 /\ fpu_pop(st, pops)
      /\ Follows(1, SubSeq(stack, pops + 1, Depth)) /\ codes' \in Codes /\ UNCHANGED tagged
  BY Facts DEF Store
<1> QED
  BY <1>1, PlainPop

LEMMA CompareKeeps ==
  ASSUME X87Inv, NEW i \in Slot, NEW outcome \in Outcomes, NEW pops \in 0 .. 2, pops <= i + 1,
         fpu_compare(i, outcome, pops)
  PROVE  X87Inv'
<1>1. /\ i + 1 \in Nat /\ fpu_pop(st, pops) /\ Follows(i + 1, SubSeq(stack, pops + 1, Depth))
      /\ codes' \in Codes /\ UNCHANGED tagged
  BY Facts DEF fpu_compare, Codes
<1> QED
  BY <1>1, PlainPop

LEMMA CompareToFlagsKeeps ==
  ASSUME X87Inv, NEW i \in Slot, NEW pops \in 0 .. 1, CompareToFlags(i, pops)
  PROVE  X87Inv'
<1>1. /\ i + 1 \in Nat /\ pops \in 0 .. 2 /\ pops <= i + 1 /\ fpu_pop(st, pops)
      /\ Follows(i + 1, SubSeq(stack, pops + 1, Depth)) /\ codes' \in Codes /\ UNCHANGED tagged
  BY Facts DEF CompareToFlags
<1> QED
  BY <1>1, PlainPop

\* Arithmetic(i, v, pops) and StoreRegister(i, pops), where v is ST(0).
LEMMA ReplaceAndPop ==
  ASSUME X87Inv, NEW i \in Slot, NEW v \in Values, NEW new, NEW pops \in 0 .. 1,
         fpu_pop(Replaced(i, v), pops), Follows(i + 1, new),
         in_order /\ i + 1 <= Depth => new = After(i, v, pops),
         UNCHANGED <<codes, tagged>>
  PROVE  X87Inv'
<1>1. /\ i + 1 \in Nat /\ pops \in 0 .. 2 /\ pops <= i + 1 /\ codes' \in Codes
      /\ Replaced(i, v) \in [Slot -> Values]
  <2>1. i + 1 \in Nat /\ pops \in 0 .. 2 /\ pops <= i + 1 /\ codes' \in Codes
    BY Facts
  <2>2. Replaced(i, v) \in [Slot -> Values]
    BY ReplacedType, Zenon
  <2> QED
    BY <2>1, <2>2
<1>2. CASE in_order /\ i + 1 <= Depth
  <2> DEFINE s == [stack EXCEPT ![i + 1] = v]
  <2>1. i < Depth /\ s \in Seq(Values) /\ Len(s) = Depth /\ Ring(Replaced(i, v), top, s)
    BY <1>2, RegisterInUse
  <2>2. new = SubSeq(s, pops + 1, Depth)
    BY <1>2, <2>1 DEF After
  <2> HIDE DEF s
  <2>3. Follows(i + 1, SubSeq(s, pops + 1, Depth))
    BY <2>2
  <2> QED
    BY <1>1, <2>1, <2>3, PopStep
<1>3. CASE ~(in_order /\ i + 1 <= Depth)
  <2>1. Follows(i + 1, SubSeq(stack, pops + 1, Depth))
    BY <1>3, Zenon DEF Follows
  <2> QED
    BY <1>1, <1>3, <2>1, PopStep
<1> QED
  BY <1>2, <1>3

LEMMA ArithmeticKeeps ==
  ASSUME X87Inv, NEW i \in Slot, NEW v \in Values, NEW pops \in 0 .. 1, Arithmetic(i, v, pops)
  PROVE  X87Inv'
  BY ReplaceAndPop DEF Arithmetic

LEMMA StoreRegisterKeeps ==
  ASSUME X87Inv, NEW i \in Slot, NEW pops \in 0 .. 1, StoreRegister(i, pops)
  PROVE  X87Inv'
<1> DEFINE new == IF i < Depth THEN After(i, stack[1], pops) ELSE stack
<1>1. /\ fpu_pop(Replaced(i, fst(0)), pops) /\ Follows(i + 1, new)
      /\ UNCHANGED <<codes, tagged>> /\ fst(0) \in Values
  BY Facts DEF StoreRegister
<1>2. ASSUME in_order, i + 1 <= Depth
      PROVE  new = After(i, fst(0), pops)
  <2>1. 0 \in Slot /\ 0 + 1 <= Depth /\ 0 + 1 = 1 /\ i < Depth
    BY <1>2, Facts
  <2>2. fst(0) = stack[1]
    BY <1>2, <2>1, RegisterInUse
  <2> QED
    BY <2>1, <2>2
<1> HIDE DEF new
<1> QED
  BY <1>1, <1>2, ReplaceAndPop

LEMMA ExchangeKeeps ==
  ASSUME X87Inv, NEW i \in Slot, Exchange(i)
  PROVE  X87Inv'
<1> DEFINE regs == [st EXCEPT ![slot(0)] = fst(i), ![slot(i)] = fst(0)]
           s == IF i < Depth THEN [stack EXCEPT ![1] = stack[i + 1], ![i + 1] = stack[1]] ELSE stack
<1>1. /\ st' = regs /\ Follows(i + 1, s) /\ UNCHANGED <<empty, top, codes, tagged>>
      /\ i + 1 \in Nat /\ regs \in [Slot -> Values]
  BY Facts DEF Exchange
<1>2. ASSUME in_order, i + 1 <= Depth
      PROVE  s \in Seq(Values) /\ Len(s) = Depth /\ Ring(regs, top, s)
  <2> DEFINE first == [st EXCEPT ![At(top, 0)] = fst(i)]
             moved == [stack EXCEPT ![0 + 1] = stack[i + 1]]
  <2>1. /\ 0 \in Slot /\ 0 + 1 <= Depth /\ i < Depth /\ i \in Nat /\ 0 + 1 = 1 /\ Depth <= Slots
        /\ top \in Slot
    BY <1>2, Facts
  <2>2. /\ fst(i) = stack[i + 1] /\ fst(i) \in Values
        /\ fst(0) = stack[1] /\ fst(0) \in Values
    BY <1>2, <2>1, RegisterInUse, Facts
  <2>3. /\ moved \in Seq(Values) /\ Len(moved) = Depth /\ Ring(first, top, moved)
        /\ first \in [Slot -> Values]
    <3>1. Replaced(0, fst(i)) = first
      BY <2>1, Facts DEF Replaced
    <3>2. moved = [stack EXCEPT ![0 + 1] = fst(i)]
      BY <2>2
    <3>3. LET r == [stack EXCEPT ![0 + 1] = fst(i)]
          IN  r \in Seq(Values) /\ Len(r) = Depth /\ Ring(Replaced(0, fst(i)), top, r)
      BY <1>2, <2>1, <2>2, RegisterInUse
    <3>4. Replaced(0, fst(i)) \in [Slot -> Values]
      BY <2>1, <2>2, ReplacedType, Zenon
    <3> QED
      BY <3>1, <3>2, <3>3, <3>4, Zenon
  <2> HIDE DEF first, moved
  <2>4. LET r == [moved EXCEPT ![i + 1] = fst(0)]
        IN  r \in Seq(Values) /\ Len(r) = Depth /\ Ring([first EXCEPT ![At(top, i)] = fst(0)], top, r)
    BY <2>1, <2>2, <2>3, ReplaceRing
  <2>5. regs = [first EXCEPT ![At(top, i)] = fst(0)]
    BY <2>1, Facts DEF first
  <2>6. s = [moved EXCEPT ![i + 1] = fst(0)]
    BY <2>1, <2>2 DEF moved
  <2> QED
    BY <2>4, <2>5, <2>6
<1> HIDE DEF regs, s
<1> QED
  BY <1>1, <1>2, KeepStep

LEMMA ConditionalMoveKeeps ==
  ASSUME X87Inv, NEW i \in Slot, NEW take \in BOOLEAN, ConditionalMove(i, take)
  PROVE  X87Inv'
<1> DEFINE regs == IF take THEN Replaced(0, fst(i)) ELSE st
           s == IF take /\ i < Depth THEN After(0, stack[i + 1], 0) ELSE stack
<1>1. /\ st' = regs /\ Follows(i + 1, s) /\ UNCHANGED <<empty, top, codes, tagged>>
      /\ i + 1 \in Nat /\ regs \in [Slot -> Values]
  <2>1. st' = regs /\ Follows(i + 1, s) /\ UNCHANGED <<empty, top, codes, tagged>>
    BY DEF ConditionalMove
  <2>2. i + 1 \in Nat /\ 0 \in Slot /\ fst(i) \in Values /\ st \in [Slot -> Values]
    BY Facts
  <2>3. Replaced(0, fst(i)) \in [Slot -> Values]
    BY <2>2, ReplacedType, Zenon
  <2> QED
    BY <2>1, <2>2, <2>3, Zenon
<1>2. ASSUME in_order, i + 1 <= Depth
      PROVE  s \in Seq(Values) /\ Len(s) = Depth /\ Ring(regs, top, s)
  <2>1. CASE take
    <3> DEFINE r == [stack EXCEPT ![0 + 1] = fst(i)]
    <3>1. 0 \in Slot /\ 0 + 1 <= Depth /\ 0 < Depth /\ i < Depth /\ Depth \in Nat
      BY <1>2, Facts
    <3>2. fst(i) = stack[i + 1] /\ fst(i) \in Values
      BY <1>2, RegisterInUse
    <3>3. r \in Seq(Values) /\ Len(r) = Depth /\ Ring(Replaced(0, fst(i)), top, r)
      BY <1>2, <3>1, <3>2, RegisterInUse
    <3>4. s = SubSeq(r, 1, Depth)
      BY <2>1, <3>1, <3>2 DEF After
    <3> HIDE DEF r
    <3>5. SubSeq(r, 1, Depth) = r
      BY <3>1, <3>3
    <3> QED
      BY <2>1, <3>3, <3>4, <3>5
  <2>2. CASE ~take
    BY <1>2, <2>2, Facts
  <2> QED
    BY <2>1, <2>2
<1> HIDE DEF regs, s
<1> QED
  BY <1>1, <1>2, KeepStep

\* FFREE and MoveTop leave the rules of the stack.
LEMMA OutOfOrder ==
  ASSUME X87Inv, in_order' = FALSE, stack' = <<>>, UNCHANGED <<st, codes, tagged>>,
         top' \in Slot, empty' \in [Slot -> BOOLEAN]
  PROVE  X87Inv'
<1>1. <<>> \in Seq(Values) /\ Len(<<>>) <= Slots
  BY SlotsAssumption
<1>2. X87TypeOK'
  BY <1>1, Zenon DEF X87Inv, X87TypeOK, Depth
<1> QED
  BY <1>2, IInvKept

LEMMA FNINITKeeps ==
  ASSUME X87Inv, FNINIT
  PROVE  X87Inv'
<1>1. <<>> \in Seq(Values) /\ Len(<<>>) = 0 /\ 0 <= Slots /\ 0 \in Slot
  BY SlotsAssumption DEF Slot
<1>2. empty' = [q \in Slot |-> TRUE] /\ top' = 0 /\ stack' = <<>> /\ codes' \in Codes
  BY DEF FNINIT, Codes, Outcomes
<1>3. [q \in Slot |-> TRUE] \in [Slot -> BOOLEAN]
  OBVIOUS
<1>4. X87TypeOK'
  BY <1>1, <1>2, <1>3, Zenon DEF FNINIT, X87Inv, X87TypeOK, Depth
<1>5. Ring(st', top', stack')
  BY <1>1, <1>2 DEF Ring
<1>6. Tags(empty', top', 0, tagged')
  <2> SUFFICES ASSUME NEW i \in Slot
               PROVE  ~(i < 0) /\ empty'[At(top', i)] = TRUE
    BY DEF Tags
  <2>1. ~(i < 0) /\ i \in 0 .. Slots
    BY SlotsAssumption DEF Slot
  <2>2. At(0, i) \in Slot
    BY <1>1, <2>1, AtSlot
  <2> QED
    BY <1>2, <2>1, <2>2
<1> QED
  BY <1>1, <1>2, <1>4, <1>5, <1>6, IInvKept

-----------------------------------------------------------------------------
(* Theorems.                                                               *)

LEMMA InitHolds == X87Init => X87Inv
<1> SUFFICES ASSUME X87Init PROVE X87Inv
  OBVIOUS
<1>1. Zero \in Values
  BY ValuesAssumption, Zenon DEF Zero
<1>2. <<>> \in Seq(Values) /\ Len(<<>>) = 0 /\ 0 <= Slots /\ 0 \in Slot
  BY SlotsAssumption DEF Slot
<1>3. [q \in Slot |-> Zero] \in [Slot -> Values] /\ [q \in Slot |-> FALSE] \in [Slot -> BOOLEAN]
  BY <1>1
<1>4. X87TypeOK
  BY <1>2, <1>3 DEF X87Init, X87TypeOK, Depth, Codes, Outcomes
<1>5. Ring(st, top, stack)
  BY <1>2 DEF X87Init, Ring
<1>6. Tags(empty, top, 0, tagged)
  BY SlotsAssumption DEF X87Init, Tags, Slot
<1> QED
  BY <1>2, <1>4, <1>5, <1>6, IInvParts DEF X87Init, X87Inv, Parts, Depth

LEMMA StepKeeps == X87Inv /\ [X87Next]_x87_vars => X87Inv'
<1> SUFFICES ASSUME X87Inv, [X87Next]_x87_vars PROVE X87Inv'
  OBVIOUS
<1>1. ASSUME NEW v \in Values, Load(v) PROVE X87Inv'
  BY <1>1, LoadKeeps
<1>2. ASSUME NEW v \in Values, NEW w \in Values, ReplaceAndPush(v, w) PROVE X87Inv'
  BY <1>2, ReplaceAndPushKeeps
<1>3. ASSUME NEW v \in Values, NEW i \in Slot, NEW pops \in 0 .. 1, Arithmetic(i, v, pops) PROVE X87Inv'
  BY <1>3, ArithmeticKeeps
<1>4. ASSUME NEW i \in Slot, LoadRegister(i) PROVE X87Inv'
  BY <1>4, LoadRegisterKeeps
<1>5. ASSUME NEW i \in Slot, Exchange(i) PROVE X87Inv'
  BY <1>5, ExchangeKeeps
<1>6. ASSUME NEW i \in Slot, FFREE(i) PROVE X87Inv'
  <2>1. empty' \in [Slot -> BOOLEAN] /\ top' \in Slot
    BY <1>6, Facts DEF FFREE
  <2> QED
    BY <1>6, <2>1, OutOfOrder DEF FFREE
<1>7. ASSUME NEW i \in Slot, NEW take \in BOOLEAN, ConditionalMove(i, take) PROVE X87Inv'
  BY <1>7, ConditionalMoveKeeps
<1>8. ASSUME NEW i \in Slot, NEW pops \in 0 .. 1, StoreRegister(i, pops) PROVE X87Inv'
  BY <1>8, StoreRegisterKeeps
<1>9. ASSUME NEW i \in Slot, NEW pops \in 0 .. 1, CompareToFlags(i, pops) PROVE X87Inv'
  BY <1>9, CompareToFlagsKeeps
<1>10. ASSUME NEW i \in Slot, NEW outcome \in Outcomes, NEW pops \in 0 .. 1,
              fpu_compare(i, outcome, pops)
       PROVE  X87Inv'
  <2>1. pops \in 0 .. 2 /\ pops <= i + 1
    BY DEF Slot
  <2> QED
    BY <1>10, <2>1, CompareKeeps
<1>11. ASSUME NEW outcome \in Outcomes, fpu_compare(1, outcome, 2) PROVE X87Inv'
  <2>1. 1 \in Slot /\ 2 \in 0 .. 2 /\ 2 <= 1 + 1
    BY SlotsAssumption DEF Slot
  <2> QED
    BY <1>11, <2>1, CompareKeeps
<1>12. ASSUME NEW pops \in 0 .. 1, Store(pops) PROVE X87Inv'
  BY <1>12, StoreKeeps
<1>13. ASSUME NEW by \in {-1, 1}, MoveTop(by) PROVE X87Inv'
  <2>1. (top + 1) % Slots \in Slot /\ (top - 1) % Slots \in Slot
    <3>1. 1 \in 0 .. Slots /\ top \in Slot /\ 0 \in 0 .. Slots - 1
      BY Facts, SlotsAssumption
    <3> QED
      BY <3>1, AtSlot, AtBelow DEF At
  <2>2. top' \in Slot
    <3>1. CASE by = 1
      BY <1>13, <2>1, <3>1 DEF MoveTop
    <3>2. CASE by = -1
      <4>1. top + (-1) = top - 1
        BY Facts DEF Slot
      <4> QED
        BY <1>13, <2>1, <3>2, <4>1 DEF MoveTop
    <3> QED
      BY <3>1, <3>2
  <2> QED
    BY <1>13, <2>2, Facts, OutOfOrder DEF MoveTop
<1>14. ASSUME FXAM PROVE X87Inv'
  <2>1. codes' \in Codes /\ UNCHANGED <<st, empty, top, stack, in_order, tagged>>
    BY <1>14 DEF FXAM, Codes
  <2> QED
    BY <2>1, Zenon DEF X87Inv, X87TypeOK, RingIsStack, TagsFollowStack, fst, fst_empty, slot, Depth
<1>15. ASSUME FNINIT PROVE X87Inv'
  BY <1>15, FNINITKeeps
<1>16. ASSUME UNCHANGED x87_vars PROVE X87Inv'
  BY <1>16, Zenon DEF x87_vars, X87Inv, X87TypeOK, RingIsStack, TagsFollowStack, fst, fst_empty, slot, Depth
<1> QED
  BY <1>1, <1>2, <1>3, <1>4, <1>5, <1>6, <1>7, <1>8, <1>9, <1>10, <1>11, <1>12, <1>13, <1>14,
     <1>15, <1>16, Zenon DEF X87Next

LEMMA Invariance == X87Spec => []X87Inv
  BY InitHolds, StepKeeps, PTL DEF X87Spec

\* For every ring of at least two registers the top is a register of the ring, however
\* often pushes and pops have wrapped around (SoftCPU64.h:187).
THEOREM RingTypeCorrect == X87Spec => []X87TypeOK
<1>1. X87Inv => X87TypeOK
  BY DEF X87Inv
<1> QED
  BY <1>1, Invariance, PTL

\* A program that keeps to the rules of the stack finds in ST(i) what it put there
\* (SoftCPU64.h:183).
THEOREM RegistersAreStack == X87Spec => []RingIsStack
<1>1. X87Inv => RingIsStack
  BY DEF X87Inv
<1> QED
  BY <1>1, Invariance, PTL

\* FXAM (SoftCPU64.cpp:2140) never calls a register empty that such a program uses, and
\* after FNINIT calls every other one empty.
THEOREM TagsAreStack == X87Spec => []TagsFollowStack
<1>1. X87Inv => TagsFollowStack
  BY DEF X87Inv
<1> QED
  BY <1>1, Invariance, PTL
=============================================================================
