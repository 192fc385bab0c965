-------------------------------- MODULE Alu --------------------------------
(***************************************************************************)
(* The integer unit of SoftCPU64: results and flags of the arithmetic,     *)
(* logic, shift, bit, multiply and divide instructions at every operand    *)
(* width.  The code computes in u64 (and __int128 where it says so) and    *)
(* masks to the operand width; so does the model, with a word of WordBits  *)
(* bits in place of 64.  One instruction is executed from any contents of  *)
(* its registers and flags.  AF is left out: no instruction reads it.      *)
(***************************************************************************)
EXTENDS Integers, FiniteSets, FiniteSetsExt

CONSTANTS
  WordBits,  \* 64: the width of u64
  LongBits,  \* 32: the width whose register writes clear the upper half
  ByteBits,  \* 8
  Widths,    \* 8, 16, 32 and 64
  Words,     \* register contents tried for RAX and the operand
  HighWords  \* register contents tried for RDX

modulus(w) == 2^w

Word == modulus(WordBits)

ASSUME WidthsAssumption ==
  /\ Widths \subseteq 1 .. WordBits
  /\ {ByteBits, 2 * ByteBits, LongBits, WordBits} \subseteq Widths
  /\ Words \cup HighWords \subseteq 0 .. Word - 1
  /\ \A w \in Widths \ {WordBits} : 2 * w <= WordBits

\* The laws of powers, as far as shifts of a double word need them.
ASSUME PowersAssumption ==
  /\ WordBits \in Nat \ {0} /\ 2^0 = 1 /\ 2^1 = 2
  /\ \A i, j \in 0 .. 2 * WordBits :
       /\ 2^i \in Nat \ {0}
       /\ i + j <= 2 * WordBits => 2^(i + j) = 2^i * 2^j

VARIABLES
  rax,    \* m_gpr[RAX]: destination and accumulator
  rdx,    \* m_gpr[RDX]: upper half, third operand
  opnd,   \* the other operand: a register, a memory cell or an immediate
  flags,  \* m_rflags
  fault,  \* an EmulatorError ended the emulator
  ins     \* history: the instruction executed and the state it found

vars == <<rax, rdx, opnd, flags, fault, ins>>

-----------------------------------------------------------------------------
(* Numbers and bits.                                                       *)

u64(n) == n % Word

Negative(v, m) == v % m >= m \div 2

Signed(v, m) == (v % m) - (IF Negative(v, m) THEN m ELSE 0)

sign_extend(v, m) == u64(Signed(v, m))

Bits(v) == {i \in 0 .. WordBits - 1 : (v \div 2^i) % 2 = 1}

FromBits(S) == CHOOSE v \in 0 .. Word - 1 : Bits(v) = S

BitAnd(a, b) == FromBits(Bits(a) \cap Bits(b))
BitOr(a, b) == FromBits(Bits(a) \cup Bits(b))
BitXor(a, b) == FromBits((Bits(a) \cup Bits(b)) \ (Bits(a) \cap Bits(b)))

\* The table 0x6996 holds a 1 where the number of bits is odd, against the name.
parity_even(v) == Cardinality(Bits(v % modulus(ByteBits))) % 2 = 1

write_gpr_unmasked(old, v, w) ==
  v + (IF w >= LongBits THEN 0 ELSE old - (old % modulus(w)))
\* write_gpr: byte and word writes keep the rest of the register.
write_gpr(old, v, w) ==
  (v % modulus(w)) + (IF w >= LongBits THEN 0 ELSE old - (old % modulus(w)))

-----------------------------------------------------------------------------
(* Flags.                                                                  *)

Flags == [CF : BOOLEAN, PF : BOOLEAN, ZF : BOOLEAN, SF : BOOLEAN, OF : BOOLEAN]

result_flags(result, m, cf, of) ==
  [CF |-> cf, PF |-> parity_even(result), ZF |-> result % m = 0,
   SF |-> Negative(result, m), OF |-> of]

set_logic_flags(result, m) == result_flags(result, m, FALSE, FALSE)

CarryOut_off_by_one(full, m) == full >= m - 1
CarryOut(full, m) == full > m - 1

\* add: the sum is a u64, so at the full width it has lost its carry.
add(lhs, rhs, m, carry_value) ==
  LET full   == u64((lhs % m) + (rhs % m) + carry_value)
      result == full % m
  IN  [result |-> result,
       flags |-> result_flags(result, m, CarryOut(full, m),
                   /\ Negative(lhs, m) = Negative(rhs, m)
                   /\ Negative(lhs, m) # Negative(result, m))]

SubOverflow_as_add(lhs, rhs, result, m) ==
  /\ Negative(lhs, m) = Negative(rhs, m)
  /\ Negative(lhs, m) # Negative(result, m)
SubOverflow(lhs, rhs, result, m) ==
  /\ Negative(lhs, m) # Negative(rhs, m)
  /\ Negative(lhs, m) # Negative(result, m)

sub(lhs, rhs, m, borrow_value) ==
  LET rhs_with_borrow == u64((rhs % m) + borrow_value)
      result == ((lhs % m) - rhs_with_borrow) % m
  IN  [result |-> result,
       flags |-> result_flags(result, m, lhs % m < rhs_with_borrow,
                              SubOverflow(lhs, rhs, result, m))]

\* condition(cc): the odd codes negate the even ones.
condition(cc, f) ==
  LET even == <<f.OF, f.CF, f.ZF, f.CF \/ f.ZF, f.SF, f.PF,
                f.SF # f.OF, f.ZF \/ f.SF # f.OF>>[1 + cc \div 2]
  IN  IF cc % 2 = 0 THEN even ELSE ~even

Carry(f) == IF f.CF THEN 1 ELSE 0

Logic(result, m) == [result |-> result % m, flags |-> set_logic_flags(result, m)]

\* The eight operations of execute_alu_rm_reg, execute_alu_imm and the accumulator
\* forms in step.
AluOperations == {"add", "or", "adc", "sbb", "and", "sub", "xor", "cmp"}

alu(operation, lhs, rhs, m, f) ==
  CASE operation = "add" -> add(lhs, rhs, m, 0)
    [] operation = "adc" -> add(lhs, rhs, m, Carry(f))
    [] operation = "sbb" -> sub(lhs, rhs, m, Carry(f))
    [] operation \in {"sub", "cmp"} -> sub(lhs, rhs, m, 0)
    [] operation = "or"  -> Logic(BitOr(lhs, rhs), m)
    [] operation = "and" -> Logic(BitAnd(lhs, rhs), m)
    [] operation = "xor" -> Logic(BitXor(lhs, rhs), m)

-----------------------------------------------------------------------------
(* Instructions.  A guest chooses any of them at any width.                *)

Init ==
  /\ rax \in Words
  /\ rdx \in HighWords
  /\ opnd \in Words
  /\ flags \in {f \in Flags : ~f.PF /\ ~f.ZF /\ ~f.SF /\ ~f.OF}
  /\ fault = FALSE
  /\ ins = [op |-> "none", w |-> WordBits, count |-> 0, rax |-> 0, rdx |-> 0, opnd |-> 0,
            flags |-> set_logic_flags(0, Word)]

\* step: m_instruction_start and the operands that the instruction reads.
Fetch(op, w, count) ==
  /\ ins.op = "none"
  /\ ins' = [op |-> op, w |-> w, count |-> count,
             rax |-> rax, rdx |-> rdx, opnd |-> opnd, flags |-> flags]

execute_alu(operation, w) ==
  LET r == alu(operation, rax, opnd, modulus(w), flags)
  IN  /\ rax' = IF operation = "cmp" THEN rax ELSE write_gpr(rax, r.result, w)
      /\ flags' = r.flags
      /\ UNCHANGED <<rdx, opnd, fault>>

\* FF /0, FF /1: inc and dec keep CF.
execute_inc_dec(operation, w) ==
  LET r == IF operation = "inc" THEN add(opnd, 1, modulus(w), 0)
                                ELSE sub(opnd, 1, modulus(w), 0)
  IN  /\ opnd' = write_gpr(opnd, r.result, w)
      /\ flags' = [r.flags EXCEPT !.CF = flags.CF]
      /\ UNCHANGED <<rax, rdx, fault>>

\* F6/F7 /0, /2 and /3; 84, 85, A8 and A9 compute the same flags as /0.
execute_unary(operation, w) ==
  LET m == modulus(w)
      r == CASE operation = "test" -> [Logic(BitAnd(opnd, rax), m) EXCEPT !.result = opnd]
             [] operation = "not"  -> [result |-> m - 1 - (opnd % m), flags |-> flags]
             [] operation = "neg"  -> sub(0, opnd, m, 0)
  IN  /\ opnd' = IF operation = "test" THEN opnd ELSE write_gpr(opnd, r.result, w)
      /\ flags' = r.flags
      /\ UNCHANGED <<rax, rdx, fault>>

\* A double-width result: AX for bytes, DX:AX, EDX:EAX or RDX:RAX otherwise.
WritePair(low, high, w) ==
  IF w = ByteBits
  THEN /\ rax' = write_gpr(rax, (low % modulus(w)) + modulus(w) * (high % modulus(w)), 2 * w)
       /\ UNCHANGED rdx
  ELSE /\ rax' = write_gpr(rax, low, w)
       /\ rdx' = write_gpr(rdx, high, w)

\* F6/F7 /4 and /5: only CF and OF are written.
execute_mul(operation, w) ==
  LET m == modulus(w)
      result == IF operation = "mul" THEN (rax % m) * (opnd % m)
                                     ELSE Signed(rax, m) * Signed(opnd, m)
      wide == IF operation = "mul" THEN result \div m # 0 ELSE result # Signed(result, m)
  IN  /\ WritePair(result, result \div m, w)
      /\ flags' = [flags EXCEPT !.CF = wide, !.OF = wide]
      /\ UNCHANGED <<opnd, fault>>

\* What AX or DX:AX holds, as an unsigned number.
Pair(low, high, w) ==
  IF w = ByteBits THEN low % modulus(2 * w)
                  ELSE (low % modulus(w)) + modulus(w) * (high % modulus(w))

Truncated(a, b) ==
  LET q == (IF a < 0 THEN -a ELSE a) \div (IF b < 0 THEN -b ELSE b)
  IN  IF (a < 0) = (b < 0) THEN q ELSE -q

\* F6/F7 /6 and /7: a zero divisor or a quotient that does not fit ends the emulator.
QuotientFits_unsigned(quotient, operation, m) == quotient <= m - 1
QuotientFits(quotient, operation, m) ==
  IF operation = "div" THEN quotient <= m - 1
                       ELSE quotient >= -(m \div 2) /\ quotient <= (m \div 2) - 1

execute_div(operation, w) ==
  LET m == modulus(w)
      pair == Pair(rax, rdx, w)
      dividend == IF operation = "div" THEN pair ELSE Signed(pair, m * m)
      divisor == IF operation = "div" THEN opnd % m ELSE Signed(opnd, m)
      quotient == Truncated(dividend, divisor)
  IN  /\ IF divisor # 0 /\ QuotientFits(quotient, operation, m)
         THEN /\ WritePair(quotient, dividend - quotient * divisor, w)
              /\ UNCHANGED fault
         ELSE /\ fault' = TRUE
              /\ UNCHANGED <<rax, rdx>>
      /\ UNCHANGED <<opnd, flags>>

\* execute_shift_group: the count is masked with 0x3f at every width; a rotation by
\* more than the width shifts by a negative amount, which is undefined.
SarResult_unsigned(v, m, count) == (v \div 2^count) % m
SarResult(v, m, count) == (sign_extend(v, m) \div 2^count) % m

ShiftResults(operation, v, w, count) ==
  LET m == modulus(w)
  IN  CASE operation = "shl" -> {u64(v * 2^count) % m}
        [] operation = "shr" -> {(v \div 2^count) % m}
        [] operation = "sar" -> {SarResult(v, m, count)}
        [] operation \in {"rol", "ror"} /\ count > w -> 0 .. m - 1
        [] operation = "rol" /\ count <= w -> {BitOr(u64(v * 2^count), v \div 2^(w - count)) % m}
        [] operation = "ror" /\ count <= w -> {BitOr(v \div 2^count, u64(v * 2^(w - count))) % m}

execute_shift(operation, w, count) ==
  /\ \E result \in ShiftResults(operation, opnd % modulus(w), w, count) :
       IF count = 0
       THEN UNCHANGED <<opnd, flags>>
       ELSE /\ opnd' = write_gpr(opnd, result, w)
            /\ flags' = set_logic_flags(result, modulus(w))
  /\ UNCHANGED <<rax, rdx, fault>>

\* SHLD and SHRD: bits shifted into the operand come from RDX.
DoubleShift(operation, dest, src, w, count) ==
  IF operation = "shld" THEN BitOr(u64(dest * 2^count), src \div 2^(w - count))
                        ELSE BitOr(dest \div 2^count, u64(src * 2^(w - count)))

execute_double_shift(operation, w, count) ==
  LET m == modulus(w)
      dest == opnd % m
      result == DoubleShift(operation, dest, rdx % m, w, count) % m
      out == IF operation = "shld" THEN w - count ELSE count - 1
  IN  /\ IF count = 0
         THEN UNCHANGED <<opnd, flags>>
         ELSE /\ opnd' = write_gpr(opnd, result, w)
              /\ flags' = result_flags(result, m, out \in Bits(dest), FALSE)
      /\ UNCHANGED <<rax, rdx, fault>>

\* BT, BTS, BTR and BTC on a register: only CF is written.
execute_bit(operation, w) ==
  LET bit == {(rdx % modulus(w)) % w}
      value == Bits(opnd % modulus(w))
      result == CASE operation = "bt"  -> value
                  [] operation = "bts" -> value \cup bit
                  [] operation = "btr" -> value \ bit
                  [] operation = "btc" -> (value \cup bit) \ (value \cap bit)
  IN  /\ flags' = [flags EXCEPT !.CF = bit \subseteq value]
      /\ opnd' = IF result = value THEN opnd ELSE write_gpr(opnd, FromBits(result), w)
      /\ UNCHANGED <<rax, rdx, fault>>

\* BSF and BSR: a zero source leaves the destination alone.
execute_scan(operation, w) ==
  LET value == Bits(opnd % modulus(w))
      index == IF operation = "bsf" THEN Min(value) ELSE Max(value)
  IN  /\ rax' = IF value = {} THEN rax ELSE write_gpr(rax, index, w)
      /\ flags' = [flags EXCEPT !.ZF = value = {}]
      /\ UNCHANGED <<rdx, opnd, fault>>

\* IMUL with two operands writes no flag, with three operands CF and OF.
execute_imul(operation, w) ==
  LET m == modulus(w)
      result == Signed(opnd, m) * Signed(IF operation = "imul2" THEN rax ELSE rdx, m)
      wide == result # Signed(result, m)
  IN  /\ rax' = write_gpr(rax, result, w)
      /\ flags' = IF operation = "imul2" THEN flags ELSE [flags EXCEPT !.CF = wide, !.OF = wide]
      /\ UNCHANGED <<rdx, opnd, fault>>

execute_cmpxchg(w) ==
  LET m == modulus(w)
      equal == opnd % m = rax % m
  IN  /\ opnd' = IF equal THEN write_gpr(opnd, rdx, w) ELSE opnd
      /\ rax' = IF equal THEN rax ELSE write_gpr(rax, opnd, w)
      /\ flags' = [flags EXCEPT !.ZF = equal]
      /\ UNCHANGED <<rdx, fault>>

execute_xadd(w) ==
  LET sum == add(opnd, rdx, modulus(w), 0)
  IN  /\ rdx' = write_gpr(rdx, opnd, w)
      /\ opnd' = write_gpr(opnd, sum.result, w)
      /\ flags' = sum.flags
      /\ UNCHANGED <<rax, fault>>

\* MOVZX, MOVSX and MOVSXD widen the operand.
execute_extend(operation, from, w) ==
  /\ rax' = write_gpr(rax, IF operation = "movzx" THEN opnd % modulus(from)
                           ELSE sign_extend(opnd, modulus(from)), w)
  /\ UNCHANGED <<rdx, opnd, flags, fault>>

\* 98 and 99 widen the accumulator in place, or into RDX; without REX.W the result is
\* a long one, also under an operand-size prefix.
execute_widen(operation, w) ==
  LET half == IF w = WordBits THEN LongBits ELSE 2 * ByteBits
  IN  /\ rax' = IF operation = "cdqe" THEN write_gpr(rax, sign_extend(rax, modulus(half)), w)
                                      ELSE rax
      /\ rdx' = IF operation = "cqo"
                THEN write_gpr(rdx, IF Negative(rax, modulus(w)) THEN modulus(w) - 1 ELSE 0, w)
                ELSE rdx
      /\ UNCHANGED <<opnd, flags, fault>>

\* SETcc, CMOVcc and CLC.
execute_condition(operation, cc, w) ==
  /\ rax' = CASE operation = "set"  -> write_gpr(rax, IF condition(cc, flags) THEN 1 ELSE 0, ByteBits)
              [] operation = "cmov" -> IF condition(cc, flags) THEN write_gpr(rax, opnd, w) ELSE rax
              [] operation = "clc"  -> rax
  /\ flags' = IF operation = "clc" THEN [flags EXCEPT !.CF = FALSE] ELSE flags
  /\ UNCHANGED <<rdx, opnd, fault>>

Next ==
  \E w \in Widths :
    \/ \E op \in AluOperations : Fetch(op, w, 0) /\ execute_alu(op, w)
    \/ \E op \in {"inc", "dec"} : Fetch(op, w, 0) /\ execute_inc_dec(op, w)
    \/ \E op \in {"test", "not", "neg"} : Fetch(op, w, 0) /\ execute_unary(op, w)
    \/ \E op \in {"mul", "imul"} : Fetch(op, w, 0) /\ execute_mul(op, w)
    \/ \E op \in {"div", "idiv"} : Fetch(op, w, 0) /\ execute_div(op, w)
    \/ \E op \in {"rol", "ror", "shl", "shr", "sar"}, count \in 0 .. WordBits - 1 :
         Fetch(op, w, count) /\ execute_shift(op, w, count)
    \/ \E op \in {"shld", "shrd"}, count \in 0 .. w - 1 :
         Fetch(op, w, count) /\ execute_double_shift(op, w, count)
    \/ \E op \in {"bt", "bts", "btr", "btc"} : Fetch(op, w, 0) /\ execute_bit(op, w)
    \/ \E op \in {"bsf", "bsr"} : Fetch(op, w, 0) /\ execute_scan(op, w)
    \/ \E op \in {"imul2", "imul3"} : Fetch(op, w, 0) /\ execute_imul(op, w)
    \/ Fetch("cmpxchg", w, 0) /\ execute_cmpxchg(w)
    \/ Fetch("xadd", w, 0) /\ execute_xadd(w)
    \/ \E op \in {"movzx", "movsx"}, from \in Widths :
         from < w /\ Fetch(op, w, from) /\ execute_extend(op, from, w)
    \/ \E op \in {"cdqe", "cqo"} : w >= LongBits /\ Fetch(op, w, 0) /\ execute_widen(op, w)
    \/ \E op \in {"set", "cmov", "clc"}, cc \in 0 .. 15 :
         Fetch(op, w, cc) /\ execute_condition(op, cc, w)

Spec == Init /\ [][Next]_vars

-----------------------------------------------------------------------------
(* Properties.  ins holds what the instruction found, the other variables   *)
(* what it left.                                                           *)

\* Every instruction leaves words in the registers and the operand, also where an
\* intermediate sum, product or negation goes beyond 64 bits.
TypeOK ==
  /\ {rax, rdx, opnd} \subseteq 0 .. Word - 1
  /\ flags \in Flags
  /\ fault \in BOOLEAN
  /\ ins.w \in Widths /\ ins.flags \in Flags
  /\ {ins.rax, ins.rdx, ins.opnd} \subseteq 0 .. Word - 1

\* After cmp or sub the conditions b, be, e, l and le of condition (SoftCPU64.cpp:539)
\* are the unsigned and signed comparisons of the operands at that width, overflow
\* and the most negative value included.
ConditionsAreComparisons ==
  ins.op \in {"sub", "cmp"} =>
    LET m == modulus(ins.w)
        l == ins.rax
        r == ins.opnd
    IN  /\ condition(2, flags) <=> l % m < r % m
        /\ condition(6, flags) <=> l % m <= r % m
        /\ condition(4, flags) <=> l % m = r % m
        /\ condition(12, flags) <=> Signed(l, m) < Signed(r, m)
        /\ condition(14, flags) <=> Signed(l, m) <= Signed(r, m)

\* Result and flags of an addition or subtraction hold the exact sum: CF is what the
\* next word of a multi-word number needs, OF tells whether the signed sum fits.
ExactSum(w) ==
  (ins.w = w /\ ins.op \in {"add", "adc", "sub", "sbb"}) =>
    LET m == modulus(w)
        l == ins.rax
        r == ins.opnd
        result == rax % m
        c == IF ins.op \in {"adc", "sbb"} THEN Carry(ins.flags) ELSE 0
    IN  IF ins.op \in {"add", "adc"}
        THEN /\ (l % m) + (r % m) + c = result + m * Carry(flags)
             /\ flags.OF <=> Signed(l, m) + Signed(r, m) + c # Signed(result, m)
        ELSE /\ (l % m) - (r % m) - c = result - m * Carry(flags)
             /\ flags.OF <=> Signed(l, m) - Signed(r, m) - c # Signed(result, m)

\* add and sub (SoftCPU64.cpp:507) are exact at every width narrower than u64.
NarrowSumsAreExact == \A w \in Widths \ {WordBits} : ExactSum(w)

\* A product, left in two registers or packed in AX, is the exact product; a division
\* leaves the only quotient and remainder, and ends the emulator exactly when the
\* divisor is zero or no quotient of that width exists (SoftCPU64.cpp:788).
ProductsAndQuotientsAreExact ==
  LET m == modulus(ins.w)
      before == Pair(ins.rax, ins.rdx, ins.w)
      after == Pair(rax, rdx, ins.w)
      q == rax % m
      r == after \div m
  IN  /\ ins.op = "mul" => after = (ins.rax % m) * (opnd % m) /\ (flags.CF <=> after >= m)
      /\ ins.op = "imul" =>
           /\ Signed(after, m * m) = Signed(ins.rax, m) * Signed(opnd, m)
           /\ flags.CF <=> Signed(after, m * m) # Signed(after, m)
      /\ ins.op = "div" =>
           IF fault THEN before >= m * (opnd % m)
                    ELSE before = q * (opnd % m) + r /\ r < opnd % m
      /\ ins.op = "idiv" =>
           LET n == Signed(before, m * m)
               d == Signed(opnd, m)
               Divides(p, s) == /\ n = p * d + s
                                /\ s * s < d * d
                                /\ s = 0 \/ (s < 0) = (n < 0)
           IN  IF fault
               THEN ~\E p \in -(m \div 2) .. (m \div 2) - 1, s \in -m .. m : Divides(p, s)
               ELSE Divides(Signed(q, m), Signed(r, m))

\* Shifts, rotations and double-precision shifts by less than the width move the bits
\* where they belong; sar fills with the sign below the width of u64
\* (SoftCPU64.cpp:908 shifts an unsigned number).
ShiftsAreExact ==
  LET m == modulus(ins.w)
      c == ins.count
      v == ins.opnd % m
      s == ins.rdx % m
  IN  (c < ins.w) =>
        /\ ins.op = "shl" => opnd % m = (v * 2^c) % m
        /\ ins.op = "shr" => opnd % m = v \div 2^c
        /\ ins.op = "sar" /\ ins.w # WordBits => Signed(opnd, m) = Signed(v, m) \div 2^c
        /\ ins.op = "rol" => Bits(opnd % m) = {(i + c) % ins.w : i \in Bits(v)}
        /\ ins.op = "ror" => Bits(v) = {(i + c) % ins.w : i \in Bits(opnd % m)}
        /\ ins.op = "shld" => opnd % m = ((v * m + s) \div 2^(ins.w - c)) % m
        /\ ins.op = "shrd" => opnd % m = ((s * m + v) \div 2^c) % m
=============================================================================
