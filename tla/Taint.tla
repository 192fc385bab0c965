------------------------------- MODULE Taint -------------------------------
(***************************************************************************)
(* Taint propagation of SoftCPU64: the shadow words of the registers, the  *)
(* shadow bytes of guest memory and the sticky bit of the flags.           *)
(*                                                                         *)
(* Values are left out.  In their place owed and flags_owed say what may   *)
(* differ between two runs that only differ in uninitialized memory.  They *)
(* follow everything a result depends on, whether or not the code asks for *)
(* its shadow: operands, counts, the carry, addresses, and the conditions  *)
(* that decide whether something is written.  followed ends where an       *)
(* instruction uses something that may differ without asking for its       *)
(* taint; the actions name these cases with Unasked.  Two things count as  *)
(* defined: the x87 and SSE registers (README.md:37 excludes them) and     *)
(* what the kernel answers.                                                *)
(***************************************************************************)
EXTENDS Naturals

CONSTANTS
  Regs,   \* general registers followed, by number
  Bases,  \* registers that guests form addresses with
  Lane,   \* parts of a register or slot: byte 0, byte 1, bytes 2-3 and bytes 4-7
  MaxSteps  \* bound: instructions executed

ASSUME RegsAssumption == Regs \subseteq 0 .. 15 /\ Bases \subseteq Regs
ASSUME LaneAssumption == Lane \subseteq 0 .. 3
ASSUME MaxStepsAssumption == MaxSteps \in Nat

RAX == 0
RCX == 1
RDX == 2
RBX == 3
RSP == 4
RBP == 5
RSI == 6
RDI == 7
R11 == 11

Slot == 16                    \* eight bytes of guest memory, also the top of the stack
Cells == Regs \cup {Slot}

VARIABLES
  shadow,         \* m_gpr_shadow, and the MMU's shadow of the slot
  flags_tainted,  \* m_flags_tainted
  owed,           \* ghost: lanes that may differ between two runs
  flags_owed,     \* ghost: a flag may differ
  followed,       \* history: whatever may differ was used with its taint so far
  steps           \* instructions executed

vars == <<shadow, flags_tainted, owed, flags_owed, followed, steps>>

-----------------------------------------------------------------------------
(* Operands: a register and width, with or without a REX prefix, or memory  *)
(* at an address formed from registers.                                    *)

Gpr(r, w, rex) == [reg |-> r, w |-> w, rex |-> rex, address |-> {}]
Memory(w, base) == [reg |-> Slot, w |-> w, rex |-> FALSE, address |-> base]

mask_for_width_too_wide(w) ==
  0 .. (CASE w = 8 -> 1 [] w = 16 -> 2 [] w = 32 -> 3 [] w = 64 -> 4)
mask_for_width(w) ==
  Lane \cap 0 .. (CASE w = 8 -> 0 [] w = 16 -> 1 [] w = 32 -> 2 [] w = 64 -> 3)

\* read_gpr and write_gpr: registers 4 to 7 are ah, ch, dh and bh at byte width
\* without a REX prefix.
HighByte(o) == o.w = 8 /\ ~o.rex /\ o.reg \in 4 .. 7
cell(o) == IF HighByte(o) THEN o.reg - 4 ELSE o.reg
lanes(o) == IF HighByte(o) THEN Lane \cap {1} ELSE mask_for_width(o.w)

\* What differs after the lanes given by differing of an operand were written: a 32-bit
\* register write clears the upper half.
write_gpr(f, o, differing) ==
  [c \in Cells |-> IF c # cell(o) THEN f[c]
                   ELSE IF o.w = 32 /\ o.reg # Slot THEN differing
                   ELSE differing \cup (f[c] \ lanes(o))]

\* gpr_shadow, set_gpr_shadow and the MMU's accesses with shadow.
shadow_cell(o) == IF o.w = 8 /\ ~o.rex /\ o.reg \in 4 .. 7 THEN o.reg - 4 ELSE o.reg

shadow_lanes(o) ==
  IF o.w = 8 /\ ~o.rex /\ o.reg \in 4 .. 7 THEN Lane \cap {1} ELSE mask_for_width(o.w)

gpr_shadow(o) == shadow[shadow_cell(o)] \cap shadow_lanes(o)

set_gpr_shadow_extends(f, o, tainted) ==
  [f EXCEPT ![shadow_cell(o)] = IF tainted THEN shadow_lanes(o) ELSE {}]
set_gpr_shadow(f, o, tainted) ==
  LET written == IF tainted THEN shadow_lanes(o) ELSE {}
  IN  [c \in Cells |-> IF c # shadow_cell(o) THEN f[c]
                       ELSE IF o.w = 32 /\ o.reg # Slot THEN written
                       ELSE written \cup (f[c] \ shadow_lanes(o))]

\* Only for the high bytes does it matter whether there is a REX prefix.
Registers(w) ==
  {o \in {Gpr(r, w, rex) : r \in 0 .. 15, rex \in BOOLEAN} :
     cell(o) \in Regs /\ (o.rex \/ HighByte(o))}
MemoryOperands(w) == {Memory(w, base) : base \in {{}} \cup {{r} : r \in Bases}}
Operands(w) == Registers(w) \cup MemoryOperands(w)

\* A fixed register operand, if the register is followed.
Fixed(r, w) == {o \in {Gpr(r, w, TRUE)} : r \in Regs}

-----------------------------------------------------------------------------
(* What instructions have in common.                                       *)

\* decode_memory_address: an uninitialized register in the address taints the
\* instruction, whatever part of it is uninitialized.
address_tainted(o) == \E r \in o.address : shadow[r] # {}

\* m_current_taint once the instruction has read its operands and decoded the
\* address it writes to, and whether what it read differs.
current_taint(reads, dst) ==
  \/ \E o \in reads : gpr_shadow(o) # {} \/ address_tainted(o)
  \/ address_tainted(dst)

AddressDiffers(o) == \E r \in o.address : owed[r] # {}
ValueDiffers(o) == owed[cell(o)] \cap lanes(o) # {}
AnyDiffers(reads) == \E o \in reads : ValueDiffers(o) \/ AddressDiffers(o)

\* The result depends on what is read and on where it is written.
Differs(reads, dst) == AnyDiffers(reads) \/ AddressDiffers(dst)

Spread(o, differs) == IF differs THEN lanes(o) ELSE {}

KeepsOperands == UNCHANGED <<shadow, owed>>
KeepsFlags == UNCHANGED <<flags_tainted, flags_owed>>

\* Everything the instruction depends on has been asked for its taint, or something
\* that differs has not.
Follows == UNCHANGED followed
Unasked(differs) == followed' = (followed /\ ~differs)

\* write_operand: the whole result inherits the taint.
Writes(dst, tainted, differs) ==
  /\ shadow' = set_gpr_shadow(shadow, dst, tainted)
  /\ owed' = write_gpr(owed, dst, Spread(dst, differs))

write_operand(reads, dst) == Writes(dst, current_taint(reads, dst), Differs(reads, dst))

WritesTwo(first, second, tainted, differs) ==
  /\ shadow' = set_gpr_shadow(set_gpr_shadow(shadow, first, tainted), second, tainted)
  /\ owed' = write_gpr(write_gpr(owed, first, Spread(first, differs)), second, Spread(second, differs))

\* An operand that only one of the two runs may have written: a 32-bit register differs
\* in its upper half too, which only the write clears.
touched(o) == IF o.w = 32 /\ o.reg # Slot THEN Lane ELSE lanes(o)
Doubtful(f, o) == [c \in Cells |-> IF c = cell(o) THEN f[c] \cup touched(o) ELSE f[c]]

\* A write under a condition, which the other run may decide otherwise if it is unsure.
WritesIf(written, dst, tainted, differs, unsure) ==
  /\ shadow' = IF written THEN set_gpr_shadow(shadow, dst, tainted) ELSE shadow
  /\ owed' = IF unsure THEN Doubtful(owed, dst)
             ELSE IF written THEN write_gpr(owed, dst, Spread(dst, differs)) ELSE owed

\* The taint of the condition only reaches what is written.
Missed(written, dst, unsure) == unsure /\ (~written \/ (dst.w = 32 /\ dst.reg # Slot))

\* Every flag is written.
update_flags_taint_only_clears(tainted) == flags_tainted' = (flags_tainted /\ tainted)
update_flags_taint(tainted) == flags_tainted' = tainted

SetsFlags(tainted, differs) ==
  /\ update_flags_taint(tainted)
  /\ flags_owed' = differs

\* Some flags are written: the taint of the others is overwritten with them.
SetsSomeFlags(tainted, differs) ==
  /\ flags_tainted' = tainted
  /\ flags_owed' = (flags_owed \/ differs)
FlagsLost(differs) == flags_owed /\ ~differs

\* Some flags are written by set_flag alone, or may have been written in the other run:
\* their taint stays as it was.
set_flag(differs) ==
  /\ flags_owed' = (flags_owed \/ differs)
  /\ UNCHANGED flags_tainted
FlagsUnmarked(differs) == differs /\ ~flags_owed

-----------------------------------------------------------------------------
(* Instructions.                                                           *)

Init ==
  /\ shadow = [c \in Cells |-> IF c = Slot THEN Lane ELSE {}]
  /\ owed = shadow
  /\ flags_tainted = FALSE
  /\ flags_owed = FALSE
  /\ followed = TRUE
  /\ steps = 0

\* An operation of two operands.  add stands for add, or and and, sub for sub and xor,
\* test for 84 and 85.  adc and sbb read the carry without its taint.
Carry(operation) == operation \in {"adc", "sbb"} /\ flags_owed

Zeroing(operation, dst, src) == dst.reg # Slot /\ dst = src /\ operation \in {"sub", "cmp"}

execute_alu_rm_reg(operation, dst, src) ==
  LET tainted == ~Zeroing(operation, dst, src) /\ current_taint({dst, src}, dst)
      constant == dst = src /\ operation \in {"sub", "cmp"}
      differs == (~constant /\ Differs({dst, src}, dst)) \/ Carry(operation)
  IN  /\ IF operation \in {"cmp", "test"} THEN KeepsOperands ELSE Writes(dst, tainted, differs)
      /\ SetsFlags(tainted, differs)
      /\ Unasked(Carry(operation))

\* Immediate and accumulator forms, neg, and the shifts by an immediate or by one; adc
\* stands for sbb too.
execute_alu_imm(operation, dst) ==
  LET tainted == current_taint({dst}, dst)
      differs == Differs({dst}, dst) \/ Carry(operation)
  IN  /\ IF operation = "cmp" THEN KeepsOperands ELSE Writes(dst, tainted, differs)
      /\ SetsFlags(tainted, differs)
      /\ Unasked(Carry(operation))

\* Shifts and rotations by CL, which is read without its shadow; a count of zero changes
\* nothing.
execute_shift_group(dst, zero) ==
  LET count == AnyDiffers(Fixed(RCX, 8))
      tainted == current_taint({dst}, dst)
      differs == Differs({dst}, dst) \/ count
  IN  /\ WritesIf(~zero, dst, tainted, differs, count)
      /\ IF zero THEN set_flag(count) ELSE SetsFlags(tainted, differs)
      /\ Unasked(count)

execute_inc_dec(dst) ==
  /\ write_operand({dst}, dst)
  /\ SetsSomeFlags(current_taint({dst}, dst), Differs({dst}, dst))
  /\ Unasked(FlagsLost(Differs({dst}, dst)))

\* not, and bswap of a register.
execute_not(dst) == write_operand({dst}, dst) /\ KeepsFlags /\ Follows

\* mul, imul, div and idiv leave two results, or one in AX.  Products write CF and OF.
execute_mul_div(operation, src, w) ==
  LET reads == {src} \cup (CASE operation = "mul" -> Fixed(RAX, w)
                             [] operation = "div" /\ w = 8 -> Fixed(RAX, 16)
                             [] operation = "div" /\ w # 8 -> Fixed(RAX, w) \cup Fixed(RDX, w))
      tainted == current_taint(reads, src)
      differs == Differs(reads, src)
  IN  /\ IF w = 8 THEN Writes(Gpr(RAX, 16, TRUE), tainted, differs)
                  ELSE WritesTwo(Gpr(RAX, w, TRUE), Gpr(RDX, w, TRUE), tainted, differs)
      /\ IF operation = "mul" THEN set_flag(differs) ELSE KeepsFlags
      /\ Unasked(operation = "mul" /\ FlagsUnmarked(differs))

\* IMUL with two operands writes no flag, with an immediate CF and OF.
execute_imul(operation, dst, src) ==
  LET reads == IF operation = "imul2" THEN {dst, src} ELSE {src}
      differs == Differs(reads, dst)
  IN  /\ write_operand(reads, dst)
      /\ IF operation = "imul2" THEN KeepsFlags ELSE set_flag(differs)
      /\ Unasked(operation = "imul3" /\ FlagsUnmarked(differs))

\* SETcc and CMOVcc: the result is as tainted as the flags; a move whose condition is
\* false writes nothing.
execute_setcc(dst) ==
  /\ Writes(dst, flags_tainted \/ address_tainted(dst), flags_owed \/ AddressDiffers(dst))
  /\ KeepsFlags
  /\ Follows

execute_cmov(dst, src, taken) ==
  /\ WritesIf(taken, dst, flags_tainted \/ current_taint({src}, dst),
              Differs({src}, dst), flags_owed)
  /\ KeepsFlags
  /\ Unasked(Missed(taken, dst, flags_owed))

\* BT, BTS, BTR and BTC with an immediate or a register as bit index.  With a register,
\* a base in memory is read and written without its shadow.  BT modifies nothing, and an
\* operation that does not change the value writes nothing.
execute_bit(base, index, modifies, changes) ==
  LET plain == base.reg = Slot /\ index # {}
      tainted == current_taint(index \cup (IF plain THEN {} ELSE {base}), base)
      differs == Differs(index \cup {base}, base)
      unsure == modifies /\ differs
  IN  /\ changes => modifies
      /\ WritesIf(changes, base, tainted /\ ~plain, differs, unsure)
      /\ SetsSomeFlags(tainted, differs)
      /\ Unasked(\/ plain /\ (ValueDiffers(base) \/ (changes /\ differs))
                 \/ Missed(changes, base, unsure)
                 \/ FlagsLost(differs))

\* SHLD and SHRD by an immediate or by CL, here read with its shadow; a count of zero
\* changes nothing.
execute_double_shift(dst, src, by_cl, zero) ==
  LET count == IF by_cl THEN Fixed(RCX, 8) ELSE {}
      reads == {dst, src} \cup count
      unsure == AnyDiffers(count)
  IN  /\ zero => by_cl
      /\ WritesIf(~zero, dst, current_taint(reads, dst), Differs(reads, dst), unsure)
      /\ IF zero THEN set_flag(unsure) ELSE SetsFlags(current_taint(reads, dst), Differs(reads, dst))
      /\ Unasked(Missed(~zero, dst, unsure))

\* CMPXCHG: one of the two operands compared is written, and the comparison decides
\* which.
execute_cmpxchg(dst, src, w, equal) ==
  LET accumulator == Gpr(RAX, w, TRUE)
      compared == {dst} \cup Fixed(RAX, w)
      reads == compared \cup (IF equal THEN {src} ELSE {})
      written == IF equal THEN dst ELSE accumulator
      unsure == Differs(compared, dst)
  IN  /\ shadow' = set_gpr_shadow(shadow, written, current_taint(reads, dst))
      /\ owed' = IF unsure THEN Doubtful(Doubtful(owed, dst), accumulator)
                 ELSE write_gpr(owed, written, Spread(written, Differs(reads, dst)))
      /\ SetsSomeFlags(current_taint(reads, dst), Differs(reads, dst))
      /\ Unasked(unsure \/ FlagsLost(Differs(reads, dst)))

\* XADD and XCHG: both operands are written after both have been read.
execute_exchange(operation, dst, src) ==
  LET tainted == current_taint({dst, src}, dst)
      differs == Differs({dst, src}, dst)
  IN  /\ WritesTwo(src, dst, tainted, differs)
      /\ IF operation = "xadd" THEN SetsFlags(tainted, differs) ELSE KeepsFlags
      /\ Follows

\* 91 to 97: the registers swap their words, and their shadows.
Swapped(f, r) ==
  [c \in Cells |-> CASE c = RAX -> f[r] [] c = r -> f[RAX] [] OTHER -> f[c]]

execute_xchg_rax(r) ==
  /\ shadow' = Swapped(shadow, r)
  /\ owed' = Swapped(owed, r)
  /\ KeepsFlags
  /\ Follows

\* MOVZX, MOVSX, MOVSXD, CDQE and CQO.
execute_extend(dst, src) == write_operand({src}, dst) /\ KeepsFlags /\ Follows

\* BSF and BSR: a zero source leaves the destination alone.
execute_scan(dst, src, found) ==
  LET differs == Differs({src}, dst)
  IN  /\ WritesIf(found, dst, current_taint({src}, dst), differs, differs)
      /\ SetsSomeFlags(current_taint({src}, dst), differs)
      /\ Unasked(Missed(found, dst, differs) \/ FlagsLost(differs))

\* MOV, MOVNTI: the lanes that differ are moved, unless the address itself differs.
MovedLanes(dst, src) ==
  IF AddressDiffers(src) \/ AddressDiffers(dst) THEN lanes(dst)
  ELSE IF lanes(src) = lanes(dst) THEN owed[cell(src)] \cap lanes(src)
  ELSE Spread(dst, Differs({src}, dst))

execute_mov(dst, src) ==
  /\ shadow' = set_gpr_shadow(shadow, dst, current_taint({src}, dst))
  /\ owed' = write_gpr(owed, dst, MovedLanes(dst, src))
  /\ KeepsFlags
  /\ Follows

\* An immediate, or a value from an XMM register, to a register or to memory.
execute_mov_imm(dst) == write_operand({}, dst) /\ KeepsFlags /\ Follows

\* LEA: only the address counts.
execute_lea(dst, base) ==
  write_operand({}, [dst EXCEPT !.address = base]) /\ KeepsFlags /\ Follows

\* CVTSS2SI and its kin convert memory that is read without its shadow.
execute_sse_float(dst, src) ==
  /\ Writes(dst, address_tainted(src), AnyDiffers({src}))
  /\ KeepsFlags
  /\ Unasked(ValueDiffers(src))

\* The stack pointer is never asked for its taint when it is an address.
Through(r) == r \in Regs /\ owed[r] # {}

\* push64: the slot takes over the register's shadow, lane by lane; nothing for the
\* immediate that 68 and 6a push and the return address of a call.
execute_push(r) ==
  /\ shadow' = [shadow EXCEPT ![Slot] = shadow[r]]
  /\ owed' = [owed EXCEPT ![Slot] = IF Through(RSP) THEN Lane ELSE owed[r]]
  /\ KeepsFlags
  /\ Unasked(Through(RSP))

execute_push_value ==
  /\ Writes(Memory(64, {}), FALSE, Through(RSP))
  /\ KeepsFlags
  /\ Unasked(Through(RSP))

\* pop64_with_shadow in 58 to 5f and leave: one uninitialized byte taints the register.
Popped(value) == IF value # {} THEN Lane ELSE {}

execute_pop(r) ==
  /\ shadow' = [shadow EXCEPT ![r] = Popped(shadow[Slot])]
  /\ owed' = [owed EXCEPT ![r] = IF Through(RSP) THEN Lane ELSE owed[Slot]]
  /\ KeepsFlags
  /\ Unasked(Through(RSP))

\* leave: RSP takes over RBP, and RBP is popped through RSP.
Left(f, value) ==
  [c \in Cells |-> CASE c = RSP /\ RBP \in Regs -> f[RBP]
                     [] c = RBP -> value
                     [] OTHER -> f[c]]

execute_leave ==
  /\ shadow' = Left(shadow, Popped(shadow[Slot]))
  /\ owed' = Left(owed, IF Through(RBP) THEN Lane ELSE owed[Slot])
  /\ KeepsFlags
  /\ Unasked(Through(RBP))

\* FF /6 and 8F /0: the whole slot, or operand, inherits the taint.
execute_push_rm(src) ==
  /\ Writes(Memory(64, {}), current_taint({src}, src), AnyDiffers({src}) \/ Through(RSP))
  /\ KeepsFlags
  /\ Unasked(Through(RSP))

execute_pop_rm(dst) ==
  /\ Writes(dst, current_taint({Memory(64, {})}, dst), Differs({Memory(64, {})}, dst) \/ Through(RSP))
  /\ KeepsFlags
  /\ Unasked(Through(RSP))

\* Registers set to values that count as defined.
Defined(f, registers) == [c \in Cells |-> IF c \in registers THEN {} ELSE f[c]]
Results(registers, differing) ==
  [c \in Cells |-> IF c \in differing THEN Lane ELSE Defined(owed, registers)[c]]

DefinesRegisters(registers, differing) ==
  /\ shadow' = Defined(shadow, registers)
  /\ owed' = Results(registers, differing)
  /\ KeepsFlags
  /\ Unasked(differing # {})

\* The system call leaves the flags in R11, CPUID answers the leaf in EAX.
execute_syscall == DefinesRegisters({RAX, RCX, R11}, IF flags_owed THEN {R11} \cap Regs ELSE {})
execute_rdtsc == DefinesRegisters({RAX, RDX}, {})
execute_cpuid ==
  LET registers == {RAX, RBX, RCX, RDX}
  IN  DefinesRegisters(registers, IF AnyDiffers(Fixed(RAX, 32)) THEN registers \cap Regs ELSE {})

\* MOVS and STOS write without shadow.  uninitialized says so of what MOVS reads, which
\* may be any memory.  With a rep prefix RCX counts, ends as zero, and may be zero.
execute_string_instruction(moves, uninitialized, w, repz, written) ==
  LET zeroed == IF repz THEN {RCX} ELSE {}
      pointers == {RDI} \cup zeroed \cup (IF moves THEN {RSI} ELSE {})
      slot == Memory(w, {})
      differs == IF moves THEN uninitialized ELSE AnyDiffers(Fixed(RAX, w))
      unsure == \E r \in pointers : Through(r)
      value == IF unsure THEN Doubtful(owed, slot)
               ELSE IF written THEN write_gpr(owed, slot, Spread(slot, differs)) ELSE owed
  IN  /\ ~repz => written
      /\ shadow' = Defined(IF written THEN set_gpr_shadow(shadow, slot, FALSE) ELSE shadow, zeroed)
      /\ owed' = Defined(value, zeroed)
      /\ KeepsFlags
      /\ Unasked(unsure \/ (written /\ differs))

\* Stores of XMM registers, of x87 registers, and FXSAVE: plain writes, whatever the
\* address depends on.
write_xmm_to_operand(dst) ==
  /\ Writes(dst, FALSE, AddressDiffers(dst))
  /\ KeepsFlags
  /\ Unasked(AddressDiffers(dst))

\* FNSTSW AX.
execute_fnstsw == Writes(Gpr(RAX, 16, TRUE), FALSE, FALSE) /\ KeepsFlags /\ Follows

\* (U)COMIS* and FCOMI: taken for defined, also when an operand comes from memory.
set_eflags_from_float_compare(reads) ==
  /\ SetsFlags(FALSE, AnyDiffers(reads))
  /\ KeepsOperands
  /\ Unasked(AnyDiffers(reads))

\* A handler has run.  It has left registers, or the flags, defined, among them RCX and
\* R11 by its system call; sigreturn restores what they held and not their taint.
handle_sigreturn(defined, flags) ==
  /\ {RCX, R11} \cap Regs \subseteq defined
  /\ shadow' = Defined(shadow, defined)
  /\ flags_tainted' = (flags_tainted /\ ~flags)
  /\ UNCHANGED <<owed, flags_owed>>
  /\ Unasked((\E r \in defined : Through(r)) \/ (flags /\ flags_owed))

\* Instructions on operands of width w.
operand_instruction(w) ==
  \/ \E operation \in {"add", "adc", "sub", "sbb", "cmp", "test"}, dst, src \in Operands(w) :
       /\ dst.reg # Slot \/ src.reg # Slot
       /\ execute_alu_rm_reg(operation, dst, src)
  \/ \E dst \in Operands(w) :
       \/ \E operation \in {"add", "adc", "cmp"} : execute_alu_imm(operation, dst)
       \/ \E zero \in BOOLEAN : execute_shift_group(dst, zero)
       \/ execute_inc_dec(dst)
       \/ execute_not(dst)
       \/ execute_mov_imm(dst)
       \/ \E operation \in {"mul", "div"} : execute_mul_div(operation, dst, w)
       \/ \E src \in Registers(w) :
            \/ execute_mov(dst, src)
            \/ execute_mov(src, dst)
            \/ \E operation \in {"xadd", "xchg"} :
                 (w = 8 => operation = "xadd") /\ execute_exchange(operation, dst, src)
            \/ \E equal \in BOOLEAN : execute_cmpxchg(dst, src, w, equal)
  \/ w = 8 /\ \E dst \in Operands(w) : execute_setcc(dst)

\* Instructions of which one operand is a register and none is a byte.
register_instruction(w, reg) ==
  \/ \E src \in Operands(w) :
       \/ \E taken \in BOOLEAN : execute_cmov(reg, src, taken)
       \/ \E found \in BOOLEAN : execute_scan(reg, src, found)
       \/ \E operation \in {"imul2", "imul3"} : execute_imul(operation, reg, src)
  \/ \E dst \in Operands(w) :
       \/ \E by_cl, zero \in BOOLEAN : execute_double_shift(dst, reg, by_cl, zero)
       \/ \E index \in {{}, {reg}}, modifies, changes \in BOOLEAN :
            execute_bit(dst, index, modifies, changes)
  \/ \E from \in {8, 16, 32} : from <= w /\ \E src \in Operands(from) : execute_extend(reg, src)
  \/ \E base \in SUBSET Bases : execute_lea(reg, base)

step ==
  \/ \E w \in {8, 16, 32, 64}, moves, uninitialized, repz, written \in BOOLEAN :
       execute_string_instruction(moves, uninitialized, w, repz, written)
  \/ \E w \in {8, 16, 32, 64} :
       \/ operand_instruction(w)
       \/ w # 8 /\ \E reg \in Registers(w) : register_instruction(w, reg)
       \/ \E dst \in Fixed(RDX, w), src \in Fixed(RAX, w) : w >= 32 /\ execute_extend(dst, src)
       \/ \E dst \in MemoryOperands(w) : write_xmm_to_operand(dst)
  \/ \E w, from \in {32, 64}, r \in Regs :
       \E src \in MemoryOperands(from) : execute_sse_float(Gpr(r, w, TRUE), src)
  \/ \E o \in Operands(64) : execute_push_rm(o) \/ execute_pop_rm(o)
  \/ \E r \in Regs :
       \/ execute_push(r)
       \/ execute_pop(r)
       \/ RAX \in Regs /\ execute_xchg_rax(r)
  \/ execute_push_value
  \/ execute_leave
  \/ execute_syscall
  \/ execute_rdtsc
  \/ execute_cpuid
  \/ execute_fnstsw
  \/ \E w \in {32, 64} : \E reads \in {{}} \cup {{o} : o \in MemoryOperands(w)} :
       set_eflags_from_float_compare(reads)
  \/ \E defined \in SUBSET Regs, flags \in BOOLEAN : handle_sigreturn(defined, flags)

Next ==
  /\ steps < MaxSteps
  /\ steps' = steps + 1
  /\ step

Spec == Init /\ [][Next]_vars

-----------------------------------------------------------------------------
(* Properties.                                                             *)

\* Shadows are lanes of their cell, however wide the operand was (mask_for_width,
\* SoftCPU64.cpp:297).
TypeOK ==
  /\ shadow \in [Cells -> SUBSET Lane]
  /\ owed \in [Cells -> SUBSET Lane]
  /\ {flags_tainted, flags_owed, followed} \subseteq BOOLEAN

\* Every lane that may differ because memory was uninitialized is tainted
\* (ValueWithShadow.h:34, README.md:24).
LanesAreTainted == \A c \in Cells : owed[c] \subseteq shadow[c]

\* It is, through partial register writes, high bytes, zero extension, the zeroing idiom,
\* the stack and exchanges, as long as no instruction has used something that may differ
\* without asking for its taint (set_gpr_shadow, SoftCPU64.cpp:388).
TaintIsSound == followed => LanesAreTainted

\* As long, flags that may differ are tainted, so that branch_condition
\* (SoftCPU64.cpp:579) reports the branch.
FlagTaintIsSound == followed /\ flags_owed => flags_tainted
=============================================================================
