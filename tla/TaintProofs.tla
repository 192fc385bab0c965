---------------------------- MODULE TaintProofs ----------------------------
(***************************************************************************)
(* For any registers, addresses and lanes followed, and however many       *)
(* instructions are executed: as long as every instruction has asked for   *)
(* the taint of what it used, what may differ is tainted.                  *)
(***************************************************************************)
EXTENDS Taint, TLAPS

-----------------------------------------------------------------------------
(* Operands.                                                               *)

Lanes == [Cells -> SUBSET Lane]

\* The operand is a register that is followed, or the slot, at an address formed from
\* registers that are followed.
Followed(o) == cell(o) \in Cells /\ o.address \subseteq Regs

Covers(low, high) == \A c \in Cells : low[c] \subseteq high[c]

\* The value and its shadow are looked for in the same place (read_gpr and gpr_shadow).
LEMMA SamePlace ==
  ASSUME NEW o
  PROVE  shadow_cell(o) = cell(o) /\ shadow_lanes(o) = lanes(o) /\ lanes(o) \subseteq Lane
BY Zenon DEF shadow_cell, cell, shadow_lanes, lanes, HighByte, mask_for_width

LEMMA GprFields ==
  ASSUME NEW r, NEW w, NEW rex
  PROVE  /\ Gpr(r, w, rex).reg = r /\ Gpr(r, w, rex).w = w /\ Gpr(r, w, rex).rex = rex
         /\ Gpr(r, w, rex).address = {}
BY DEF Gpr

LEMMA MemoryFollowed ==
  ASSUME NEW w, NEW base, base \subseteq Regs
  PROVE  Followed(Memory(w, base))
<1>1. Slot \notin 4 .. 7
  BY DEF Slot
<1>2. cell(Memory(w, base)) = Slot
  BY <1>1 DEF cell, HighByte, Memory
<1>3. Memory(w, base).address = base
  BY DEF Memory
<1> QED
  BY <1>2, <1>3, Zenon DEF Followed, Cells

LEMMA FixedFollowed ==
  ASSUME NEW r, NEW w, NEW o \in Fixed(r, w)
  PROVE  Followed(o)
<1>1. o = Gpr(r, w, TRUE) /\ r \in Regs
  BY DEF Fixed
<1>2. cell(o) = r
  BY <1>1 DEF cell, HighByte, Gpr
<1> QED
  BY <1>1, <1>2, GprFields DEF Followed, Cells

LEMMA RegistersFollowed ==
  ASSUME NEW w, NEW o \in Registers(w)
  PROVE  Followed(o)
<1>1. PICK r \in 0 .. 15, rex \in BOOLEAN : o = Gpr(r, w, rex)
  BY DEF Registers
<1>2. cell(o) \in Regs
  BY DEF Registers
<1> QED
  BY <1>1, <1>2, GprFields DEF Followed, Cells

LEMMA OperandsFollowed ==
  ASSUME NEW w, NEW o \in Operands(w)
  PROVE  Followed(o)
<1>1. CASE o \in Registers(w)
  BY <1>1, RegistersFollowed
<1>2. CASE o \in MemoryOperands(w)
  <2>1. PICK base \in {{}} \cup {{r} : r \in Bases} : o = Memory(w, base)
    BY <1>2 DEF MemoryOperands
  <2>2. base \subseteq Regs
    BY RegsAssumption
  <2> QED
    BY <2>1, <2>2, MemoryFollowed
<1> QED
  BY <1>1, <1>2 DEF Operands

-----------------------------------------------------------------------------
(* What differs is tainted when it is read, and written.                   *)

IInv == TypeOK /\ TaintIsSound /\ FlagTaintIsSound

LEMMA Facts ==
  ASSUME IInv
  PROVE  /\ shadow \in Lanes /\ owed \in Lanes /\ (followed => Covers(owed, shadow))
         /\ flags_tainted \in BOOLEAN /\ flags_owed \in BOOLEAN /\ followed \in BOOLEAN
         /\ (followed /\ flags_owed => flags_tainted)
BY DEF IInv, TypeOK, TaintIsSound, LanesAreTainted, FlagTaintIsSound, Lanes, Covers

\* decode_memory_address taints an instruction whose address may differ.
LEMMA AddressSound ==
  ASSUME IInv, followed, NEW o, o.address \subseteq Regs, AddressDiffers(o)
  PROVE  address_tainted(o)
<1>1. PICK r \in o.address : owed[r] # {}
  BY DEF AddressDiffers
<1>2. r \in Cells
  BY DEF Cells
<1>3. owed[r] \subseteq shadow[r]
  BY <1>2, Facts DEF Covers
<1> QED
  BY <1>1, <1>3 DEF address_tainted

\* An instruction that asks for the shadow of something that may differ is tainted
\* (m_current_taint).
LEMMA ReadSound ==
  ASSUME IInv, followed, NEW reads, \A o \in reads : Followed(o), NEW dst,
         dst.address \subseteq Regs, Differs(reads, dst)
  PROVE  current_taint(reads, dst)
<1>1. ASSUME NEW o \in reads, AddressDiffers(o)
      PROVE  current_taint(reads, dst)
  BY <1>1, AddressSound DEF Followed, current_taint
<1>2. ASSUME NEW o \in reads, ValueDiffers(o)
      PROVE  current_taint(reads, dst)
  <2>1. owed[cell(o)] \subseteq shadow[cell(o)]
    BY Facts DEF Followed, Covers
  <2>2. gpr_shadow(o) # {}
    BY <1>2, <2>1, SamePlace DEF gpr_shadow, ValueDiffers
  <2> QED
    BY <2>2 DEF current_taint
<1>3. CASE AddressDiffers(dst)
  BY <1>3, AddressSound DEF current_taint
<1> QED
  BY <1>1, <1>2, <1>3 DEF Differs, AnyDiffers

\* A write keeps values and shadows aligned: the lanes that the value covers are the
\* ones whose shadow is replaced, and a 32-bit register write clears both upper halves
\* (write_gpr and set_gpr_shadow).
LEMMA WriteCovers ==
  ASSUME NEW low \in Lanes, NEW high \in Lanes, NEW o,
         NEW differing, differing \subseteq lanes(o), NEW tainted
  PROVE  /\ write_gpr(low, o, differing) \in Lanes
         /\ set_gpr_shadow(high, o, tainted) \in Lanes
         /\ (Covers(low, high) /\ (differing # {} => tainted)) =>
              Covers(write_gpr(low, o, differing), set_gpr_shadow(high, o, tainted))
<1> DEFINE l == write_gpr(low, o, differing)
           h == set_gpr_shadow(high, o, tainted)
           written == IF tainted THEN lanes(o) ELSE {}
<1>1. written \subseteq Lane /\ differing \subseteq Lane
  BY SamePlace
<1>2. h = [c \in Cells |-> IF c # cell(o) THEN high[c]
                           ELSE IF o.w = 32 /\ o.reg # Slot THEN written
                           ELSE written \cup (high[c] \ lanes(o))]
  <2>1. shadow_cell(o) = cell(o) /\ shadow_lanes(o) = lanes(o)
    BY SamePlace
  <2> QED
    BY <2>1 DEF set_gpr_shadow
<1>3. l = [c \in Cells |-> IF c # cell(o) THEN low[c]
                           ELSE IF o.w = 32 /\ o.reg # Slot THEN differing
                           ELSE differing \cup (low[c] \ lanes(o))]
  BY DEF write_gpr
<1>4. (differing # {} => tainted) => differing \subseteq written
  OBVIOUS
<1> HIDE DEF l, h, written
<1>5. ASSUME NEW c \in Cells
      PROVE  /\ l[c] \subseteq Lane /\ h[c] \subseteq Lane
             /\ (low[c] \subseteq high[c] /\ differing \subseteq written) => l[c] \subseteq h[c]
  <2>1. low[c] \subseteq Lane /\ high[c] \subseteq Lane
    BY DEF Lanes
  <2>2. CASE c # cell(o)
    BY <1>2, <1>3, <2>1, <2>2
  <2>3. CASE c = cell(o) /\ o.w = 32 /\ o.reg # Slot
    BY <1>1, <1>2, <1>3, <2>3
  <2>4. CASE c = cell(o) /\ ~(o.w = 32 /\ o.reg # Slot)
    <3>1. l[c] = differing \cup (low[c] \ lanes(o)) /\ h[c] = written \cup (high[c] \ lanes(o))
      BY <1>2, <1>3, <2>4
    <3> QED
      BY <1>1, <2>1, <3>1
  <2> QED
    BY <2>2, <2>3, <2>4
<1>6. l \in Lanes /\ h \in Lanes
  <2>1. l = [c \in Cells |-> l[c]] /\ h = [c \in Cells |-> h[c]]
    BY <1>2, <1>3
  <2> QED
    BY <1>5, <2>1 DEF Lanes
<1>7. Covers(low, high) /\ (differing # {} => tainted) => Covers(l, h)
  BY <1>4, <1>5 DEF Covers
<1> QED
  BY <1>6, <1>7 DEF l, h

-----------------------------------------------------------------------------
(* What instructions have in common.                                       *)

WordsSound ==
  shadow \in Lanes /\ owed \in Lanes /\ (followed => Covers(owed, shadow))

FlagsSound ==
  /\ flags_tainted \in BOOLEAN /\ flags_owed \in BOOLEAN /\ followed \in BOOLEAN
  /\ (followed /\ flags_owed => flags_tainted)

LEMMA IInvParts == (IInv <=> WordsSound /\ FlagsSound) /\ (IInv' <=> WordsSound' /\ FlagsSound')
<1>1. IInv <=> WordsSound /\ FlagsSound
  BY DEF IInv, TypeOK, TaintIsSound, LanesAreTainted, FlagTaintIsSound, Lanes, Covers,
         WordsSound, FlagsSound
<1>2. IInv' <=> WordsSound' /\ FlagsSound'
  BY DEF IInv, TypeOK, TaintIsSound, LanesAreTainted, FlagTaintIsSound, Lanes, Covers,
         WordsSound, FlagsSound
<1> QED
  BY <1>1, <1>2

\* Once an instruction has not asked, the run is no longer followed.
StillFollowed == followed' \in BOOLEAN /\ (followed' => followed)

LEMMA FollowsStill ==
  ASSUME IInv, Follows
  PROVE  StillFollowed
BY Facts DEF Follows, StillFollowed

LEMMA UnaskedStill ==
  ASSUME IInv, NEW x \in BOOLEAN, Unasked(x)
  PROVE  StillFollowed /\ (followed' => ~x)
BY Facts DEF Unasked, StillFollowed

LEMMA Booleans ==
  ASSUME NEW reads, NEW dst, NEW differs, NEW unsure, NEW written, NEW r
  PROVE  /\ current_taint(reads, dst) \in BOOLEAN /\ Differs(reads, dst) \in BOOLEAN
         /\ AnyDiffers(reads) \in BOOLEAN /\ AddressDiffers(dst) \in BOOLEAN
         /\ ValueDiffers(dst) \in BOOLEAN /\ Through(r) \in BOOLEAN
         /\ FlagsLost(differs) \in BOOLEAN /\ FlagsUnmarked(differs) \in BOOLEAN
         /\ Missed(written, dst, unsure) \in BOOLEAN /\ address_tainted(dst) \in BOOLEAN
BY DEF current_taint, Differs, AnyDiffers, AddressDiffers, ValueDiffers, Through, FlagsLost,
       FlagsUnmarked, Missed, address_tainted

LEMMA SpreadLanes ==
  ASSUME NEW o, NEW differs
  PROVE  Spread(o, differs) \subseteq lanes(o) /\ (Spread(o, differs) # {} => differs)
BY DEF Spread

LEMMA WordsStep ==
  ASSUME NEW low \in Lanes, NEW high \in Lanes, owed' = low, shadow' = high,
         followed' => Covers(low, high)
  PROVE  WordsSound'
BY DEF WordsSound, Lanes, Covers

LEMMA WritesKeeps ==
  ASSUME IInv, StillFollowed, NEW dst, NEW tainted, NEW differs,
         followed' => (differs => tainted),
         Writes(dst, tainted, differs)
  PROVE  WordsSound'
<1> DEFINE d == Spread(dst, differs)
           low == write_gpr(owed, dst, d)
           high == set_gpr_shadow(shadow, dst, tainted)
<1>1. d \subseteq lanes(dst) /\ (followed' => (d # {} => tainted))
  BY SpreadLanes
<1>2. shadow' = high /\ owed' = low
  BY DEF Writes
<1>3. shadow \in Lanes /\ owed \in Lanes /\ (followed' => Covers(owed, shadow))
  BY Facts DEF StillFollowed
<1> HIDE DEF d
<1>4. high \in Lanes /\ low \in Lanes /\ (followed' => Covers(low, high))
  BY <1>1, <1>3, WriteCovers
<1> HIDE DEF low, high
<1> QED
  BY <1>2, <1>4, WordsStep

LEMMA WritesTwoKeeps ==
  ASSUME IInv, StillFollowed, NEW first, NEW second, NEW tainted, NEW differs,
         followed' => (differs => tainted),
         WritesTwo(first, second, tainted, differs)
  PROVE  WordsSound'
<1> DEFINE d == Spread(first, differs)
           e == Spread(second, differs)
           high == set_gpr_shadow(shadow, first, tainted)
           low == write_gpr(owed, first, d)
           higher == set_gpr_shadow(high, second, tainted)
           lower == write_gpr(low, second, e)
<1>1. /\ d \subseteq lanes(first) /\ (followed' => (d # {} => tainted))
      /\ e \subseteq lanes(second) /\ (followed' => (e # {} => tainted))
  BY SpreadLanes
<1>2. shadow' = higher /\ owed' = lower
  BY DEF WritesTwo
<1>3. shadow \in Lanes /\ owed \in Lanes /\ (followed' => Covers(owed, shadow))
  BY Facts DEF StillFollowed
<1> HIDE DEF d, e
<1>4. high \in Lanes /\ low \in Lanes /\ (followed' => Covers(low, high))
  BY <1>1, <1>3, WriteCovers
<1> HIDE DEF high, low
<1>5. higher \in Lanes /\ lower \in Lanes /\ (followed' => Covers(lower, higher))
  BY <1>1, <1>4, WriteCovers
<1> HIDE DEF higher, lower
<1> QED
  BY <1>2, <1>5, WordsStep

LEMMA WriteOperandKeeps ==
  ASSUME IInv, StillFollowed, NEW reads, \A o \in reads : Followed(o), NEW dst,
         dst.address \subseteq Regs, write_operand(reads, dst)
  PROVE  WordsSound'
<1>1. followed' => (Differs(reads, dst) => current_taint(reads, dst))
  BY ReadSound, Zenon DEF StillFollowed
<1> QED
  BY <1>1, WritesKeeps, Zenon DEF write_operand

LEMMA OperandsKept ==
  ASSUME IInv, StillFollowed, KeepsOperands
  PROVE  WordsSound'
<1>1. owed' = owed /\ shadow' = shadow
  BY DEF KeepsOperands
<1>2. shadow \in Lanes /\ owed \in Lanes /\ (followed' => Covers(owed, shadow))
  BY Facts DEF StillFollowed
<1> QED
  BY <1>1, <1>2, WordsStep

LEMMA DoubtfulLanes ==
  ASSUME NEW f \in Lanes, NEW o
  PROVE  /\ Doubtful(f, o) \in Lanes
         /\ \A c \in Cells : Doubtful(f, o)[c] = IF c = cell(o) THEN f[c] \cup touched(o) ELSE f[c]
<1>1. touched(o) \subseteq Lane
  BY SamePlace DEF touched
<1> QED
  BY <1>1 DEF Doubtful, Lanes

\* A write under a condition: what only one of two runs writes is tainted where it is
\* written, and goes unnoticed where it is not.
LEMMA WritesIfKeeps ==
  ASSUME IInv, StillFollowed, NEW written \in BOOLEAN, NEW dst, NEW tainted, NEW differs,
         NEW unsure \in BOOLEAN,
         followed' => ~Missed(written, dst, unsure),
         followed' => (written /\ (differs \/ unsure) => tainted),
         WritesIf(written, dst, tainted, differs, unsure)
  PROVE  WordsSound'
<1> DEFINE high == set_gpr_shadow(shadow, dst, tainted)
           low == Doubtful(owed, dst)
<1>1. shadow \in Lanes /\ owed \in Lanes /\ (followed' => Covers(owed, shadow))
  BY Facts DEF StillFollowed
<1>2. high \in Lanes
  BY <1>1, WriteCovers
<1>3. /\ low \in Lanes
      /\ \A c \in Cells : low[c] = IF c = cell(dst) THEN owed[c] \cup touched(dst) ELSE owed[c]
  BY <1>1, DoubtfulLanes
<1>4. CASE unsure /\ written
  <2>1. owed' = low /\ shadow' = high
    BY <1>4 DEF WritesIf
  <2>2. ASSUME followed'
        PROVE  Covers(low, high)
    <3>1. touched(dst) = lanes(dst) /\ ~(dst.w = 32 /\ dst.reg # Slot)
      BY <1>4, <2>2 DEF Missed, touched
    <3>2. high = [c \in Cells |-> IF c # cell(dst) THEN shadow[c]
                                  ELSE lanes(dst) \cup (shadow[c] \ lanes(dst))]
      <4>1. shadow_cell(dst) = cell(dst) /\ shadow_lanes(dst) = lanes(dst)
        BY SamePlace
      <4>2. tainted
        BY <1>4, <2>2
      <4> QED
        BY <3>1, <4>1, <4>2 DEF set_gpr_shadow
    <3> HIDE DEF high, low
    <3>3. ASSUME NEW c \in Cells
          PROVE  low[c] \subseteq high[c]
      <4>1. owed[c] \subseteq shadow[c]
        BY <1>1, <2>2 DEF Covers
      <4>2. CASE c = cell(dst)
        <5>1. low[c] = owed[c] \cup lanes(dst) /\ high[c] = lanes(dst) \cup (shadow[c] \ lanes(dst))
          BY <1>3, <3>1, <3>2, <4>2
        <5> QED
          BY <4>1, <5>1
      <4>3. CASE c # cell(dst)
        BY <1>3, <3>2, <4>1, <4>3
      <4> QED
        BY <4>2, <4>3
    <3> QED
      BY <3>3 DEF Covers
  <2> HIDE DEF high, low
  <2> QED
    BY <1>2, <1>3, <2>1, <2>2, WordsStep
<1>5. CASE unsure /\ ~written
  <2>1. owed' = low /\ shadow' = shadow
    BY <1>5 DEF WritesIf
  <2>2. ~followed'
    BY <1>5 DEF Missed
  <2> HIDE DEF high, low
  <2> QED
    BY <1>1, <1>3, <2>1, <2>2, WordsStep
<1>6. CASE ~unsure /\ written
  <2>1. Writes(dst, tainted, differs)
    BY <1>6 DEF WritesIf, Writes
  <2> QED
    BY <1>6, <2>1, WritesKeeps
<1>7. CASE ~unsure /\ ~written
  <2>1. KeepsOperands
    BY <1>7 DEF WritesIf, KeepsOperands
  <2> QED
    BY <2>1, OperandsKept
<1> QED
  BY <1>4, <1>5, <1>6, <1>7

LEMMA FlagsKept ==
  ASSUME IInv, StillFollowed, KeepsFlags
  PROVE  FlagsSound'
BY Facts DEF KeepsFlags, FlagsSound, StillFollowed

LEMMA FlagsSet ==
  ASSUME StillFollowed, NEW tainted \in BOOLEAN, NEW differs \in BOOLEAN,
         followed' => (differs => tainted),
         SetsFlags(tainted, differs)
  PROVE  FlagsSound'
BY DEF SetsFlags, update_flags_taint, FlagsSound, StillFollowed

LEMMA SomeFlagsSet ==
  ASSUME IInv, StillFollowed, NEW tainted \in BOOLEAN, NEW differs \in BOOLEAN,
         followed' => (differs => tainted),
         followed' => ~FlagsLost(differs),
         SetsSomeFlags(tainted, differs)
  PROVE  FlagsSound'
BY Facts DEF SetsSomeFlags, FlagsSound, FlagsLost, StillFollowed

LEMMA FlagsMarked ==
  ASSUME IInv, StillFollowed, NEW differs \in BOOLEAN,
         followed' => ~FlagsUnmarked(differs),
         set_flag(differs)
  PROVE  FlagsSound'
BY Facts DEF set_flag, FlagsSound, FlagsUnmarked, StillFollowed

-----------------------------------------------------------------------------
(* Instructions, one lemma each.                                           *)

LEMMA AluKeeps ==
  ASSUME IInv, NEW operation, NEW dst, NEW src, Followed(dst), Followed(src),
         execute_alu_rm_reg(operation, dst, src)
  PROVE  WordsSound' /\ FlagsSound'
<1> DEFINE tainted == ~Zeroing(operation, dst, src) /\ current_taint({dst, src}, dst)
           constant == dst = src /\ operation \in {"sub", "cmp"}
           differs == (~constant /\ Differs({dst, src}, dst)) \/ Carry(operation)
<1>1. /\ IF operation \in {"cmp", "test"} THEN KeepsOperands ELSE Writes(dst, tainted, differs)
      /\ SetsFlags(tainted, differs)
      /\ Unasked(Carry(operation))
  BY Zenon DEF execute_alu_rm_reg
<1>2. Carry(operation) \in BOOLEAN /\ tainted \in BOOLEAN /\ differs \in BOOLEAN
  BY Booleans DEF Carry
<1>3. StillFollowed /\ (followed' => ~Carry(operation))
  BY <1>1, <1>2, UnaskedStill
<1>4. followed' => (differs => tainted)
  <2>1. followed' => (Differs({dst, src}, dst) => current_taint({dst, src}, dst))
    BY <1>3, ReadSound, Zenon DEF Followed, StillFollowed
  <2>2. Zeroing(operation, dst, src) => constant
    BY DEF Zeroing
  <2> QED
    BY <1>3, <2>1, <2>2
<1> HIDE DEF tainted, differs
<1> QED
  BY <1>1, <1>2, <1>3, <1>4, WritesKeeps, OperandsKept, FlagsSet

LEMMA AluImmKeeps ==
  ASSUME IInv, NEW operation, NEW dst, Followed(dst), execute_alu_imm(operation, dst)
  PROVE  WordsSound' /\ FlagsSound'
<1> DEFINE tainted == current_taint({dst}, dst)
           differs == Differs({dst}, dst) \/ Carry(operation)
<1>1. /\ IF operation = "cmp" THEN KeepsOperands ELSE Writes(dst, tainted, differs)
      /\ SetsFlags(tainted, differs)
      /\ Unasked(Carry(operation))
  BY Zenon DEF execute_alu_imm
<1>2. Carry(operation) \in BOOLEAN /\ tainted \in BOOLEAN /\ differs \in BOOLEAN
  BY Booleans DEF Carry
<1>3. StillFollowed /\ (followed' => ~Carry(operation))
  BY <1>1, <1>2, UnaskedStill
<1>4. followed' => (Differs({dst}, dst) => tainted)
  BY <1>3, ReadSound, Zenon DEF Followed, StillFollowed
<1>5. followed' => (differs => tainted)
  BY <1>3, <1>4
<1> HIDE DEF tainted, differs
<1> QED
  BY <1>1, <1>2, <1>3, <1>5, WritesKeeps, OperandsKept, FlagsSet

\* A count in CL that may differ is not asked for its taint.
LEMMA ShiftKeeps ==
  ASSUME IInv, NEW dst, NEW zero \in BOOLEAN, Followed(dst), execute_shift_group(dst, zero)
  PROVE  WordsSound' /\ FlagsSound'
<1> DEFINE count == AnyDiffers(Fixed(RCX, 8))
           tainted == current_taint({dst}, dst)
           differs == Differs({dst}, dst) \/ count
<1>1. /\ WritesIf(~zero, dst, tainted, differs, count)
      /\ IF zero THEN set_flag(count) ELSE SetsFlags(tainted, differs)
      /\ Unasked(count)
  BY Zenon DEF execute_shift_group
<1>2. count \in BOOLEAN /\ tainted \in BOOLEAN /\ differs \in BOOLEAN /\ (~zero) \in BOOLEAN
  BY Booleans
<1>3. StillFollowed /\ (followed' => ~count)
  BY <1>1, <1>2, UnaskedStill
<1>4. followed' => (Differs({dst}, dst) => tainted)
  BY <1>3, ReadSound, Zenon DEF Followed, StillFollowed
<1>5. followed' => (differs => tainted)
  BY <1>3, <1>4
<1>6. (followed' => ~Missed(~zero, dst, count)) /\ (followed' => ~FlagsUnmarked(count))
  BY <1>3 DEF Missed, FlagsUnmarked
<1> HIDE DEF count, tainted, differs
<1>7. WordsSound'
  BY <1>1, <1>2, <1>3, <1>5, <1>6, WritesIfKeeps
<1>8. FlagsSound'
  BY <1>1, <1>2, <1>3, <1>5, <1>6, FlagsSet, FlagsMarked
<1> QED
  BY <1>7, <1>8

\* One operand read and written: inc, dec, not and bswap.
LEMMA UnaryKeeps ==
  ASSUME IInv, NEW dst, Followed(dst), execute_inc_dec(dst) \/ execute_not(dst)
  PROVE  WordsSound' /\ FlagsSound'
<1> DEFINE tainted == current_taint({dst}, dst)
           differs == Differs({dst}, dst)
<1>1. tainted \in BOOLEAN /\ differs \in BOOLEAN /\ FlagsLost(differs) \in BOOLEAN
  BY Booleans
<1>2. CASE execute_inc_dec(dst)
  <2>1. /\ write_operand({dst}, dst) /\ SetsSomeFlags(tainted, differs)
        /\ Unasked(FlagsLost(differs))
    BY <1>2, Zenon DEF execute_inc_dec
  <2>2. StillFollowed /\ (followed' => ~FlagsLost(differs))
    BY <1>1, <2>1, UnaskedStill
  <2>3. followed' => (differs => tainted)
    BY <2>2, ReadSound, Zenon DEF Followed, StillFollowed
  <2>4. WordsSound'
    BY <2>1, <2>2, WriteOperandKeeps, Zenon DEF Followed
  <2> HIDE DEF tainted, differs
  <2>5. FlagsSound'
    BY <1>1, <2>1, <2>2, <2>3, SomeFlagsSet
  <2> QED
    BY <2>4, <2>5
<1>3. CASE execute_not(dst)
  <2>1. StillFollowed
    BY <1>3, FollowsStill DEF execute_not
  <2> QED
    BY <1>3, <2>1, WriteOperandKeeps, FlagsKept, Zenon DEF Followed, execute_not
<1> QED
  BY <1>2, <1>3

LEMMA MulDivKeeps ==
  ASSUME IInv, NEW operation \in {"mul", "div"}, NEW src, NEW w, Followed(src),
         execute_mul_div(operation, src, w)
  PROVE  WordsSound' /\ FlagsSound'
<1> DEFINE fixed == CASE operation = "mul" -> Fixed(RAX, w)
                      [] operation = "div" /\ w = 8 -> Fixed(RAX, 16)
                      [] operation = "div" /\ w # 8 -> Fixed(RAX, w) \cup Fixed(RDX, w)
           reads == {src} \cup fixed
           tainted == current_taint(reads, src)
           differs == Differs(reads, src)
           unmarked == operation = "mul" /\ FlagsUnmarked(differs)
<1>1. /\ IF w = 8 THEN Writes(Gpr(RAX, 16, TRUE), tainted, differs)
                  ELSE WritesTwo(Gpr(RAX, w, TRUE), Gpr(RDX, w, TRUE), tainted, differs)
      /\ IF operation = "mul" THEN set_flag(differs) ELSE KeepsFlags
      /\ Unasked(unmarked)
  BY Zenon DEF execute_mul_div
<1>2. \A o \in reads : Followed(o)
  <2>1. fixed \subseteq Fixed(RAX, w) \cup Fixed(RAX, 16) \cup Fixed(RDX, w)
    OBVIOUS
  <2> QED
    BY <2>1, FixedFollowed
<1>3. tainted \in BOOLEAN /\ differs \in BOOLEAN /\ unmarked \in BOOLEAN
  BY Booleans
<1>4. StillFollowed /\ (followed' => ~unmarked)
  BY <1>1, <1>3, UnaskedStill
<1>5. followed' => (differs => tainted)
  BY <1>2, <1>4, ReadSound, Zenon DEF Followed, StillFollowed
<1>8. operation = "mul" => (followed' => ~FlagsUnmarked(differs))
  BY <1>4
<1> HIDE DEF tainted, differs, unmarked
<1>6. WordsSound'
  <2>1. CASE w = 8
    BY <1>1, <1>3, <1>4, <1>5, <2>1, WritesKeeps
  <2>2. CASE w # 8
    BY <1>1, <1>3, <1>4, <1>5, <2>2, WritesTwoKeeps
  <2> QED
    BY <2>1, <2>2
<1>7. FlagsSound'
  <2>1. CASE operation = "mul"
    BY <1>1, <1>3, <1>4, <1>8, <2>1, FlagsMarked
  <2>2. CASE operation # "mul"
    BY <1>1, <1>4, <2>2, FlagsKept
  <2> QED
    BY <2>1, <2>2
<1> QED
  BY <1>6, <1>7

LEMMA ImulKeeps ==
  ASSUME IInv, NEW operation \in {"imul2", "imul3"}, NEW dst, NEW src, Followed(dst), Followed(src),
         execute_imul(operation, dst, src)
  PROVE  WordsSound' /\ FlagsSound'
<1> DEFINE reads == IF operation = "imul2" THEN {dst, src} ELSE {src}
           differs == Differs(reads, dst)
           unmarked == operation = "imul3" /\ FlagsUnmarked(differs)
<1>1. /\ write_operand(reads, dst)
      /\ IF operation = "imul2" THEN KeepsFlags ELSE set_flag(differs)
      /\ Unasked(unmarked)
  BY Zenon DEF execute_imul
<1>2. \A o \in reads : Followed(o)
  OBVIOUS
<1>3. differs \in BOOLEAN /\ unmarked \in BOOLEAN
  BY Booleans
<1>4. StillFollowed /\ (followed' => ~unmarked)
  BY <1>1, <1>3, UnaskedStill
<1> HIDE DEF reads, differs
<1>5. WordsSound'
  BY <1>1, <1>2, <1>4, WriteOperandKeeps, Zenon DEF Followed
<1>6. FlagsSound'
  BY <1>1, <1>3, <1>4, FlagsKept, FlagsMarked
<1> QED
  BY <1>5, <1>6

\* SETcc and CMOVcc take over the taint of the flags.
LEMMA SetccKeeps ==
  ASSUME IInv, NEW dst, Followed(dst), execute_setcc(dst)
  PROVE  WordsSound' /\ FlagsSound'
<1> DEFINE tainted == flags_tainted \/ address_tainted(dst)
           differs == flags_owed \/ AddressDiffers(dst)
<1>1. Writes(dst, tainted, differs) /\ KeepsFlags /\ Follows
  BY Zenon DEF execute_setcc
<1>2. StillFollowed
  BY <1>1, FollowsStill
<1>3. followed' => (AddressDiffers(dst) => address_tainted(dst))
  BY <1>2, AddressSound, Zenon DEF Followed, StillFollowed
<1>4. followed' => (differs => tainted)
  BY <1>2, <1>3, Facts DEF StillFollowed
<1> HIDE DEF tainted, differs
<1> QED
  BY <1>1, <1>2, <1>4, WritesKeeps, FlagsKept

LEMMA CmovKeeps ==
  ASSUME IInv, NEW dst, NEW src, NEW taken \in BOOLEAN, Followed(dst), Followed(src),
         execute_cmov(dst, src, taken)
  PROVE  WordsSound' /\ FlagsSound'
<1> DEFINE tainted == flags_tainted \/ current_taint({src}, dst)
           differs == Differs({src}, dst)
<1>1. /\ WritesIf(taken, dst, tainted, differs, flags_owed) /\ KeepsFlags
      /\ Unasked(Missed(taken, dst, flags_owed))
  BY Zenon DEF execute_cmov
<1>2. StillFollowed /\ (followed' => ~Missed(taken, dst, flags_owed))
  BY <1>1, Booleans, UnaskedStill
<1>3. followed' => (differs => current_taint({src}, dst))
  BY <1>2, ReadSound, Zenon DEF Followed, StillFollowed
<1>4. flags_owed \in BOOLEAN /\ (followed' => (taken /\ (differs \/ flags_owed) => tainted))
  BY <1>2, <1>3, Facts DEF StillFollowed
<1> HIDE DEF tainted, differs
<1> QED
  BY <1>1, <1>2, <1>4, WritesIfKeeps, FlagsKept

LEMMA BitKeeps ==
  ASSUME IInv, NEW base, NEW index, NEW modifies \in BOOLEAN, NEW changes \in BOOLEAN,
         Followed(base), \A o \in index : Followed(o),
         execute_bit(base, index, modifies, changes)
  PROVE  WordsSound' /\ FlagsSound'
<1> DEFINE plain == base.reg = Slot /\ index # {}
           reads == index \cup (IF plain THEN {} ELSE {base})
           tainted == current_taint(reads, base)
           differs == Differs(index \cup {base}, base)
           unsure == modifies /\ differs
           unasked == \/ plain /\ (ValueDiffers(base) \/ (changes /\ differs))
                      \/ Missed(changes, base, unsure)
                      \/ FlagsLost(differs)
<1>1. /\ changes => modifies
      /\ WritesIf(changes, base, tainted /\ ~plain, differs, unsure)
      /\ SetsSomeFlags(tainted, differs)
      /\ Unasked(unasked)
  BY Zenon DEF execute_bit
<1>2. \A o \in reads : Followed(o)
  OBVIOUS
<1>3. /\ plain \in BOOLEAN /\ tainted \in BOOLEAN /\ differs \in BOOLEAN /\ unsure \in BOOLEAN
      /\ unasked \in BOOLEAN
  BY Booleans
<1>4. StillFollowed /\ (followed' => ~unasked)
  BY <1>1, <1>3, UnaskedStill
<1>5. followed' => (Differs(reads, base) => tainted)
  BY <1>2, <1>4, ReadSound, Zenon DEF Followed, StillFollowed
<1>6. followed' => (differs => tainted)
  <2>1. CASE ~plain
    BY <1>5, <2>1
  <2>2. ASSUME plain, ~ValueDiffers(base), differs
        PROVE  Differs(reads, base)
    BY <2>2 DEF Differs, AnyDiffers
  <2> QED
    BY <1>4, <1>5, <2>1, <2>2
<1>7. /\ followed' => ~FlagsLost(differs)
      /\ followed' => ~Missed(changes, base, unsure)
      /\ followed' => ~(plain /\ changes /\ differs)
  BY <1>4
<1> HIDE DEF plain, reads, tainted, differs
<1>8. followed' => (changes /\ (differs \/ unsure) => tainted /\ ~plain)
  BY <1>6, <1>7
<1> HIDE DEF unsure
<1>9. WordsSound'
  BY <1>1, <1>3, <1>4, <1>7, <1>8, WritesIfKeeps
<1>10. FlagsSound'
  BY <1>1, <1>3, <1>4, <1>6, <1>7, SomeFlagsSet
<1> QED
  BY <1>9, <1>10

LEMMA DoubleShiftKeeps ==
  ASSUME IInv, NEW dst, NEW src, NEW by_cl, NEW zero \in BOOLEAN, Followed(dst), Followed(src),
         execute_double_shift(dst, src, by_cl, zero)
  PROVE  WordsSound' /\ FlagsSound'
<1> DEFINE count == IF by_cl THEN Fixed(RCX, 8) ELSE {}
           reads == {dst, src} \cup count
           unsure == AnyDiffers(count)
           tainted == current_taint(reads, dst)
           differs == Differs(reads, dst)
           missed == Missed(~zero, dst, unsure)
<1>1. /\ WritesIf(~zero, dst, tainted, differs, unsure)
      /\ IF zero THEN set_flag(unsure) ELSE SetsFlags(tainted, differs)
      /\ Unasked(missed)
  BY Zenon DEF execute_double_shift
<1>2. \A o \in reads : Followed(o)
  BY FixedFollowed
<1>3. /\ unsure \in BOOLEAN /\ tainted \in BOOLEAN /\ differs \in BOOLEAN /\ missed \in BOOLEAN
      /\ (~zero) \in BOOLEAN
  BY Booleans
<1>4. StillFollowed /\ (followed' => ~missed)
  BY <1>1, <1>3, UnaskedStill
<1>5. followed' => (differs => tainted)
  BY <1>2, <1>4, ReadSound, Zenon DEF Followed, StillFollowed
<1>6. unsure => differs
  BY DEF Differs, AnyDiffers
<1>7. zero => (followed' => ~FlagsUnmarked(unsure))
  BY <1>4 DEF Missed, FlagsUnmarked
<1>8. followed' => (~zero /\ (differs \/ unsure) => tainted)
  BY <1>5, <1>6
<1> HIDE DEF count, reads, unsure, tainted, differs
<1>9. WordsSound'
  BY <1>1, <1>3, <1>4, <1>8, WritesIfKeeps
<1>10. FlagsSound'
  BY <1>1, <1>3, <1>4, <1>5, <1>7, FlagsSet, FlagsMarked
<1> QED
  BY <1>9, <1>10

\* What a comparison that may differ leaves unwritten is not followed.
LEMMA CmpxchgKeeps ==
  ASSUME IInv, NEW dst, NEW src, NEW w, NEW equal, Followed(dst), Followed(src),
         execute_cmpxchg(dst, src, w, equal)
  PROVE  WordsSound' /\ FlagsSound'
<1> DEFINE accumulator == Gpr(RAX, w, TRUE)
           compared == {dst} \cup Fixed(RAX, w)
           reads == compared \cup (IF equal THEN {src} ELSE {})
           to == IF equal THEN dst ELSE accumulator
           unsure == Differs(compared, dst)
           tainted == current_taint(reads, dst)
           differs == Differs(reads, dst)
           unasked == unsure \/ FlagsLost(differs)
<1>1. /\ shadow' = set_gpr_shadow(shadow, to, tainted)
      /\ owed' = IF unsure THEN Doubtful(Doubtful(owed, dst), accumulator)
                 ELSE write_gpr(owed, to, Spread(to, differs))
      /\ SetsSomeFlags(tainted, differs)
      /\ Unasked(unasked)
  BY Zenon DEF execute_cmpxchg
<1>2. \A o \in reads : Followed(o)
  BY FixedFollowed
<1>3. /\ unsure \in BOOLEAN /\ tainted \in BOOLEAN /\ differs \in BOOLEAN /\ unasked \in BOOLEAN
  BY Booleans
<1>4. StillFollowed /\ (followed' => ~unasked)
  BY <1>1, <1>3, UnaskedStill
<1>5. followed' => (differs => tainted)
  BY <1>2, <1>4, ReadSound, Zenon DEF Followed, StillFollowed
<1> HIDE DEF accumulator, compared, reads, to, unsure, tainted, differs
<1>6. CASE ~unsure
  <2>1. Writes(to, tainted, differs)
    BY <1>1, <1>6 DEF Writes
  <2> QED
    BY <1>1, <1>3, <1>4, <1>5, <2>1, WritesKeeps, SomeFlagsSet
<1>7. CASE unsure
  <2> DEFINE low == Doubtful(Doubtful(owed, dst), accumulator)
             high == set_gpr_shadow(shadow, to, tainted)
  <2>1. low \in Lanes
    BY Facts, DoubtfulLanes
  <2>2. high \in Lanes
    <3>1. {} \subseteq lanes(to)
      OBVIOUS
    <3> QED
      BY <3>1, Facts, WriteCovers
  <2>3. owed' = low /\ shadow' = high /\ ~followed'
    BY <1>1, <1>4, <1>7
  <2> HIDE DEF low, high
  <2>4. WordsSound'
    BY <2>1, <2>2, <2>3, WordsStep
  <2>5. FlagsSound'
    BY <1>1, <1>3, <1>4, <1>5, SomeFlagsSet
  <2> QED
    BY <2>4, <2>5
<1> QED
  BY <1>6, <1>7


LEMMA ExchangeKeeps ==
  ASSUME IInv, NEW operation, NEW dst, NEW src, Followed(dst), Followed(src),
         execute_exchange(operation, dst, src)
  PROVE  WordsSound' /\ FlagsSound'
<1> DEFINE tainted == current_taint({dst, src}, dst)
           differs == Differs({dst, src}, dst)
<1>1. /\ WritesTwo(src, dst, tainted, differs)
      /\ IF operation = "xadd" THEN SetsFlags(tainted, differs) ELSE KeepsFlags
      /\ Follows
  BY Zenon DEF execute_exchange
<1>2. StillFollowed
  BY <1>1, FollowsStill
<1>3. followed' => (differs => tainted)
  BY <1>2, ReadSound, Zenon DEF Followed, StillFollowed
<1>4. tainted \in BOOLEAN /\ differs \in BOOLEAN
  BY Booleans
<1> HIDE DEF tainted, differs
<1>5. WordsSound'
  BY <1>1, <1>2, <1>3, <1>4, WritesTwoKeeps
<1>6. FlagsSound'
  BY <1>1, <1>2, <1>3, <1>4, FlagsSet, FlagsKept
<1> QED
  BY <1>5, <1>6

\* Moves that keep the flags: MOVZX, MOVSX and the widening of the accumulator, the
\* immediate forms of MOV, and LEA.
LEMMA MoveKeeps ==
  ASSUME IInv, NEW dst, NEW src, dst.address \subseteq Regs, Followed(src), KeepsFlags, Follows,
         \/ write_operand({src}, dst)
         \/ write_operand({}, dst)
  PROVE  WordsSound' /\ FlagsSound'
<1>1. (\A o \in {src} : Followed(o)) /\ (\A o \in {} : Followed(o))
  OBVIOUS
<1>2. StillFollowed
  BY FollowsStill
<1>3. WordsSound'
  BY <1>1, <1>2, WriteOperandKeeps, Zenon
<1> QED
  BY <1>2, <1>3, FlagsKept

LEMMA ScanKeeps ==
  ASSUME IInv, NEW dst, NEW src, NEW found \in BOOLEAN, Followed(dst), Followed(src),
         execute_scan(dst, src, found)
  PROVE  WordsSound' /\ FlagsSound'
<1> DEFINE tainted == current_taint({src}, dst)
           differs == Differs({src}, dst)
           unasked == Missed(found, dst, differs) \/ FlagsLost(differs)
<1>1. /\ WritesIf(found, dst, tainted, differs, differs)
      /\ SetsSomeFlags(tainted, differs)
      /\ Unasked(unasked)
  BY Zenon DEF execute_scan
<1>2. tainted \in BOOLEAN /\ differs \in BOOLEAN /\ unasked \in BOOLEAN
  BY Booleans
<1>3. StillFollowed /\ (followed' => ~unasked)
  BY <1>1, <1>2, UnaskedStill
<1>4. followed' => (differs => tainted)
  BY <1>3, ReadSound, Zenon DEF Followed, StillFollowed
<1> HIDE DEF tainted, differs
<1>5. WordsSound'
  BY <1>1, <1>2, <1>3, <1>4, WritesIfKeeps
<1>6. FlagsSound'
  BY <1>1, <1>2, <1>3, <1>4, SomeFlagsSet
<1> QED
  BY <1>5, <1>6

\* MOV spreads the taint over the operand, the value moves lane by lane.
LEMMA MovKeeps ==
  ASSUME IInv, NEW dst, NEW src, Followed(dst), Followed(src), execute_mov(dst, src)
  PROVE  WordsSound' /\ FlagsSound'
<1> DEFINE d == MovedLanes(dst, src)
           tainted == current_taint({src}, dst)
           low == write_gpr(owed, dst, d)
           high == set_gpr_shadow(shadow, dst, tainted)
<1>1. shadow' = high /\ owed' = low /\ KeepsFlags /\ Follows
  BY DEF execute_mov
<1>2. StillFollowed
  BY <1>1, FollowsStill
<1>3. followed' => (Differs({src}, dst) => tainted)
  BY <1>2, ReadSound, Zenon DEF Followed, StillFollowed
<1>4. d \subseteq lanes(dst) /\ (d # {} => Differs({src}, dst))
  <2>1. CASE AddressDiffers(src) \/ AddressDiffers(dst)
    <3>1. Differs({src}, dst)
      BY <2>1 DEF Differs, AnyDiffers
    <3>2. d = lanes(dst)
      BY <2>1 DEF MovedLanes
    <3> QED
      BY <3>1, <3>2
  <2>2. CASE ~(AddressDiffers(src) \/ AddressDiffers(dst)) /\ lanes(src) = lanes(dst)
    <3>1. d = owed[cell(src)] \cap lanes(src)
      BY <2>2 DEF MovedLanes
    <3>2. d # {} => Differs({src}, dst)
      BY <3>1 DEF Differs, AnyDiffers, ValueDiffers
    <3>3. d \subseteq lanes(dst)
      BY <2>2, <3>1
    <3> QED
      BY <3>2, <3>3
  <2>3. CASE ~(AddressDiffers(src) \/ AddressDiffers(dst)) /\ lanes(src) # lanes(dst)
    <3>1. d = Spread(dst, Differs({src}, dst))
      BY <2>3 DEF MovedLanes
    <3> QED
      BY <3>1, SpreadLanes
  <2> QED
    BY <2>1, <2>2, <2>3
<1>5. followed' => (d # {} => tainted)
  BY <1>3, <1>4
<1>6. shadow \in Lanes /\ owed \in Lanes /\ (followed' => Covers(owed, shadow))
  BY <1>2, Facts DEF StillFollowed
<1> HIDE DEF d
<1>7. high \in Lanes /\ low \in Lanes /\ (followed' => Covers(low, high))
  BY <1>4, <1>5, <1>6, WriteCovers
<1> HIDE DEF low, high
<1>8. WordsSound'
  BY <1>1, <1>7, WordsStep
<1> QED
  BY <1>1, <1>2, <1>8, FlagsKept

\* CVTSS2SI reads memory without its shadow.
LEMMA ConvertKeeps ==
  ASSUME IInv, NEW dst, NEW src, Followed(src), execute_sse_float(dst, src)
  PROVE  WordsSound' /\ FlagsSound'
<1> DEFINE tainted == address_tainted(src)
           differs == AnyDiffers({src})
<1>1. Writes(dst, tainted, differs) /\ KeepsFlags /\ Unasked(ValueDiffers(src))
  BY Zenon DEF execute_sse_float
<1>2. StillFollowed /\ (followed' => ~ValueDiffers(src))
  BY <1>1, Booleans, UnaskedStill
<1>3. followed' => (AddressDiffers(src) => tainted)
  BY <1>2, AddressSound, Zenon DEF Followed, StillFollowed
<1>4. followed' => (differs => tainted)
  BY <1>2, <1>3 DEF AnyDiffers
<1> HIDE DEF tainted, differs
<1> QED
  BY <1>1, <1>2, <1>4, WritesKeeps, FlagsKept

\* Whole registers and slots change places with their shadows.
LEMMA CoversStep ==
  ASSUME NEW low, NEW high,
         low = [c \in Cells |-> low[c]], high = [c \in Cells |-> high[c]],
         \A c \in Cells : low[c] \subseteq Lane /\ high[c] \subseteq Lane,
         followed' => \A c \in Cells : low[c] \subseteq high[c],
         owed' = low, shadow' = high
  PROVE  WordsSound'
<1>1. low \in Lanes /\ high \in Lanes
  BY DEF Lanes
<1>2. followed' => Covers(low, high)
  BY DEF Covers
<1> QED
  BY <1>1, <1>2, WordsStep

LEMMA CellFacts ==
  ASSUME IInv
  PROVE  /\ \A c \in Cells : owed[c] \subseteq Lane /\ shadow[c] \subseteq Lane
         /\ followed => \A c \in Cells : owed[c] \subseteq shadow[c]
         /\ owed = [c \in Cells |-> owed[c]] /\ shadow = [c \in Cells |-> shadow[c]]
         /\ Slot \in Cells /\ Regs \subseteq Cells
BY Facts DEF Lanes, Covers, Cells

LEMMA ExchangeRaxKeeps ==
  ASSUME IInv, NEW r \in Regs, RAX \in Regs, execute_xchg_rax(r)
  PROVE  WordsSound' /\ FlagsSound'
<1> DEFINE low == Swapped(owed, r)
           high == Swapped(shadow, r)
<1>1. owed' = low /\ shadow' = high /\ KeepsFlags /\ Follows
  BY DEF execute_xchg_rax
<1>2. StillFollowed
  BY <1>1, FollowsStill
<1>3. low = [c \in Cells |-> low[c]] /\ high = [c \in Cells |-> high[c]]
  BY DEF Swapped
<1>4. ASSUME NEW c \in Cells
      PROVE  low[c] \subseteq Lane /\ high[c] \subseteq Lane /\ (followed => low[c] \subseteq high[c])
  BY CellFacts DEF Swapped
<1> HIDE DEF low, high
<1> QED
  BY <1>1, <1>2, <1>3, <1>4, CoversStep, FlagsKept DEF StillFollowed

LEMMA PushKeeps ==
  ASSUME IInv, NEW r \in Regs, execute_push(r)
  PROVE  WordsSound' /\ FlagsSound'
<1> DEFINE through == Through(RSP)
           value == IF through THEN Lane ELSE owed[r]
           low == [owed EXCEPT ![Slot] = value]
           high == [shadow EXCEPT ![Slot] = shadow[r]]
<1>1. owed' = low /\ shadow' = high /\ KeepsFlags /\ Unasked(through)
  BY DEF execute_push
<1>2. StillFollowed /\ (followed' => ~through)
  BY <1>1, Booleans, UnaskedStill
<1>3. value \subseteq Lane /\ (followed' => value \subseteq shadow[r])
  BY <1>2, CellFacts DEF StillFollowed
<1> HIDE DEF through, value
<1>4. low = [c \in Cells |-> low[c]] /\ high = [c \in Cells |-> high[c]]
  BY CellFacts
<1>5. ASSUME NEW c \in Cells
      PROVE  low[c] \subseteq Lane /\ high[c] \subseteq Lane /\ (followed' => low[c] \subseteq high[c])
  BY <1>2, <1>3, CellFacts DEF StillFollowed
<1> HIDE DEF low, high
<1> QED
  BY <1>1, <1>2, <1>4, <1>5, CoversStep, FlagsKept

\* One byte of the slot taints all of a popped register.
LEMMA PoppedCovers ==
  ASSUME IInv
  PROVE  /\ Popped(shadow[Slot]) \subseteq Lane
         /\ followed => owed[Slot] \subseteq Popped(shadow[Slot])
BY CellFacts DEF Popped

LEMMA PopKeeps ==
  ASSUME IInv, NEW r \in Regs, execute_pop(r)
  PROVE  WordsSound' /\ FlagsSound'
<1> DEFINE through == Through(RSP)
           value == IF through THEN Lane ELSE owed[Slot]
           popped == Popped(shadow[Slot])
           low == [owed EXCEPT ![r] = value]
           high == [shadow EXCEPT ![r] = popped]
<1>1. owed' = low /\ shadow' = high /\ KeepsFlags /\ Unasked(through)
  BY DEF execute_pop
<1>2. StillFollowed /\ (followed' => ~through)
  BY <1>1, Booleans, UnaskedStill
<1>3. value \subseteq Lane /\ popped \subseteq Lane /\ (followed' => value \subseteq popped)
  BY <1>2, CellFacts, PoppedCovers DEF StillFollowed
<1> HIDE DEF through, value, popped
<1>4. low = [c \in Cells |-> low[c]] /\ high = [c \in Cells |-> high[c]]
  BY CellFacts
<1>5. ASSUME NEW c \in Cells
      PROVE  low[c] \subseteq Lane /\ high[c] \subseteq Lane /\ (followed' => low[c] \subseteq high[c])
  BY <1>2, <1>3, CellFacts DEF StillFollowed
<1> HIDE DEF low, high
<1> QED
  BY <1>1, <1>2, <1>4, <1>5, CoversStep, FlagsKept

LEMMA LeaveKeeps ==
  ASSUME IInv, execute_leave
  PROVE  WordsSound' /\ FlagsSound'
<1> DEFINE through == Through(RBP)
           value == IF through THEN Lane ELSE owed[Slot]
           popped == Popped(shadow[Slot])
           low == Left(owed, value)
           high == Left(shadow, popped)
<1>1. owed' = low /\ shadow' = high /\ KeepsFlags /\ Unasked(through)
  BY DEF execute_leave
<1>2. StillFollowed /\ (followed' => ~through)
  BY <1>1, Booleans, UnaskedStill
<1>3. value \subseteq Lane /\ popped \subseteq Lane /\ (followed' => value \subseteq popped)
  BY <1>2, CellFacts, PoppedCovers DEF StillFollowed
<1> HIDE DEF through, value, popped
<1>4. low = [c \in Cells |-> low[c]] /\ high = [c \in Cells |-> high[c]]
  BY DEF Left
<1>5. ASSUME NEW c \in Cells
      PROVE  low[c] \subseteq Lane /\ high[c] \subseteq Lane /\ (followed' => low[c] \subseteq high[c])
  BY <1>2, <1>3, CellFacts DEF Left, StillFollowed
<1> HIDE DEF low, high
<1> QED
  BY <1>1, <1>2, <1>4, <1>5, CoversStep, FlagsKept

\* A push or pop of an operand: the stack pointer is not asked for its taint.
LEMMA StackWrite ==
  ASSUME IInv, NEW o, NEW tainted, NEW differs, Writes(o, tainted, differs \/ Through(RSP)),
         followed /\ differs => tainted, KeepsFlags, Unasked(Through(RSP))
  PROVE  WordsSound' /\ FlagsSound'
<1> DEFINE either == differs \/ Through(RSP)
<1>1. StillFollowed /\ (followed' => ~Through(RSP))
  BY Booleans, UnaskedStill
<1>2. Writes(o, tainted, either) /\ (followed' => (either => tainted))
  BY <1>1 DEF StillFollowed
<1> HIDE DEF either
<1> QED
  BY <1>1, <1>2, WritesKeeps, FlagsKept

LEMMA PushRmKeeps ==
  ASSUME IInv, NEW src, Followed(src), execute_push_rm(src)
  PROVE  WordsSound' /\ FlagsSound'
<1> DEFINE o == Memory(64, {})
           tainted == current_taint({src}, src)
           differs == AnyDiffers({src})
<1>1. Writes(o, tainted, differs \/ Through(RSP)) /\ KeepsFlags /\ Unasked(Through(RSP))
  BY Zenon DEF execute_push_rm
<1>2. differs => Differs({src}, src)
  BY DEF Differs
<1>3. followed /\ Differs({src}, src) => tainted
  BY ReadSound, Zenon DEF Followed
<1>4. followed /\ differs => tainted
  BY <1>2, <1>3
<1> HIDE DEF o, tainted, differs
<1> QED
  BY <1>1, <1>4, StackWrite, Zenon

LEMMA PopRmKeeps ==
  ASSUME IInv, NEW dst, Followed(dst), execute_pop_rm(dst)
  PROVE  WordsSound' /\ FlagsSound'
<1> DEFINE o == Memory(64, {})
           tainted == current_taint({o}, dst)
           differs == Differs({o}, dst)
<1>1. Writes(dst, tainted, differs \/ Through(RSP)) /\ KeepsFlags /\ Unasked(Through(RSP))
  BY Zenon DEF execute_pop_rm
<1>2. Followed(o)
  BY MemoryFollowed
<1>3. followed /\ differs => tainted
  BY <1>2, ReadSound, Zenon DEF Followed
<1> HIDE DEF o, tainted, differs
<1> QED
  BY <1>1, <1>3, StackWrite, Zenon

LEMMA DefinesKeeps ==
  ASSUME IInv, NEW registers, NEW differing, DefinesRegisters(registers, differing)
  PROVE  WordsSound' /\ FlagsSound'
<1> DEFINE low == Results(registers, differing)
           high == Defined(shadow, registers)
           some == differing # {}
<1>1. owed' = low /\ shadow' = high /\ KeepsFlags /\ Unasked(some)
  BY DEF DefinesRegisters
<1>2. some \in BOOLEAN
  OBVIOUS
<1>3. StillFollowed /\ (followed' => differing = {})
  BY <1>1, <1>2, UnaskedStill
<1>4. low = [c \in Cells |-> low[c]] /\ high = [c \in Cells |-> high[c]]
  BY DEF Defined, Results
<1>5. ASSUME NEW c \in Cells
      PROVE  low[c] \subseteq Lane /\ high[c] \subseteq Lane /\ (followed' => low[c] \subseteq high[c])
  BY <1>3, CellFacts DEF Defined, Results, StillFollowed
<1> HIDE DEF low, high, some
<1> QED
  BY <1>1, <1>3, <1>4, <1>5, CoversStep, FlagsKept

LEMMA StringKeeps ==
  ASSUME IInv, NEW moves \in BOOLEAN, NEW uninitialized \in BOOLEAN, NEW w, NEW repz,
         NEW written \in BOOLEAN,
         execute_string_instruction(moves, uninitialized, w, repz, written)
  PROVE  WordsSound' /\ FlagsSound'
<1> DEFINE zeroed == IF repz THEN {RCX} ELSE {}
           pointers == {RDI} \cup zeroed \cup (IF moves THEN {RSI} ELSE {})
           slot == Memory(w, {})
           differs == IF moves THEN uninitialized ELSE AnyDiffers(Fixed(RAX, w))
           unsure == \E r \in pointers : Through(r)
           doubtful == Doubtful(owed, slot)
           stored == write_gpr(owed, slot, Spread(slot, differs))
           value == IF unsure THEN doubtful ELSE IF written THEN stored ELSE owed
           cleared == set_gpr_shadow(shadow, slot, FALSE)
           kept == IF written THEN cleared ELSE shadow
           unasked == unsure \/ (written /\ differs)
<1>1. /\ shadow' = Defined(kept, zeroed) /\ owed' = Defined(value, zeroed)
      /\ KeepsFlags /\ Unasked(unasked)
  BY Zenon DEF execute_string_instruction
<1>2. differs \in BOOLEAN /\ unasked \in BOOLEAN
  BY Booleans
<1>3. StillFollowed /\ (followed' => ~unasked)
  BY <1>1, <1>2, UnaskedStill
<1>4. shadow \in Lanes /\ owed \in Lanes /\ (followed' => Covers(owed, shadow))
  BY <1>3, Facts DEF StillFollowed
<1>5. /\ stored \in Lanes /\ cleared \in Lanes
      /\ (~differs /\ Covers(owed, shadow) => Covers(stored, cleared))
  <2>1. Spread(slot, differs) \subseteq lanes(slot) /\ (Spread(slot, differs) # {} => differs)
    BY SpreadLanes
  <2> QED
    BY <1>4, <2>1, WriteCovers
<1>6. doubtful \in Lanes
  BY <1>4, DoubtfulLanes
<1> HIDE DEF zeroed, pointers, slot, differs, unsure, doubtful, stored, cleared
<1>7. value \in Lanes /\ kept \in Lanes /\ (followed' => Covers(value, kept))
  BY <1>2, <1>3, <1>4, <1>5, <1>6
<1> HIDE DEF value, kept, unasked
<1> DEFINE low == Defined(value, zeroed)
           high == Defined(kept, zeroed)
<1>8. low = [c \in Cells |-> low[c]] /\ high = [c \in Cells |-> high[c]]
  BY DEF Defined
<1>9. ASSUME NEW c \in Cells
      PROVE  low[c] \subseteq Lane /\ high[c] \subseteq Lane /\ (followed' => low[c] \subseteq high[c])
  BY <1>7 DEF Defined, Lanes, Covers
<1>10. owed' = low /\ shadow' = high
  BY <1>1
<1> HIDE DEF low, high
<1> QED
  BY <1>1, <1>3, <1>8, <1>9, <1>10, CoversStep, FlagsKept

\* Plain writes: what the address depends on is not asked.
LEMMA XmmKeeps ==
  ASSUME IInv, NEW dst, write_xmm_to_operand(dst)
  PROVE  WordsSound' /\ FlagsSound'
<1> DEFINE differs == AddressDiffers(dst)
<1>1. Writes(dst, FALSE, differs) /\ KeepsFlags /\ Unasked(differs)
  BY DEF write_xmm_to_operand
<1>2. StillFollowed /\ (followed' => ~differs)
  BY <1>1, Booleans, UnaskedStill
<1> HIDE DEF differs
<1> QED
  BY <1>1, <1>2, WritesKeeps, FlagsKept

LEMMA CompareKeeps ==
  ASSUME IInv, NEW reads, set_eflags_from_float_compare(reads)
  PROVE  WordsSound' /\ FlagsSound'
<1> DEFINE differs == AnyDiffers(reads)
<1>1. SetsFlags(FALSE, differs) /\ KeepsOperands /\ Unasked(differs)
  BY DEF set_eflags_from_float_compare
<1>2. differs \in BOOLEAN
  BY Booleans
<1>3. StillFollowed /\ (followed' => ~differs)
  BY <1>1, <1>2, UnaskedStill
<1> HIDE DEF differs
<1> QED
  BY <1>1, <1>2, <1>3, OperandsKept, FlagsSet

\* Registers that the handler has left defined are restored without their taint.
LEMMA SigreturnKeeps ==
  ASSUME IInv, NEW defined \in SUBSET Regs, NEW flags \in BOOLEAN, handle_sigreturn(defined, flags)
  PROVE  WordsSound' /\ FlagsSound'
<1> DEFINE high == Defined(shadow, defined)
           unasked == (\E r \in defined : Through(r)) \/ (flags /\ flags_owed)
<1>1. /\ owed' = owed /\ shadow' = high /\ Unasked(unasked)
      /\ flags_tainted' = (flags_tainted /\ ~flags) /\ flags_owed' = flags_owed
  BY DEF handle_sigreturn
<1>2. unasked \in BOOLEAN
  BY Facts
<1>3. StillFollowed /\ (followed' => ~unasked)
  BY <1>1, <1>2, UnaskedStill
<1>4. owed = [c \in Cells |-> owed[c]] /\ high = [c \in Cells |-> high[c]]
  BY CellFacts DEF Defined
<1>5. ASSUME NEW c \in Cells
      PROVE  owed[c] \subseteq Lane /\ high[c] \subseteq Lane /\ (followed' => owed[c] \subseteq high[c])
  BY <1>3, CellFacts DEF Defined, Through, StillFollowed
<1>6. FlagsSound'
  BY <1>1, <1>3, Facts DEF FlagsSound, StillFollowed
<1> HIDE DEF high, unasked
<1> QED
  BY <1>1, <1>4, <1>5, <1>6, CoversStep

-----------------------------------------------------------------------------
(* The specification.                                                      *)

LEMMA OperandStep ==
  ASSUME IInv, NEW w \in {8, 16, 32, 64}, operand_instruction(w)
  PROVE  WordsSound' /\ FlagsSound'
<1>1. \A o \in Operands(w) : Followed(o) /\ o.address \subseteq Regs
  BY OperandsFollowed DEF Followed
<1>2. Registers(w) \subseteq Operands(w)
  BY DEF Operands
<1>3. ASSUME NEW operation, NEW dst \in Operands(w), NEW src \in Operands(w),
             execute_alu_rm_reg(operation, dst, src)
      PROVE  WordsSound' /\ FlagsSound'
  BY <1>1, <1>3, AluKeeps, Zenon
<1>4. ASSUME NEW operation, NEW dst \in Operands(w), execute_alu_imm(operation, dst)
      PROVE  WordsSound' /\ FlagsSound'
  BY <1>1, <1>4, AluImmKeeps, Zenon
<1>5. ASSUME NEW dst \in Operands(w), execute_inc_dec(dst) \/ execute_not(dst)
      PROVE  WordsSound' /\ FlagsSound'
  BY <1>1, <1>5, UnaryKeeps, Zenon
<1>6. ASSUME NEW dst \in Operands(w), execute_mov_imm(dst)
      PROVE  WordsSound' /\ FlagsSound'
  BY <1>1, <1>6, MoveKeeps, Zenon DEF execute_mov_imm
<1>7. ASSUME NEW operation \in {"mul", "div"}, NEW dst \in Operands(w),
             execute_mul_div(operation, dst, w)
      PROVE  WordsSound' /\ FlagsSound'
  BY <1>1, <1>7, MulDivKeeps, Zenon
<1>8. ASSUME NEW dst \in Operands(w), NEW src \in Operands(w), execute_mov(dst, src)
      PROVE  WordsSound' /\ FlagsSound'
  BY <1>1, <1>8, MovKeeps, Zenon
<1>9. ASSUME NEW operation, NEW dst \in Operands(w), NEW src \in Operands(w),
             execute_exchange(operation, dst, src)
      PROVE  WordsSound' /\ FlagsSound'
  BY <1>1, <1>9, ExchangeKeeps, Zenon
<1>10. ASSUME NEW equal, NEW dst \in Operands(w), NEW src \in Operands(w),
              execute_cmpxchg(dst, src, w, equal)
       PROVE  WordsSound' /\ FlagsSound'
  BY <1>1, <1>10, CmpxchgKeeps, Zenon
<1>11. ASSUME NEW dst \in Operands(w), execute_setcc(dst)
       PROVE  WordsSound' /\ FlagsSound'
  BY <1>1, <1>11, SetccKeeps, Zenon
<1>12. \A o \in Registers(w) : o \in Operands(w)
  BY <1>2
<1>13. ASSUME NEW dst \in Operands(w), NEW src \in Registers(w),
              \/ execute_mov(dst, src)
              \/ execute_mov(src, dst)
              \/ \E operation \in {"xadd", "xchg"} :
                   (w = 8 => operation = "xadd") /\ execute_exchange(operation, dst, src)
              \/ \E equal \in BOOLEAN : execute_cmpxchg(dst, src, w, equal)
       PROVE  WordsSound' /\ FlagsSound'
  BY <1>8, <1>9, <1>10, <1>12, <1>13, Zenon
<1>14. ASSUME NEW dst \in Operands(w), NEW zero \in BOOLEAN, execute_shift_group(dst, zero)
       PROVE  WordsSound' /\ FlagsSound'
  BY <1>1, <1>14, ShiftKeeps, Zenon
<1> QED
  <2>1. ASSUME NEW dst \in Operands(w),
               \/ \E operation \in {"add", "adc", "cmp"} : execute_alu_imm(operation, dst)
               \/ \E zero \in BOOLEAN : execute_shift_group(dst, zero)
               \/ execute_inc_dec(dst)
               \/ execute_not(dst)
               \/ execute_mov_imm(dst)
               \/ \E operation \in {"mul", "div"} : execute_mul_div(operation, dst, w)
        PROVE  WordsSound' /\ FlagsSound'
    BY <1>4, <1>5, <1>6, <1>7, <1>14, <2>1
  <2> QED
    BY <1>3, <1>11, <1>13, <2>1, ZenonT(60) DEF operand_instruction

LEMMA RegisterStep ==
  ASSUME IInv, NEW w \in {8, 16, 32, 64}, NEW reg \in Registers(w), register_instruction(w, reg)
  PROVE  WordsSound' /\ FlagsSound'
<1>1. \A o \in Operands(w) : Followed(o)
  BY OperandsFollowed
<1>2. Followed(reg) /\ reg.address \subseteq Regs
  BY RegistersFollowed DEF Followed
<1>3. ASSUME NEW src \in Operands(w), NEW taken \in BOOLEAN, execute_cmov(reg, src, taken)
      PROVE  WordsSound' /\ FlagsSound'
  BY <1>1, <1>2, <1>3, CmovKeeps, Zenon
<1>4. ASSUME NEW src \in Operands(w), NEW found \in BOOLEAN, execute_scan(reg, src, found)
      PROVE  WordsSound' /\ FlagsSound'
  BY <1>1, <1>2, <1>4, ScanKeeps, Zenon
<1>5. ASSUME NEW src \in Operands(w), NEW operation \in {"imul2", "imul3"},
             execute_imul(operation, reg, src)
      PROVE  WordsSound' /\ FlagsSound'
  BY <1>1, <1>2, <1>5, ImulKeeps, Zenon
<1>6. ASSUME NEW dst \in Operands(w), NEW by_cl \in BOOLEAN, NEW zero \in BOOLEAN,
             execute_double_shift(dst, reg, by_cl, zero)
      PROVE  WordsSound' /\ FlagsSound'
  BY <1>1, <1>2, <1>6, DoubleShiftKeeps, Zenon
<1>7. ASSUME NEW dst \in Operands(w), NEW index \in {{}, {reg}}, NEW modifies \in BOOLEAN,
             NEW changes \in BOOLEAN, execute_bit(dst, index, modifies, changes)
      PROVE  WordsSound' /\ FlagsSound'
  <2>1. \A o \in index : Followed(o)
    BY <1>2
  <2> QED
    BY <1>1, <1>7, <2>1, BitKeeps, Zenon
<1>8. ASSUME NEW from, NEW src \in Operands(from), execute_extend(reg, src)
      PROVE  WordsSound' /\ FlagsSound'
  <2>1. Followed(src)
    BY OperandsFollowed
  <2> QED
    BY <1>2, <1>8, <2>1, MoveKeeps, Zenon DEF execute_extend
<1>9. ASSUME NEW base \in SUBSET Bases, execute_lea(reg, base)
      PROVE  WordsSound' /\ FlagsSound'
  <2> DEFINE dst == [reg EXCEPT !.address = base]
  <2>1. write_operand({}, dst) /\ KeepsFlags /\ Follows
    BY <1>9 DEF execute_lea
  <2>2. dst.address \subseteq Regs
    <3>1. PICK r \in 0 .. 15, rex \in BOOLEAN : reg = Gpr(r, w, rex)
      BY DEF Registers
    <3>2. dst.address = base
      BY <3>1 DEF Gpr
    <3> QED
      BY <3>2, RegsAssumption
  <2> HIDE DEF dst
  <2> QED
    BY <1>2, <2>1, <2>2, MoveKeeps, Zenon
<1> QED
  BY <1>3, <1>4, <1>5, <1>6, <1>7, <1>8, <1>9, Zenon DEF register_instruction

\* The immediate of a push, the status word of FNSTSW: nothing that differs is stored.
LEMMA PushValueKeeps ==
  ASSUME IInv, execute_push_value
  PROVE  WordsSound' /\ FlagsSound'
<1> DEFINE o == Memory(64, {})
<1>1. Writes(o, FALSE, Through(RSP)) /\ KeepsFlags /\ Unasked(Through(RSP))
  BY DEF execute_push_value
<1>2. StillFollowed /\ (followed' => ~Through(RSP))
  BY <1>1, Booleans, UnaskedStill
<1> HIDE DEF o
<1> QED
  BY <1>1, <1>2, WritesKeeps, FlagsKept

LEMMA FnstswKeeps ==
  ASSUME IInv, execute_fnstsw
  PROVE  WordsSound' /\ FlagsSound'
<1>1. Writes(Gpr(RAX, 16, TRUE), FALSE, FALSE) /\ KeepsFlags /\ Follows
  BY DEF execute_fnstsw
<1>2. StillFollowed
  BY <1>1, FollowsStill
<1> QED
  BY <1>1, <1>2, WritesKeeps, FlagsKept

LEMMA StutterKeeps ==
  ASSUME IInv, UNCHANGED vars
  PROVE  WordsSound' /\ FlagsSound'
<1>1. KeepsOperands /\ KeepsFlags /\ Follows
  BY DEF vars, KeepsOperands, KeepsFlags, Follows
<1> QED
  BY <1>1, FollowsStill, OperandsKept, FlagsKept

LEMMA StepKeeps == IInv /\ [Next]_vars => IInv'
<1> SUFFICES ASSUME IInv, [Next]_vars PROVE WordsSound' /\ FlagsSound'
  BY IInvParts, Zenon
<1>1. ASSUME NEW w, NEW dst \in Fixed(RDX, w), NEW src \in Fixed(RAX, w), execute_extend(dst, src)
      PROVE  WordsSound' /\ FlagsSound'
  <2>1. Followed(src) /\ dst.address \subseteq Regs
    BY FixedFollowed DEF Followed
  <2> QED
    BY <1>1, <2>1, MoveKeeps, Zenon DEF execute_extend
<1>2. ASSUME NEW w \in {8, 16, 32, 64},
             \/ operand_instruction(w)
             \/ w # 8 /\ \E reg \in Registers(w) : register_instruction(w, reg)
             \/ \E dst \in Fixed(RDX, w), src \in Fixed(RAX, w) : w >= 32 /\ execute_extend(dst, src)
             \/ \E dst \in MemoryOperands(w) : write_xmm_to_operand(dst)
      PROVE  WordsSound' /\ FlagsSound'
  BY <1>1, <1>2, OperandStep, RegisterStep, XmmKeeps, Zenon
<1>3. ASSUME \E w \in {8, 16, 32, 64}, moves, uninitialized, repz, written \in BOOLEAN :
               execute_string_instruction(moves, uninitialized, w, repz, written)
      PROVE  WordsSound' /\ FlagsSound'
  <2>1. PICK w \in {8, 16, 32, 64}, moves \in BOOLEAN, uninitialized \in BOOLEAN,
             repz \in BOOLEAN, written \in BOOLEAN :
               execute_string_instruction(moves, uninitialized, w, repz, written)
    BY <1>3
  <2> QED
    BY <2>1, StringKeeps, ZenonT(60)
<1>4. ASSUME NEW o \in Operands(64), execute_push_rm(o) \/ execute_pop_rm(o)
      PROVE  WordsSound' /\ FlagsSound'
  <2>1. Followed(o)
    BY OperandsFollowed
  <2> QED
    BY <1>4, <2>1, PushRmKeeps, PopRmKeeps, Zenon
<1>5. ASSUME NEW r \in Regs,
             \/ execute_push(r)
             \/ execute_pop(r)
             \/ RAX \in Regs /\ execute_xchg_rax(r)
      PROVE  WordsSound' /\ FlagsSound'
  BY <1>5, PushKeeps, PopKeeps, ExchangeRaxKeeps, Zenon
<1>6. ASSUME NEW w, NEW from, NEW r \in Regs, NEW src \in MemoryOperands(from),
             execute_sse_float(Gpr(r, w, TRUE), src)
      PROVE  WordsSound' /\ FlagsSound'
  <2>1. Followed(src)
    BY OperandsFollowed DEF Operands
  <2> QED
    BY <1>6, <2>1, ConvertKeeps, Zenon
<1>7. CASE execute_leave
  BY <1>7, LeaveKeeps, Zenon
<1>8. CASE execute_syscall \/ execute_rdtsc \/ execute_cpuid
  BY <1>8, DefinesKeeps, Zenon DEF execute_syscall, execute_rdtsc, execute_cpuid
<1>9. CASE execute_fnstsw \/ execute_push_value
  BY <1>9, FnstswKeeps, PushValueKeeps, Zenon
<1>10. ASSUME NEW reads, set_eflags_from_float_compare(reads)
       PROVE  WordsSound' /\ FlagsSound'
  BY <1>10, CompareKeeps, Zenon
<1>11. ASSUME \E defined \in SUBSET Regs, flags \in BOOLEAN : handle_sigreturn(defined, flags)
       PROVE  WordsSound' /\ FlagsSound'
  BY <1>11, SigreturnKeeps, Zenon
<1>12. CASE step
  BY <1>2, <1>3, <1>4, <1>5, <1>6, <1>7, <1>8, <1>9, <1>10, <1>11, <1>12, ZenonT(60) DEF step
<1> QED
  BY <1>12, StutterKeeps DEF Next

LEMMA InitHolds == Init => IInv
<1> SUFFICES ASSUME Init PROVE WordsSound /\ FlagsSound
  BY IInvParts, Zenon
<1>1. shadow \in Lanes
  BY DEF Init, Lanes
<1>2. owed = shadow /\ FlagsSound
  BY DEF Init, FlagsSound
<1> QED
  BY <1>1, <1>2 DEF WordsSound, Covers

LEMMA Invariance == Spec => []IInv
  BY InitHolds, StepKeeps, PTL DEF Spec

\* For any registers and lanes, a shadow never has a lane that its cell does not have
\* (mask_for_width, SoftCPU64.cpp:297).
THEOREM TypeCorrect == Spec => []TypeOK
<1>1. IInv => TypeOK
  BY DEF IInv
<1> QED
  BY <1>1, Invariance, PTL

\* Whatever is executed, a byte of a register or of memory that may differ because some
\* memory was uninitialized is tainted, as long as no instruction has used a value that may
\* differ without asking for its taint: the count in CL, the carry of adc and sbb, what MOVS
\* and STOS copy, bit strings in memory and the other cases that Unasked names
\* (set_gpr_shadow, SoftCPU64.cpp:388).
THEOREM TaintSound == Spec => []TaintIsSound
<1>1. IInv => TaintIsSound
  BY DEF IInv
<1> QED
  BY <1>1, Invariance, PTL

\* As long, a branch on flags that may differ is reported (branch_condition,
\* SoftCPU64.cpp:579).
THEOREM FlagTaintSound == Spec => []FlagTaintIsSound
<1>1. IInv => FlagTaintIsSound
  BY DEF IInv
<1> QED
  BY <1>1, Invariance, PTL
=============================================================================
