-------------------------------- MODULE X87 --------------------------------
(***************************************************************************)
(* The x87 register stack of SoftCPU64: a ring of slots with a top and a   *)
(* tag per slot, and the condition codes.  The ghost stack is the sequence *)
(* that a program sees, from ST(0) on.  The code detects neither overflow  *)
(* nor underflow; in_order ends where a program leaves the stack's rules,  *)
(* or moves the top or frees a register by hand.  What the arithmetic and  *)
(* the conversions compute is left open.                                   *)
(***************************************************************************)
EXTENDS Integers, Sequences

CONSTANTS
  Slots,  \* 8: registers of the stack
  Values  \* values of the registers

ASSUME SlotsAssumption == Slots \in Nat \ {0, 1}
ASSUME ValuesAssumption == Values # {}

Zero == CHOOSE v \in Values : TRUE

VARIABLES
  st,        \* m_fpu_st
  empty,     \* m_fpu_empty
  top,       \* m_fpu_top
  codes,     \* C3, C2 and C0 of m_fpu_status: the outcome of a compare or of FXAM
  stack,     \* ghost: ST(0), ST(1), ... as the program sees them
  in_order,  \* history: the program has kept to the rules of the stack
  tagged     \* history: FNINIT has marked every register empty

x87_vars == <<st, empty, top, codes, stack, in_order, tagged>>

Slot == 0 .. Slots - 1
Outcomes == {"greater", "less", "equal", "unordered"}
Codes == Outcomes \cup {"empty", "other"}

-----------------------------------------------------------------------------
(* The ring.                                                               *)

slot(i) == (top + i) % Slots

fst(i) == st[slot(i)]
fst_empty(i) == empty[slot(i)]

fpu_push_unwrapped(regs, v) ==
  LET t == (top - 1) % Slots
  IN  /\ top' = top - 1
      /\ st' = [regs EXCEPT ![t] = v]
      /\ empty' = [empty EXCEPT ![t] = FALSE]
fpu_push(regs, v) ==
  LET t == (top - 1) % Slots
  IN  /\ top' = t
      /\ st' = [regs EXCEPT ![t] = v]
      /\ empty' = [empty EXCEPT ![t] = FALSE]

\* pops registers leave the ring, which keeps their values.
fpu_pop_keeps_tag(regs, pops) ==
  /\ top' = (top + pops) % Slots
  /\ st' = regs
  /\ UNCHANGED empty
fpu_pop(regs, pops) ==
  /\ top' = (top + pops) % Slots
  /\ st' = regs
  /\ empty' = [s \in Slot |-> empty[s] \/ \E i \in 0 .. pops - 1 : s = slot(i)]

Replaced(i, v) == [st EXCEPT ![slot(i)] = v]

-----------------------------------------------------------------------------
(* The stack of the program.                                               *)

Depth == Len(stack)

\* The instruction uses registers up to ST(uses - 1) and leaves new.
Follows(uses, new) ==
  /\ in_order' = (in_order /\ uses <= Depth /\ Len(new) <= Slots)
  /\ stack' = IF in_order' THEN new ELSE <<>>

\* The stack after ST(i) has been given a value and pops registers removed.
After(i, v, pops) ==
  SubSeq(IF i < Depth THEN [stack EXCEPT ![i + 1] = v] ELSE stack, pops + 1, Depth)

-----------------------------------------------------------------------------
(* Instructions.                                                           *)

\* The registers are zero and tagged as in use when the emulator starts.
X87Init ==
  /\ st = [s \in Slot |-> Zero]
  /\ empty = [s \in Slot |-> FALSE]
  /\ top = 0
  /\ codes = "greater"
  /\ stack = <<>>
  /\ in_order = TRUE
  /\ tagged = FALSE

\* FLD and FILD from memory and the constants.
Load(v) ==
  /\ fpu_push(st, v)
  /\ Follows(0, <<v>> \o stack)
  /\ UNCHANGED <<codes, tagged>>

\* FLD ST(i): the operand is read before the top moves.
LoadRegister_after_push(i) ==
  /\ fpu_push(st, fst(i - 1))
  /\ Follows(i + 1, <<IF i < Depth THEN stack[i + 1] ELSE Zero>> \o stack)
  /\ UNCHANGED <<codes, tagged>>
LoadRegister(i) ==
  /\ fpu_push(st, fst(i))
  /\ Follows(i + 1, <<IF i < Depth THEN stack[i + 1] ELSE Zero>> \o stack)
  /\ UNCHANGED <<codes, tagged>>

\* FPTAN, FSINCOS and FXTRACT replace ST(0) and push a second result.
ReplaceAndPush(v, w) ==
  /\ fpu_push(Replaced(0, v), w)
  /\ Follows(1, <<w>> \o After(0, v, 0))
  /\ UNCHANGED <<codes, tagged>>

\* FST and FIST to memory, and with a pop FSTP, FISTP and FISTTP.
Store(pops) ==
  /\ fpu_pop(st, pops)
  /\ Follows(1, SubSeq(stack, pops + 1, Depth))
  /\ UNCHANGED <<codes, tagged>>

\* Arithmetic with a memory operand, ST(i) or nothing: the result v goes to ST(0) or
\* ST(i); the forms with P, FYL2X and FPATAN then pop.
Arithmetic(i, v, pops) ==
  /\ fpu_pop(Replaced(i, v), pops)
  /\ Follows(i + 1, After(i, v, pops))
  /\ UNCHANGED <<codes, tagged>>

\* FCOM, FUCOM and FTST with 0, 1 or 2 pops.
fpu_compare(i, outcome, pops) ==
  /\ codes' = outcome
  /\ fpu_pop(st, pops)
  /\ Follows(i + 1, SubSeq(stack, pops + 1, Depth))
  /\ UNCHANGED tagged

\* FCOMI, FUCOMI and the forms that pop: the result goes to the integer flags.
CompareToFlags(i, pops) ==
  /\ fpu_pop(st, pops)
  /\ Follows(i + 1, SubSeq(stack, pops + 1, Depth))
  /\ UNCHANGED <<codes, tagged>>

Exchange(i) ==
  /\ st' = [st EXCEPT ![slot(0)] = fst(i), ![slot(i)] = fst(0)]
  /\ Follows(i + 1, IF i < Depth
                    THEN [stack EXCEPT ![1] = stack[i + 1], ![i + 1] = stack[1]] ELSE stack)
  /\ UNCHANGED <<empty, top, codes, tagged>>

\* FCMOVcc.
ConditionalMove(i, take) ==
  /\ st' = IF take THEN Replaced(0, fst(i)) ELSE st
  /\ Follows(i + 1, IF take /\ i < Depth THEN After(0, stack[i + 1], 0) ELSE stack)
  /\ UNCHANGED <<empty, top, codes, tagged>>

\* FST ST(i) and FSTP ST(i) leave the tag of ST(i) alone, so ST(i) must be in use.
StoreRegister(i, pops) ==
  /\ fpu_pop(Replaced(i, fst(0)), pops)
  /\ Follows(i + 1, IF i < Depth THEN After(i, stack[1], pops) ELSE stack)
  /\ UNCHANGED <<codes, tagged>>

\* FXAM: empty is asked first, then the class of the value.
FXAM ==
  /\ codes' = IF fst_empty(0) THEN "empty" ELSE "other"
  /\ UNCHANGED <<st, empty, top, stack, in_order, tagged>>

FFREE(i) ==
  /\ empty' = [empty EXCEPT ![slot(i)] = TRUE]
  /\ in_order' = FALSE
  /\ stack' = <<>>
  /\ UNCHANGED <<st, top, codes, tagged>>

\* D9 F6 and D9 F7 move the top by hand, F6 up and F7 down.
MoveTop(by) ==
  /\ top' = (top + by) % Slots
  /\ in_order' = FALSE
  /\ stack' = <<>>
  /\ UNCHANGED <<st, empty, codes, tagged>>

FNINIT ==
  /\ top' = 0
  /\ empty' = [s \in Slot |-> TRUE]
  /\ codes' = "greater"
  /\ stack' = <<>>
  /\ in_order' = TRUE
  /\ tagged' = TRUE
  /\ UNCHANGED st

X87Next ==
  \/ \E v \in Values :
       \/ Load(v)
       \/ \E w \in Values : ReplaceAndPush(v, w)
       \/ \E i \in Slot, pops \in 0 .. 1 : Arithmetic(i, v, pops)
  \/ \E i \in Slot :
       \/ LoadRegister(i)
       \/ Exchange(i)
       \/ FFREE(i)
       \/ \E take \in BOOLEAN : ConditionalMove(i, take)
       \/ \E pops \in 0 .. 1 : StoreRegister(i, pops) \/ CompareToFlags(i, pops)
       \/ \E outcome \in Outcomes, pops \in 0 .. 1 : fpu_compare(i, outcome, pops)
  \/ \E outcome \in Outcomes : fpu_compare(1, outcome, 2)  \* FCOMPP, FUCOMPP
  \/ \E pops \in 0 .. 1 : Store(pops)
  \/ \E by \in {-1, 1} : MoveTop(by)
  \/ FXAM
  \/ FNINIT

X87Spec == X87Init /\ [][X87Next]_x87_vars

-----------------------------------------------------------------------------
(* Properties.                                                             *)

\* The top stays a slot of the ring through every push, pop and wrap-around, and the
\* program's stack never outgrows the ring.
X87TypeOK ==
  /\ st \in [Slot -> Values]
  /\ empty \in [Slot -> BOOLEAN]
  /\ top \in Slot
  /\ codes \in Codes
  /\ stack \in Seq(Values) /\ Depth <= Slots
  /\ in_order \in BOOLEAN /\ tagged \in BOOLEAN

\* After any sequence of loads, stores, exchanges, arithmetic and pops that keeps to the
\* stack's rules, ST(i) is the value that the program put there, wherever the top has
\* wrapped to.
RingIsStack == in_order => \A i \in 0 .. Depth - 1 : fst(i) = stack[i + 1]

\* The tags that FXAM reads follow the stack: a register in use is never marked empty,
\* and once FNINIT has run every other register is.
TagsFollowStack ==
  in_order => \A i \in Slot : IF i < Depth THEN ~fst_empty(i) ELSE tagged => fst_empty(i)
=============================================================================
