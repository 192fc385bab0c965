------------------------------- MODULE MCCpu -------------------------------
(* The integer unit and the x87 stack for TLC.  They share no state, so one *)
(* run explores them side by side instead of interleaved.                   *)
EXTENDS Alu, X87

VARIABLE unit  \* the unit that executes instructions

CpuInit == Init /\ X87Init /\ unit \in {"integer", "x87"}

CpuNext ==
  /\ UNCHANGED unit
  /\ \/ unit = "integer" /\ Next /\ UNCHANGED x87_vars
     \/ unit = "x87" /\ X87Next /\ UNCHANGED vars

CpuSpec == CpuInit /\ [][CpuNext]_<<vars, x87_vars, unit>>

\* The other unit rests where it started.
View == IF unit = "integer" THEN <<unit, vars>> ELSE <<unit, x87_vars>>
=============================================================================
