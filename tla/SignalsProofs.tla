--------------------------- MODULE SignalsProofs ---------------------------
(***************************************************************************)
(* Safety of Signals for every set of signals, every choice of masks and   *)
(* any number of signals raised and handlers nested.                       *)
(***************************************************************************)
EXTENDS Signals, TLAPS

USE SignalsAssumption

\* The signal whose flag has been seen is one the host forwards.
ScanIsForwarded == pc \in {"clear", "deliver"} => scan \in HostSignals

Typed == TypeOK /\ ScanIsForwarded

-----------------------------------------------------------------------------
(* Type correctness.                                                       *)

\* The signal masks the guest can set are sets of signals.
LEMMA NewMaskType ==
  ASSUME TypeOK, NEW how \in {"SIG_BLOCK", "SIG_UNBLOCK", "SIG_SETMASK"},
         NEW set \in Masks
  PROVE  NewMask(how, set) \in SUBSET Signals
BY DEF TypeOK, NewMask

\* The scan moves within the signals.
LEMMA AdvanceType ==
  ASSUME TypeOK, Advance
  PROVE  scan' \in Signals /\ pc' \in {"collect", "dispatch"}
BY DEF TypeOK, Advance, Signals

\* Marking the innermost frame as opened, removing it and adding one keep frames a
\* sequence of frames.
LEMMA FramesType ==
  ASSUME TypeOK
  PROVE  /\ frames # << >> =>
              /\ Len(frames) \in DOMAIN frames
              /\ [frames EXCEPT ![Len(frames)].opened = TRUE] \in Seq(Frame)
              /\ SubSeq(frames, 1, Len(frames) - 1) \in Seq(Frame)
              /\ frames[Len(frames)].mask \in SUBSET Signals
         /\ \A s \in Signals :
              Append(frames, [mask |-> mask, signum |-> s, opened |-> FALSE]) \in Seq(Frame)
<1>1. frames \in Seq(Frame) /\ mask \in SUBSET Signals BY DEF TypeOK
<1>2. \A s \in Signals : [mask |-> mask, signum |-> s, opened |-> FALSE] \in Frame
  BY <1>1 DEF Frame
<1>3. ASSUME frames # << >>
      PROVE  /\ Len(frames) \in DOMAIN frames
             /\ [frames EXCEPT ![Len(frames)].opened = TRUE] \in Seq(Frame)
             /\ SubSeq(frames, 1, Len(frames) - 1) \in Seq(Frame)
             /\ frames[Len(frames)].mask \in SUBSET Signals
  <2>1. Len(frames) \in DOMAIN frames /\ Len(frames) \in Nat \ {0}
    BY <1>1, <1>3
  <2>2. frames[Len(frames)] \in Frame BY <1>1, <2>1
  <2>3. [frames[Len(frames)] EXCEPT !.opened = TRUE] \in Frame BY <2>2 DEF Frame
  <2>4. [frames EXCEPT ![Len(frames)].opened = TRUE] \in Seq(Frame)
    BY <1>1, <2>1, <2>3
  <2>5. SubSeq(frames, 1, Len(frames) - 1) \in Seq(Frame) BY <1>1, <2>1
  <2>6. frames[Len(frames)].mask \in SUBSET Signals BY <2>2 DEF Frame
  <2> QED BY <2>1, <2>4, <2>5, <2>6
<1> QED BY <1>1, <1>2, <1>3

\* Every step keeps the types.
LEMMA TypedStep == Typed /\ [Next]_vars => Typed'
<1> SUFFICES ASSUME TypeOK, ScanIsForwarded, [Next]_vars PROVE Typed'
  BY DEF Typed
<1> USE DEF TypeOK, ScanIsForwarded, Typed, Running
<1>1. CASE UNCHANGED vars
  BY <1>1 DEF vars, loop, history
<1>2. ASSUME NEW s \in HostSignals, HostArrives(s) PROVE Typed'
  BY <1>2 DEF HostArrives
<1>3. CASE HostCompletes
  BY <1>3 DEF HostCompletes, history
<1>4. CASE EnterHost
  BY <1>4 DEF EnterHost, history, Signals
<1>5. CASE TestFlag
  <2>1. scan' \in Signals BY <1>5, AdvanceType DEF TestFlag
  <2> QED BY <1>5, <2>1, AdvanceType DEF TestFlag, history
<1>6. CASE ClearFlag
  BY <1>6 DEF ClearFlag, history
<1>7. CASE DeliverFlag
  BY <1>7, AdvanceType DEF DeliverFlag, history
<1>8. CASE Compute
  BY <1>8 DEF Compute, EndStep, history, Signals
<1>9. ASSUME NEW s \in Signals, KillSelf(s) PROVE Typed'
  BY <1>9 DEF KillSelf, EndStep, Signals
<1>10. ASSUME NEW s \in Signals, NEW handler \in Handlers, NEW handler_mask \in Masks,
              SigAction(s, handler, handler_mask)
       PROVE Typed'
  <2>1. [handler |-> handler, mask |-> handler_mask] \in Action BY DEF Action
  <2>2. actions' \in [Signals -> Action] BY <1>10, <2>1 DEF SigAction
  <2> QED BY <1>10, <2>2 DEF SigAction, EndStep, history, Signals
<1>11. ASSUME NEW how \in {"SIG_BLOCK", "SIG_UNBLOCK", "SIG_SETMASK"}, NEW set \in Masks,
              SigProcMask(how, set)
       PROVE Typed'
  <2>1. mask' \in SUBSET Signals BY <1>11, NewMaskType DEF SigProcMask
  <2>2. frames' \in Seq(Frame) BY <1>11, FramesType DEF SigProcMask
  <2> QED BY <1>11, <2>1, <2>2 DEF SigProcMask, EndStep, history, Signals
<1>12. CASE SigReturn
  <2>1. mask' \in SUBSET Signals BY <1>12, FramesType DEF SigReturn
  <2>2. frames' \in Seq(Frame) BY <1>12, FramesType DEF SigReturn
  <2> QED BY <1>12, <2>1, <2>2 DEF SigReturn, EndStep, history, Signals
<1>13. CASE BeginBlocking
  BY <1>13 DEF BeginBlocking, history
<1>14. CASE Exit
  BY <1>14 DEF Exit, history
<1>15. CASE Dispatch
  <2>1. CASE Deliverable = {} /\ UNCHANGED <<pending, mask, frames, status, owed>>
    BY <1>15, <2>1 DEF Dispatch
  <2>2. ASSUME NEW s \in Lowest(Deliverable),
               pending' = pending \ {s}, status' \in {"running", "killed"},
               \/ UNCHANGED <<mask, frames>>
               \/ EnterHandler(s)
        PROVE Typed'
    <3>1. s \in Signals /\ actions[s] \in Action BY DEF Lowest, Deliverable
    <3>2. mask' \in SUBSET Signals BY <2>2, <3>1 DEF EnterHandler, Action
    <3>3. frames' \in Seq(Frame) BY <2>2, <3>1, FramesType DEF EnterHandler
    <3> QED BY <1>15, <2>2, <3>2, <3>3 DEF Dispatch
  <2> QED BY <1>15, <2>1, <2>2 DEF Dispatch, EnterHandler
<1> QED
  BY <1>1, <1>2, <1>3, <1>4, <1>5, <1>6, <1>7, <1>8, <1>9, <1>10, <1>11, <1>12, <1>13,
     <1>14, <1>15 DEF Next, Emulate, GuestStep

\* The emulator's signal state stays within its types: in particular the scan of
\* collect_host_signals stays within the signals whatever interrupts it.
THEOREM TypeCorrect == Spec => []TypeOK
<1>1. Init => Typed
  <2> SUFFICES ASSUME Init PROVE Typed OBVIOUS
  <2>1. actions \in [Signals -> Action] BY DEF Init, Action, Handlers
  <2> QED BY <2>1 DEF Init, Typed, TypeOK, ScanIsForwarded, Signals
<1>2. Typed => TypeOK BY DEF Typed
<1> QED BY <1>1, <1>2, TypedStep, PTL DEF Spec

-----------------------------------------------------------------------------
(* No host signal is lost.                                                 *)

\* Every step keeps an arrived signal flagged, in delivery or pending, until its
\* disposition is applied.
LEMMA NotLostStep == TypeOK /\ NoHostSignalLost /\ [Next]_vars => NoHostSignalLost'
<1> SUFFICES ASSUME TypeOK, NoHostSignalLost, [Next]_vars PROVE NoHostSignalLost'
  OBVIOUS
<1> USE DEF NoHostSignalLost, Running
<1>1. CASE UNCHANGED vars
  BY <1>1 DEF vars, loop, history
<1>2. ASSUME NEW s \in HostSignals, HostArrives(s) PROVE NoHostSignalLost'
  BY <1>2 DEF HostArrives
<1>3. CASE HostCompletes
  BY <1>3 DEF HostCompletes, history
<1>4. CASE EnterHost
  BY <1>4 DEF EnterHost, history
<1>5. CASE TestFlag
  BY <1>5 DEF TestFlag, history, Advance
<1>6. CASE ClearFlag
  BY <1>6 DEF ClearFlag, history
<1>7. CASE DeliverFlag
  BY <1>7 DEF DeliverFlag, history, Advance
<1>8. CASE GuestStep
  <2>1. owed' = owed /\ host' = host /\ pending \subseteq pending' /\ pc = "step"
    BY <1>8 DEF GuestStep, Compute, KillSelf, SigAction, SigProcMask, SigReturn,
                BeginBlocking, Exit, history
  <2> QED BY <2>1
<1>9. CASE Dispatch
  BY <1>9 DEF Dispatch
<1> QED
  BY <1>1, <1>2, <1>3, <1>4, <1>5, <1>6, <1>7, <1>8, <1>9 DEF Next, Emulate

\* A host signal that arrives at any point of collect_host_signals is never
\* forgotten before its disposition is applied.
THEOREM NothingLost == Spec => []NoHostSignalLost
<1>1. Init => NoHostSignalLost BY DEF Init, NoHostSignalLost
<1> QED BY <1>1, NotLostStep, TypeCorrect, PTL DEF Spec

-----------------------------------------------------------------------------
(* Masks and nested handlers.                                              *)

\* The mask that is restored when frame j is left, or the current one.
MaskAfter(j) == IF j <= Len(frames) THEN frames[j].mask ELSE mask

\* SIGKILL is not blocked outside all handlers, nor will be after the last return.
KillFree == Kill \notin MaskAfter(1)

\* The signal of a handler stays blocked in everything that runs on top of it, until
\* one of those handlers unblocks signals.
Guarded ==
  \A i \in 1 .. Len(frames), j \in 1 .. Len(frames) + 1 :
    i < j /\ (\A k \in i .. j - 1 : ~frames[k].opened)
      => frames[i].signum \in MaskAfter(j)

Nesting == TypeOK /\ KillFree /\ Guarded /\ NoReentry

\* Steps that touch neither the mask nor the frames.
LEMMA FramesKept ==
  ASSUME Nesting, UNCHANGED <<mask, frames>>
  PROVE  KillFree' /\ Guarded' /\ NoReentry'
BY DEF Nesting, KillFree, Guarded, NoReentry, MaskAfter

\* rt_sigprocmask.
LEMMA MaskChanged ==
  ASSUME Nesting, NEW how \in {"SIG_BLOCK", "SIG_UNBLOCK", "SIG_SETMASK"},
         NEW set \in Masks, SigProcMask(how, set)
  PROVE  KillFree' /\ Guarded' /\ NoReentry'
<1> DEFINE n == Len(frames)
<1>1. frames \in Seq(Frame) /\ n \in Nat BY DEF Nesting, TypeOK
<1>2. Kill \in mask' => Kill \in mask BY DEF SigProcMask, NewMask
<1>3. /\ Len(frames') = n
      /\ \A i \in 1 .. n : /\ frames'[i].signum = frames[i].signum
                           /\ frames'[i].mask = frames[i].mask
                           /\ frames[i].opened => frames'[i].opened
  <2>1. CASE frames' = frames BY <2>1
  <2>2. CASE frames # << >> /\ frames' = [frames EXCEPT ![Len(frames)].opened = TRUE]
    <3>1. Len(frames') = n BY <1>1, <2>2
    <3>2. ASSUME NEW i \in 1 .. n
          PROVE  /\ frames'[i].signum = frames[i].signum
                 /\ frames'[i].mask = frames[i].mask
                 /\ frames[i].opened => frames'[i].opened
      <4>1. frames[i] \in Frame /\ i \in DOMAIN frames BY <1>1, <3>2
      <4>2. CASE i = n
        <5>1. frames'[i] = [frames[i] EXCEPT !.opened = TRUE] BY <2>2, <4>1, <4>2
        <5> QED BY <4>1, <5>1 DEF Frame
      <4>3. CASE i # n
        <5>1. frames'[i] = frames[i] BY <2>2, <4>1, <4>3
        <5> QED BY <5>1
      <4> QED BY <4>2, <4>3
    <3> QED BY <3>1, <3>2
  <2> QED BY <2>1, <2>2 DEF SigProcMask
<1>4. KillFree'
  BY <1>1, <1>2, <1>3 DEF Nesting, KillFree, MaskAfter
<1>5. NoReentry'
  BY <1>1, <1>3 DEF Nesting, NoReentry
<1>6. mask \subseteq mask' \/ n = 0 \/ frames'[n].opened
  <2>1. CASE mask \subseteq mask' BY <2>1
  <2>2. CASE frames # << >> /\ frames' = [frames EXCEPT ![Len(frames)].opened = TRUE]
    <3>1. n \in DOMAIN frames /\ frames[n] \in Frame BY <1>1, <2>2
    <3>2. frames'[n] = [frames[n] EXCEPT !.opened = TRUE] BY <2>2, <3>1
    <3> QED BY <3>1, <3>2 DEF Frame
  <2>3. CASE frames = << >> BY <2>3
  <2> QED BY <2>1, <2>2, <2>3 DEF SigProcMask
<1>7. Guarded'
  <2> SUFFICES ASSUME NEW i \in 1 .. n, NEW j \in 1 .. n + 1, i < j,
                      \A k \in i .. j - 1 : ~frames'[k].opened
               PROVE  frames'[i].signum \in MaskAfter(j)'
    BY <1>3 DEF Guarded
  <2>1. \A k \in i .. j - 1 : ~frames[k].opened BY <1>1, <1>3
  <2>2. frames[i].signum \in MaskAfter(j) BY <1>1, <2>1 DEF Nesting, Guarded
  <2>3. CASE j <= n BY <1>1, <1>3, <2>2, <2>3 DEF MaskAfter
  <2>4. CASE j = n + 1
    <3>1. n \in i .. j - 1 BY <1>1, <2>4
    <3>2. mask \subseteq mask' BY <1>1, <1>6, <3>1
    <3> QED BY <1>1, <1>3, <2>2, <2>4, <3>2 DEF MaskAfter
  <2> QED BY <1>1, <2>3, <2>4
<1> QED BY <1>4, <1>5, <1>7

\* rt_sigreturn.
LEMMA Returned ==
  ASSUME Nesting, SigReturn
  PROVE  KillFree' /\ Guarded' /\ NoReentry'
<1> DEFINE n == Len(frames)
<1>1. frames \in Seq(Frame) /\ n \in Nat BY DEF Nesting, TypeOK
<1>2. CASE frames = << >>
  <2>1. UNCHANGED <<mask, frames>> BY <1>2 DEF SigReturn
  <2> QED BY <2>1, FramesKept
<1>3. CASE frames # << >>
  <2>1. n \in Nat \ {0} BY <1>1, <1>3
  <2>2. Len(frames') = n - 1 /\ \A i \in 1 .. n - 1 : frames'[i] = frames[i]
    BY <1>1, <1>3, <2>1 DEF SigReturn
  <2>3. mask' = frames[n].mask BY <1>3 DEF SigReturn
  <2>4. \A j \in 1 .. n : MaskAfter(j)' = MaskAfter(j)
    BY <1>1, <2>1, <2>2, <2>3 DEF MaskAfter
  <2>5. KillFree' BY <2>1, <2>4 DEF Nesting, KillFree
  <2>6. NoReentry'
    <3> SUFFICES ASSUME NEW i \in 1 .. n - 1, NEW j \in 1 .. n - 1, i < j,
                        frames'[i].signum = frames'[j].signum
                 PROVE  \E k \in i .. j - 1 : frames'[k].opened
      BY <2>2 DEF NoReentry
    <3>1. i \in 1 .. n /\ j \in 1 .. n /\ frames[i].signum = frames[j].signum
      BY <2>1, <2>2
    <3>2. PICK k \in i .. j - 1 : frames[k].opened BY <3>1 DEF Nesting, NoReentry
    <3>3. k \in 1 .. n - 1 BY <2>1
    <3> QED BY <2>2, <3>2, <3>3
  <2>7. Guarded'
    <3> SUFFICES ASSUME NEW i \in 1 .. n - 1, NEW j \in 1 .. n, i < j,
                        \A k \in i .. j - 1 : ~frames'[k].opened
                 PROVE  frames'[i].signum \in MaskAfter(j)'
      BY <2>1, <2>2 DEF Guarded
    <3>1. \A k \in i .. j - 1 : k \in 1 .. n - 1 BY <2>1
    <3>2. \A k \in i .. j - 1 : ~frames[k].opened BY <2>2, <3>1
    <3>3. i \in 1 .. n /\ j \in 1 .. n + 1 BY <2>1
    <3>4. frames[i].signum \in MaskAfter(j) BY <3>2, <3>3 DEF Nesting, Guarded
    <3> QED BY <2>2, <2>4, <3>4
  <2> QED BY <2>5, <2>6, <2>7
<1> QED BY <1>2, <1>3

\* dispatch_pending_signal enters a handler.
LEMMA Entered ==
  ASSUME Nesting, NEW s \in Lowest(Deliverable), EnterHandler(s)
  PROVE  KillFree' /\ Guarded' /\ NoReentry'
<1> DEFINE n == Len(frames)
<1>1. frames \in Seq(Frame) /\ n \in Nat BY DEF Nesting, TypeOK
<1>2. s \notin mask BY DEF Lowest, Deliverable
<1>3. /\ Len(frames') = n + 1
      /\ \A i \in 1 .. n : frames'[i] = frames[i]
      /\ frames'[n + 1] = [mask |-> mask, signum |-> s, opened |-> FALSE]
  BY <1>1 DEF EnterHandler
<1>4. mask \subseteq mask' /\ s \in mask' BY DEF EnterHandler
<1>5. \A j \in 1 .. n + 1 : MaskAfter(j)' = MaskAfter(j)
  BY <1>1, <1>3 DEF MaskAfter
<1>6. \A j \in Nat : j = n + 2 => MaskAfter(j)' = mask' BY <1>1, <1>3 DEF MaskAfter
<1>7. KillFree' BY <1>1, <1>5 DEF Nesting, KillFree
<1>8. \A i \in 1 .. n : frames[i].signum = s => \E k \in i .. n : frames[k].opened
  <2> SUFFICES ASSUME NEW i \in 1 .. n, frames[i].signum = s,
                      \A k \in i .. (n + 1) - 1 : ~frames[k].opened
               PROVE  FALSE
    BY <1>1
  <2>1. frames[i].signum \in MaskAfter(n + 1) BY <1>1 DEF Nesting, Guarded
  <2> QED BY <1>1, <1>2, <2>1 DEF MaskAfter
<1>9. NoReentry'
  <2> SUFFICES ASSUME NEW i \in 1 .. n + 1, NEW j \in 1 .. n + 1, i < j,
                      frames'[i].signum = frames'[j].signum
               PROVE  \E k \in i .. j - 1 : frames'[k].opened
    BY <1>1, <1>3 DEF NoReentry
  <2>1. CASE j <= n
    <3>1. i \in 1 .. n /\ j \in 1 .. n BY <1>1, <2>1
    <3>2. frames[i].signum = frames[j].signum BY <1>3, <3>1
    <3>3. PICK k \in i .. j - 1 : frames[k].opened
      BY <3>1, <3>2 DEF Nesting, NoReentry
    <3>4. k \in 1 .. n BY <1>1, <2>1
    <3> QED BY <1>3, <3>3, <3>4
  <2>2. CASE j = n + 1
    <3>1. frames[i].signum = s BY <1>1, <1>3, <2>2
    <3>2. PICK k \in i .. n : frames[k].opened BY <1>1, <1>8, <2>2, <3>1
    <3> QED BY <1>1, <1>3, <2>2, <3>2
  <2> QED BY <1>1, <2>1, <2>2
<1>10. Guarded'
  <2> SUFFICES ASSUME NEW i \in 1 .. n + 1, NEW j \in 1 .. n + 2, i < j,
                      \A k \in i .. j - 1 : ~frames'[k].opened
               PROVE  frames'[i].signum \in MaskAfter(j)'
    BY <1>1, <1>3 DEF Guarded
  <2>1. CASE j <= n + 1
    <3>1. \A k \in i .. j - 1 : ~frames[k].opened BY <1>1, <1>3, <2>1
    <3>2. i \in 1 .. n BY <1>1, <2>1
    <3>3. j \in 1 .. n + 1 BY <1>1, <2>1
    <3>4. frames[i].signum \in MaskAfter(j) BY <3>1, <3>2, <3>3 DEF Nesting, Guarded
    <3> QED BY <1>3, <1>5, <3>2, <3>3, <3>4
  <2>2. CASE j = n + 2 /\ i = n + 1
    <3>1. frames'[i].signum = s BY <1>3, <2>2
    <3>2. MaskAfter(j)' = mask' BY <1>1, <1>6, <2>2
    <3> QED BY <1>4, <3>1, <3>2
  <2>3. CASE j = n + 2 /\ i <= n
    <3>1. \A k \in i .. (n + 1) - 1 : ~frames[k].opened BY <1>1, <1>3, <2>3
    <3>2. frames[i].signum \in MaskAfter(n + 1) BY <1>1, <2>3, <3>1 DEF Nesting, Guarded
    <3>3. frames[i].signum \in mask BY <1>1, <3>2 DEF MaskAfter
    <3>4. frames'[i].signum = frames[i].signum BY <1>1, <1>3, <2>3
    <3>5. MaskAfter(j)' = mask' BY <1>1, <1>6, <2>3
    <3> QED BY <1>4, <3>3, <3>4, <3>5
  <2> QED BY <1>1, <2>1, <2>2, <2>3
<1> QED BY <1>7, <1>9, <1>10

\* Every step keeps the nesting of handlers and masks.
LEMMA NestingStep == Nesting /\ TypeOK' /\ [Next]_vars => Nesting'
<1> SUFFICES ASSUME Nesting, TypeOK', [Next]_vars PROVE KillFree' /\ Guarded' /\ NoReentry'
  BY DEF Nesting
<1>1. CASE UNCHANGED <<mask, frames>> BY <1>1, FramesKept
<1>2. CASE SigReturn BY <1>2, Returned
<1>3. ASSUME NEW how \in {"SIG_BLOCK", "SIG_UNBLOCK", "SIG_SETMASK"}, NEW set \in Masks,
             SigProcMask(how, set)
      PROVE  KillFree' /\ Guarded' /\ NoReentry'
  BY <1>3, MaskChanged
<1>4. CASE Dispatch
  BY <1>1, <1>4, Entered DEF Dispatch
<1> QED
  BY <1>1, <1>2, <1>3, <1>4
  DEF Next, Emulate, GuestStep, Compute, KillSelf, SigAction, BeginBlocking, Exit,
      EnterHost, TestFlag, ClearFlag, DeliverFlag, HostCompletes, HostArrives, vars

\* Masks and frames stay nested in every behaviour.
LEMMA AlwaysNested == Spec => []Nesting
<1>1. Init => KillFree /\ Guarded /\ NoReentry
  BY DEF Init, KillFree, Guarded, NoReentry, MaskAfter
<1>2. Init /\ TypeOK => Nesting BY <1>1 DEF Nesting
<1> QED BY <1>2, NestingStep, TypeCorrect, PTL DEF Spec

\* SIGKILL is blocked only while a handler runs, however masks are saved, extended by
\* actions and restored.
THEOREM KillNotBlocked == Spec => []KillBlockedOnlyInHandlers
<1>1. Nesting => KillBlockedOnlyInHandlers
  BY DEF Nesting, KillFree, KillBlockedOnlyInHandlers, MaskAfter, TypeOK
<1> QED BY <1>1, AlwaysNested, PTL

\* No handler is interrupted by its own signal unless signals have been unblocked on
\* top of it, at any depth of nesting.
THEOREM HandlersNotReentered == Spec => []NoReentry
<1>1. Nesting => NoReentry BY DEF Nesting
<1> QED BY <1>1, AlwaysNested, PTL
=============================================================================
