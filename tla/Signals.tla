------------------------------ MODULE Signals ------------------------------
(***************************************************************************)
(* Signals: the host's handler that sets flags, the emulator loop that     *)
(* collects the flags and dispatches pending signals (Emulator.cpp), and   *)
(* the guest's signal system calls (LinuxSyscalls.cpp).                    *)
(*                                                                         *)
(* The host handler runs asynchronously: it can interrupt the loop between *)
(* any two accesses to its flags, so testing, clearing and delivering are  *)
(* steps of their own.  Everything else the loop does is one step per      *)
(* stage: an instruction of the guest, then collect_host_signals, then     *)
(* dispatch_pending_signal.                                                *)
(*                                                                         *)
(* A signal frame on the guest's stack is an element of frames, the        *)
(* innermost handler's last.  Handlers return in the order of nesting; a   *)
(* handler that never returns is a handler that does not call sigreturn.   *)
(***************************************************************************)
EXTENDS Integers, Sequences, FiniteSets

CONSTANTS
  NSig,            \* signals are 1 .. NSig
  Kill,            \* SIGKILL; SIGSTOP is treated in the same way
  HostSignals,     \* the signals register_host_signal_handlers forwards
  DefaultIgnored,  \* default_signal_is_ignored
  Masks,           \* signal sets the guest passes
  Blocking,        \* whether the guest makes system calls that block on the host
  MaxRaised        \* bound on the number of signals raised; it bounds the nesting
                   \* of handlers too, as every frame uses up a signal

Signals == 1 .. NSig

ASSUME SignalsAssumption ==
  /\ NSig \in Nat \ {0}
  /\ Kill \in Signals
  /\ HostSignals \subseteq Signals \ {Kill}
  /\ DefaultIgnored \subseteq Signals \ {Kill}
  /\ Masks \subseteq SUBSET Signals
  /\ Blocking \in BOOLEAN
  /\ MaxRaised \in Nat

VARIABLES
  host,     \* s_host_signal_pending: the flags that are set
  pending,  \* m_pending_signals
  mask,     \* m_signal_mask
  actions,  \* m_signal_actions: handler and mask of every signal
  frames,   \* the frames on the guest's stack: saved mask, signal, and whether
            \* its handler has unblocked signals
  pc,       \* what the emulator is about to do
  scan,     \* signum in the loop of collect_host_signals
  status,   \* "running", or how the emulator has ended
  raised,   \* how many signals have been raised
  owed      \* history: host signals that have arrived and whose disposition
            \* has not been applied since

loop == <<pc, scan, status>>
history == <<raised, owed>>
vars == <<host, pending, mask, actions, frames, loop, history>>

Handlers == {"SIG_DFL", "SIG_IGN", "handler"}
Action == [handler : Handlers, mask : SUBSET Signals]
Frame == [mask : SUBSET Signals, signum : Signals, opened : BOOLEAN]

Init ==
  /\ host = {} /\ pending = {} /\ mask = {}
  /\ actions = [s \in Signals |-> [handler |-> "SIG_DFL", mask |-> {}]]
  /\ frames = << >>
  /\ pc = "step" /\ scan = 1 /\ status = "running"
  /\ raised = 0 /\ owed = {}

Running(stage) == status = "running" /\ pc = stage

-----------------------------------------------------------------------------
(* The host.                                                               *)

\* host_signal_handler.  It interrupts a blocked host system call, which fails
\* with EINTR: the handlers are installed without SA_RESTART.
HostArrives(s) ==
  /\ status = "running" /\ raised < MaxRaised
  /\ host' = host \cup {s}
  /\ owed' = owed \cup {s}
  /\ raised' = raised + 1
  /\ pc' = IF pc = "blocked" THEN "collect" ELSE pc
  /\ UNCHANGED <<pending, mask, actions, frames, scan, status>>

\* The system call the guest is blocked in completes.
HostCompletes ==
  /\ Running("blocked")
  /\ pc' = "collect"
  /\ UNCHANGED <<host, pending, mask, actions, frames, scan, status, history>>

-----------------------------------------------------------------------------
(* One instruction of the guest.                                           *)

\* Every instruction is followed by collect_host_signals.
EndStep == pc' = "collect" /\ scan' = 1 /\ UNCHANGED status

Compute ==
  /\ Running("step")
  /\ EndStep
  /\ UNCHANGED <<host, pending, mask, actions, frames, history>>

\* kill, tkill, tgkill to the guest itself: deliver_signal.
KillSelf(s) ==
  /\ Running("step") /\ raised < MaxRaised
  /\ pending' = pending \cup {s}
  /\ raised' = raised + 1
  /\ EndStep
  /\ UNCHANGED <<host, mask, actions, frames, owed>>

\* rt_sigaction: set_signal_action refuses SIGKILL and SIGSTOP.
SigAction(s, handler, handler_mask) ==
  /\ Running("step") /\ s # Kill
  /\ actions' = [actions EXCEPT ![s] = [handler |-> handler, mask |-> handler_mask]]
  /\ EndStep
  /\ UNCHANGED <<host, pending, mask, frames, history>>

\* Faulty: lets the guest block SIGKILL.
NewMask_unfiltered(how, set) ==
  CASE how = "SIG_BLOCK"   -> mask \cup set
    [] how = "SIG_UNBLOCK" -> mask \ set
    [] how = "SIG_SETMASK" -> set

\* rt_sigprocmask: set_signal_mask, which does not touch SIGKILL and SIGSTOP.
NewMask(how, set) ==
  LET new_mask == set \ {Kill}
  IN  CASE how = "SIG_BLOCK"   -> mask \cup new_mask
        [] how = "SIG_UNBLOCK" -> mask \ new_mask
        [] how = "SIG_SETMASK" -> new_mask

SigProcMask(how, set) ==
  /\ Running("step")
  /\ mask' = NewMask(how, set)
  /\ frames' = IF frames # << >> /\ ~(mask \subseteq NewMask(how, set))
               THEN [frames EXCEPT ![Len(frames)].opened = TRUE] ELSE frames
  /\ EndStep
  /\ UNCHANGED <<host, pending, actions, history>>

\* rt_sigreturn: handle_sigreturn restores what the innermost frame holds; without
\* a frame the magic number is missing and EmulatorError ends the emulator.
SigReturn ==
  /\ Running("step")
  /\ IF frames = << >>
     THEN /\ status' = "error"
          /\ UNCHANGED <<mask, frames, pc, scan>>
     ELSE /\ mask' = frames[Len(frames)].mask
          /\ frames' = SubSeq(frames, 1, Len(frames) - 1)
          /\ EndStep
  /\ UNCHANGED <<host, pending, actions, history>>

\* A system call that blocks on the host (read, poll, nanosleep...): the emulator
\* has decided to make it, and then waits in it.
BeginBlocking ==
  /\ Blocking /\ Running("step")
  /\ pc' = "entering"
  /\ UNCHANGED <<host, pending, mask, actions, frames, scan, status, history>>

EnterHost ==
  /\ Running("entering")
  /\ pc' = "blocked" /\ scan' = 1
  /\ UNCHANGED <<host, pending, mask, actions, frames, status, history>>

\* exit and exit_group.
Exit ==
  /\ Running("step")
  /\ status' = "exited"
  /\ UNCHANGED <<host, pending, mask, actions, frames, pc, scan, history>>

GuestStep ==
  \/ Compute
  \/ \E s \in Signals : KillSelf(s)
  \/ \E s \in Signals, handler \in Handlers, handler_mask \in Masks :
       SigAction(s, handler, handler_mask)
  \/ \E how \in {"SIG_BLOCK", "SIG_UNBLOCK", "SIG_SETMASK"}, set \in Masks :
       SigProcMask(how, set)
  \/ SigReturn
  \/ BeginBlocking
  \/ Exit

-----------------------------------------------------------------------------
(* collect_host_signals.                                                   *)

\* Faulty: runs one signal too far.
Advance_too_far == IF scan <= NSig THEN pc' = "collect" /\ scan' = scan + 1
                                   ELSE pc' = "dispatch" /\ scan' = 1

\* Faulty: leaves out the last signal.
Advance_too_short == IF scan < NSig - 1 THEN pc' = "collect" /\ scan' = scan + 1
                                        ELSE pc' = "dispatch" /\ scan' = 1

Advance == IF scan < NSig THEN pc' = "collect" /\ scan' = scan + 1
                          ELSE pc' = "dispatch" /\ scan' = 1

TestFlag ==
  /\ Running("collect")
  /\ IF scan \in host THEN pc' = "clear" /\ UNCHANGED scan ELSE Advance
  /\ UNCHANGED <<host, pending, mask, actions, frames, status, history>>

\* Faulty: clears every flag.
ClearFlag_all ==
  /\ Running("clear")
  /\ host' = {}
  /\ pc' = "deliver"
  /\ UNCHANGED <<pending, mask, actions, frames, scan, status, history>>

\* "Clear the pending flag before delivering the signal to the guest."
ClearFlag ==
  /\ Running("clear")
  /\ host' = host \ {scan}
  /\ pc' = "deliver"
  /\ UNCHANGED <<pending, mask, actions, frames, scan, status, history>>

DeliverFlag ==
  /\ Running("deliver")
  /\ pending' = pending \cup {scan}
  /\ Advance
  /\ UNCHANGED <<host, mask, actions, frames, status, history>>

-----------------------------------------------------------------------------
(* dispatch_pending_signal: the lowest signal that is pending and not      *)
(* blocked.                                                                *)

Lowest(S) == {s \in S : \A t \in S : s <= t}

\* Faulty: gives up when the lowest pending signal is blocked.
Deliverable_lowest_only ==
  Lowest(pending) \ mask

Deliverable == pending \ mask

\* Faulty: does not block the signal that is handled.
EnterHandler_reentrant(s) ==
  /\ frames' = Append(frames, [mask |-> mask, signum |-> s, opened |-> FALSE])
  /\ mask' = mask \cup actions[s].mask
  /\ UNCHANGED status

\* The handler runs with the mask of its action and its own signal blocked.
EnterHandler(s) ==
  /\ frames' = Append(frames, [mask |-> mask, signum |-> s, opened |-> FALSE])
  /\ mask' = mask \cup actions[s].mask \cup {s}
  /\ UNCHANGED status

Dispatch ==
  /\ Running("dispatch")
  /\ pc' = "step"
  /\ \/ Deliverable = {} /\ UNCHANGED <<pending, mask, frames, status, owed>>
     \/ \E s \in Lowest(Deliverable) :
          LET handler == actions[s].handler
          IN  /\ pending' = pending \ {s}
              /\ owed' = owed \ {s}
              /\ \/ /\ \/ handler = "SIG_IGN"
                       \/ handler = "SIG_DFL" /\ s \in DefaultIgnored
                    /\ UNCHANGED <<mask, frames, status>>
                 \/ /\ handler = "SIG_DFL" /\ s \notin DefaultIgnored
                    /\ status' = "killed"
                    /\ UNCHANGED <<mask, frames>>
                 \/ handler = "handler" /\ EnterHandler(s)
  /\ UNCHANGED <<host, actions, scan, raised>>

-----------------------------------------------------------------------------

Emulate == GuestStep \/ EnterHost \/ TestFlag \/ ClearFlag \/ DeliverFlag \/ Dispatch

Next ==
  \/ Emulate
  \/ HostCompletes
  \/ \E s \in HostSignals : HostArrives(s)

\* The emulator's thread is scheduled; the host owes no signal and no completion.
Spec == Init /\ [][Next]_vars /\ WF_vars(Emulate)

-----------------------------------------------------------------------------
(* Properties.                                                             *)

\* The scan of collect_host_signals stays within the signals, and only signals that
\* register_host_signal_handlers registers are ever flagged.
TypeOK ==
  /\ host \subseteq HostSignals /\ pending \subseteq Signals /\ mask \subseteq Signals
  /\ actions \in [Signals -> Action]
  /\ frames \in Seq(Frame)
  /\ pc \in {"step", "entering", "blocked", "collect", "clear", "deliver", "dispatch"}
  /\ scan \in Signals
  /\ status \in {"running", "exited", "killed", "error"}

\* The host handler may run between the test, the clearing and the delivery of a
\* flag (Emulator.cpp:351-363).  A signal that has arrived and has not been acted on
\* is never forgotten: its flag is set, or it is being delivered, or it is pending.
NoHostSignalLost ==
  owed \subseteq host \cup pending \cup (IF pc = "deliver" THEN {scan} ELSE {})

\* set_signal_mask never blocks SIGKILL, but dispatch_pending_signal adds the mask
\* of an action as it is, and handle_sigreturn restores whatever mask was saved:
\* SIGKILL can be blocked while a handler runs, and only then.
KillBlockedOnlyInHandlers == Kill \in mask => frames # << >>

\* A handler is interrupted by its own signal only if it, or a handler that runs
\* on top of it, has unblocked signals: neither an action's mask nor the masks
\* restored by nested handlers that return can unblock it.
NoReentry ==
  \A i, j \in 1 .. Len(frames) :
    i < j /\ frames[i].signum = frames[j].signum =>
      \E k \in i .. j - 1 : frames[k].opened

\* "Forward selected host signals into the emulated guest signal path"
\* (Emulator.cpp:341): a host signal becomes pending in the guest, unless the guest
\* has ended before.
ForwardedEventually ==
  \A s \in HostSignals : s \in host ~> (s \in pending \/ status # "running")

\* Only a system call that blocks on the host can hold a host signal back: its flag
\* does not stay set while the loop of Emulator::exec runs.
ForwardedUnlessBlocked ==
  \A s \in HostSignals :
    s \in host ~> (s \in pending \/ pc = "blocked" \/ status # "running")

\* A signal that is pending and not blocked does not stay so: it is dispatched, or
\* the guest blocks it, waits on the host, or ends.  The loop dispatches one signal
\* per instruction, the lowest first, so this needs finitely many signals (MaxRaised).
DispatchedEventually ==
  \A s \in Signals :
    s \in pending \ mask ~>
      (s \notin pending \ mask \/ pc = "blocked" \/ status # "running")
=============================================================================
