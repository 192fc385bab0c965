--------------------------- MODULE MCMallocTracer ---------------------------
(***************************************************************************)
(* MallocTracer for TLC.                                                   *)
(***************************************************************************)
EXTENDS MallocTracer

\* m_entry_args is not read while no heap function is active.
View == <<guest, m_active_function, m_pending_free_ptr, records, clean,
          IF m_active_function = "None" THEN <<0, 0>> ELSE m_entry_args>>

\* Bound: histories that are no longer clean end at the last heap call.
Bounded == clean \/ calls < MaxCalls
=============================================================================
