----------------------------- MODULE MCSoftMMU -----------------------------
(* Small instances of SoftMMU for TLC. *)
EXTENDS SoftMMU

TwoProts == {{"R"}, {"R", "W"}}

\* No step reads what the last call was, except whether it ended the emulator.
View == <<m_regions, m_next_allocation, out = "length_error">>
=============================================================================
