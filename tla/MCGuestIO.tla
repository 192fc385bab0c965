----------------------------- MODULE MCGuestIO -----------------------------
(* A small instance of GuestIO for TLC. *)
EXTENDS GuestIO

ThreeBytes == <<3, 4, 5>>

\* sent and call are only read by the properties of the step that writes them.
View == <<mem, input, ended>>
=============================================================================
