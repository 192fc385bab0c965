-------------------------- MODULE MCMemorySyscalls --------------------------
(* Small instances of MemorySyscalls for TLC. *)
EXTENDS MemorySyscalls

\* An image in the first page, a stack further up.
ImageAndStack ==
  {NewRegion(0, PageSize, {"R", "X"}, "simple", 0),
   NewRegion(Space - 2 * PageSize, PageSize, {"R", "W"}, "simple", 0)}

TwoProts == {{"R"}, {"R", "W"}}

\* Zero pages, file contents, and file contents marked as uninitialized.
SomeOptions == {{}, {"FILE"}, {"FILE", "UNINITIALIZED"}}

\* What the last call returned and which it was is never read by a step.
View == <<memory, heap, status>>
=============================================================================
