---------------------------- MODULE AddressSpace ----------------------------
(***************************************************************************)
(* What a guest may expect of its memory, without regions: every address   *)
(* is unmapped or has permissions, a backing and a cell, and an operation  *)
(* on a range changes exactly the addresses of the range, whatever other   *)
(* mappings they were part of.  SoftMMU is shown to implement this.        *)
(*                                                                         *)
(* All ranges are whole pages, from page_align_down(base) over             *)
(* page_align_up(size) bytes.  A range that reaches the end of the address *)
(* space covers nothing: it cannot be mapped and unmapping or protecting   *)
(* it has no effect, or ends the emulator.                                 *)
(***************************************************************************)
EXTENDS Integers, Sequences

CONSTANTS PageSize, Space, Byte, FirstAllocation,
          Bases, Sizes, Prots, FileOffsets, Lengths, Offsets

VARIABLES
  mem,   \* for every address: Unmapped or its mapping
  next,  \* allocations are made at or above this address
  out,   \* how the last operation ended: "ok" or an exception
  call   \* the last operation and its arguments; turn changes with every call, so
         \* that an operation without effect is a step too

vars == <<mem, next, out, call>>

Call(op, base, size, prot, n, offset, cell) ==
  [op |-> op, base |-> base, size |-> size, prot |-> prot, n |-> n,
   offset |-> offset, cell |-> cell, turn |-> ~call.turn]

Addr == 0 .. Space - 1
ZeroCell == [value |-> 0, initialized |-> TRUE]
Cell == [value : Byte, initialized : BOOLEAN]

Unmapped == [mapped |-> FALSE, prot |-> {}, kind |-> "none", offset |-> 0,
             cell |-> ZeroCell]

Mapping(prot, kind, offset, cell) ==
  [mapped |-> TRUE, prot |-> prot, kind |-> kind, offset |-> offset, cell |-> cell]

Floor(x) == x - (x % PageSize)
Ceiling(x) == Floor((x + PageSize - 1) % Space)

\* The addresses of a range of pages.
Range(base, size) ==
  IF Floor(base) + Ceiling(size) < Space
  THEN Floor(base) .. Floor(base) + Ceiling(size) - 1 ELSE {}

\* A range that can be mapped.
Free(addresses) == addresses # {} /\ \A a \in addresses : ~mem[a].mapped

Fail(exception) == out' = exception /\ UNCHANGED mem

\* A step that gives the addresses of a set new contents and no other address.
Change(addresses, new(_)) ==
  /\ \A a \in addresses : mem'[a] = new(a)
  /\ \A a \in Addr \ addresses : mem'[a] = mem[a]
  /\ mem' = [a \in Addr |-> mem'[a]]

\* content(i) is the initial cell of byte i of the new mapping.
MapRange(base, size, prot, kind, file_offset, content(_)) ==
  Change(Range(base, size),
         LAMBDA a : Mapping(prot, kind,
                            IF kind = "mmap" THEN (file_offset + a - Floor(base)) % Space
                                             ELSE 0,
                            content(a - Floor(base))))

Init ==
  /\ mem = [a \in Addr |-> Unmapped]
  /\ next = FirstAllocation
  /\ out = "ok"
  /\ call = [op |-> "none", base |-> 0, size |-> 0, prot |-> {}, n |-> 0, offset |-> 0,
             cell |-> ZeroCell, turn |-> FALSE]

\* A mapping is made if and only if its range is not empty and is free.
Map(base, size, prot, kind, file_offset) ==
  IF Free(Range(base, size))
  THEN out' = "ok" /\ MapRange(base, size, prot, kind, file_offset, LAMBDA i : ZeroCell)
  ELSE Fail("EmulatorError")

MapBytes(base, size, prot, n, offset, byte) ==
  IF /\ Free(Range(base, size))
     /\ offset + n <= Ceiling(size)
  THEN /\ out' = "ok"
       /\ MapRange(base, size, prot, "simple", 0,
                   LAMBDA i : IF i \in offset .. offset + n - 1
                              THEN [value |-> byte, initialized |-> TRUE]
                              ELSE ZeroCell)
  ELSE Fail("EmulatorError")

\* In free space at or above next.  An allocation fails only if there is no such
\* space, and then it changes no mapping.
Allocate(size, prot, kind, file_offset) ==
  LET Fits == {a \in Addr : a % PageSize = 0 /\ a >= next /\ Free(Range(a, size))}
  IN  \/ \E base \in Fits :
           /\ out' = "ok"
           /\ next' = base + Ceiling(size)
           /\ MapRange(base, size, prot, kind, file_offset, LAMBDA i : ZeroCell)
      \/ /\ Fail("EmulatorError")
         /\ next' \in {a \in Addr : a >= next}
         /\ Fits = {}

\* Only a range that wraps around can end the emulator.
Abort(base, size) ==
  Floor(base) + Ceiling(size) > Space /\ Fail("length_error")

Unmap(base, size) ==
  \/ /\ out' = "ok"
     /\ Change(Range(base, size), LAMBDA a : Unmapped)
  \/ Abort(base, size)

Protect(base, size, prot) ==
  \/ /\ out' = "ok"
     /\ Change({a \in Range(base, size) : mem[a].mapped},
               LAMBDA a : Mapping(prot, mem[a].kind, mem[a].offset, mem[a].cell))
  \/ Abort(base, size)

\* Byte i of a range that may wrap around.
At(address, i) == (address + i) % Space

\* All bytes of a range have a permission up to byte i.
Open(address, i, perm) == \A j \in 0 .. i : perm \in mem[At(address, j)].prot

\* An access byte by byte: the bytes before the first one without the permission.
Access(address, n, perm, new(_)) ==
  /\ out' = IF Open(address, n - 1, perm) THEN "ok" ELSE "EmulatorError"
  /\ Change({At(address, i) : i \in {j \in 0 .. n - 1 : Open(address, j, perm)}},
            LAMBDA a : Mapping(mem[a].prot, mem[a].kind, mem[a].offset, new(mem[a].cell)))

Write(address, n, cell) == Access(address, n, "W", LAMBDA old : cell)

MarkInitialized(address, n, initialized) ==
  Access(address, n, "R", LAMBDA old : [value |-> old.value, initialized |-> initialized])

Next ==
  \/ /\ UNCHANGED next
     /\ \/ \E base \in Bases, size \in Sizes :
             \/ /\ call' = Call("unmap", base, size, {}, 0, 0, ZeroCell)
                /\ Unmap(base, size)
             \/ \E prot \in Prots :
                  /\ call' = Call("protect", base, size, prot, 0, 0, ZeroCell)
                  /\ Protect(base, size, prot)
        \/ \E address \in Bases, n \in Lengths :
             \/ \E cell \in Cell :
                  /\ call' = Call("write", address, 0, {}, n, 0, cell)
                  /\ Write(address, n, cell)
             \/ \E initialized \in BOOLEAN :
                  /\ call' = Call("mark_initialized", address, 0, {}, n, 0,
                                  [value |-> 0, initialized |-> initialized])
                  /\ MarkInitialized(address, n, initialized)
        \/ \E base \in Bases, size \in Sizes, prot \in Prots :
             \/ /\ call' = Call("map_zeroed", base, size, prot, 0, 0, ZeroCell)
                /\ Map(base, size, prot, "simple", 0)
             \/ \E file_offset \in FileOffsets :
                  /\ call' = Call("map_mmap", base, size, prot, 0, file_offset, ZeroCell)
                  /\ Map(base, size, prot, "mmap", file_offset)
             \/ \E n \in Lengths, offset \in Offsets, byte \in Byte :
                  /\ call' = Call("map_bytes", base, size, prot, n, offset,
                                  [value |-> byte, initialized |-> TRUE])
                  /\ MapBytes(base, size, prot, n, offset, byte)
  \/ \E size \in Sizes, prot \in Prots :
       \/ /\ call' = Call("allocate", 0, size, prot, 0, 0, ZeroCell)
          /\ Allocate(size, prot, "simple", 0)
       \/ \E file_offset \in FileOffsets :
            /\ call' = Call("allocate_mmap", 0, size, prot, 0, file_offset, ZeroCell)
            /\ Allocate(size, prot, "mmap", file_offset)

Spec == Init /\ [][Next]_vars
=============================================================================
