---------------------------- MODULE MallocTracer ----------------------------
(***************************************************************************)
(* The malloc tracer (MallocTracer.cpp), which follows the guest's heap    *)
(* calls by looking at the instruction pointer after every instruction,    *)
(* and audits the guest's loads and stores.                                *)
(*                                                                         *)
(* The guest's allocator is part of the guest: it is modelled by what an   *)
(* allocator may do (blocks that are apart, moving reallocs, failures) and *)
(* is marked external.  The guest is seen at the points where the tracer   *)
(* acts: the entry of a heap function, a return to the program, the start  *)
(* of a signal handler that interrupts a heap function, and every store.   *)
(* Handlers make no heap calls.                                            *)
(*                                                                         *)
(* What the tracer reports of a free, a load or a store is a function of   *)
(* its state: FreeReport, ReadReport and WriteReport.  Texts, backtraces,  *)
(* and the suppression of repeated reports are left out, and so are the    *)
(* report of a realloc that gets a pointer without a record, and that      *)
(* record_allocation marks the block as initialized in the MMU's shadow,   *)
(* which nothing here reads.                                               *)
(***************************************************************************)
EXTENDS Integers, FiniteSets

CONSTANTS
  HeapSize,      \* heap addresses are 1 .. HeapSize
  Gap,           \* the least distance between two blocks: a chunk header
  Sizes,         \* sizes the guest asks for
  redzone_size,
  max_tracked_init_bytes,
  MaxCalls       \* bound: heap calls, those that libc makes included

ASSUME TracerAssumption ==
  /\ HeapSize \in Nat \ {0} /\ Gap \in Nat \ {0}
  /\ Sizes \subseteq Nat
  /\ redzone_size \in Nat /\ max_tracked_init_bytes \in Nat /\ MaxCalls \in Nat

Heap == 1 .. HeapSize
Pointers == {0} \cup Heap

VARIABLES
  blocks,              \* the allocator's live blocks, by address: size, whether
                       \* the program itself asked for it, offsets written so far
  where,               \* "app", "libc" in a heap call, "handler" during a heap
                       \* call, or "aborted" by the allocator
  call,                \* the heap call in progress: function, arguments
  calls,               \* heap calls so far
  result,              \* what it returns, once the allocator has done it, or -1
  entry,               \* the heap call has not executed an instruction yet
  m_active_function,
  m_entry_args,
  m_pending_free_ptr,
  m_allocations,       \* records of live allocations by address: size and the
                       \* offsets that count as initialized
  m_freed,             \* sizes of freed allocations, by address
  clean                \* history: no heap call has been interrupted, no realloc of a
                       \* block has failed or met a block that libc asked for, and
                       \* libc has freed no block of the program's

guest == <<blocks, where, call, calls, result, entry>>
active == <<m_active_function, m_entry_args, m_pending_free_ptr>>
records == <<m_allocations, m_freed>>
vars == <<guest, active, records, clean>>

Functions == {"Malloc", "Free", "Realloc", "Calloc"}
NoCall == [function |-> "None", args |-> <<0, 0>>]

EmptyMap == [p \in {} |-> 0]
Put(map, key, value) ==
  [p \in DOMAIN map \cup {key} |-> IF p = key THEN value ELSE map[p]]
Drop(map, key) == [p \in DOMAIN map \ {key} |-> map[p]]

Smaller(a, b) == IF a < b THEN a ELSE b

Init ==
  /\ blocks = EmptyMap /\ where = "app"
  /\ call = NoCall /\ calls = 0 /\ result = -1 /\ entry = FALSE
  /\ m_active_function = "None" /\ m_entry_args = <<0, 0>> /\ m_pending_free_ptr = 0
  /\ m_allocations = EmptyMap /\ m_freed = EmptyMap
  /\ clean = TRUE

-----------------------------------------------------------------------------
(* Records.                                                                *)

\* Offsets that count as initialized: all of them, too, when the block is too large
\* to be tracked.
InitialMap(size, initialized) ==
  IF initialized \/ size > max_tracked_init_bytes THEN 0 .. size - 1 ELSE {}

Record(size, initialized) == [size |-> size, initialized |-> InitialMap(size, initialized)]

\* Faulty: leaves the record of an earlier block at this address in m_freed.
record_allocation_keeps_freed(allocations, freed, ptr, record) ==
  /\ m_allocations' = Put(allocations, ptr, record)
  /\ m_freed' = freed

record_allocation(allocations, freed, ptr, record) ==
  /\ m_allocations' = Put(allocations, ptr, record)
  /\ m_freed' = Drop(freed, ptr)

\* move_to_freed, as the maps it leaves.
MovedAllocations(ptr) == Drop(m_allocations, ptr)
MovedFreed(ptr) ==
  IF ptr \in DOMAIN m_allocations THEN Put(m_freed, ptr, m_allocations[ptr].size) ELSE m_freed

\* live_allocation_containing and freed_allocation_containing look only at the
\* record with the highest address that is not above the one looked up.
Nearest(map, address) ==
  {p \in DOMAIN map : p <= address /\ \A q \in DOMAIN map : q <= address => q <= p}

LiveContaining(address) ==
  {p \in Nearest(m_allocations, address) : address < p + m_allocations[p].size}

FreedContaining(address) ==
  {p \in Nearest(m_freed, address) : address < p + m_freed[p]}

-----------------------------------------------------------------------------
(* Entering and leaving a heap function.                                   *)

\* Faulty: takes a pointer into a block for one to its start.
FreeReport_interior(ptr) ==
  IF ptr = 0 THEN "none"
  ELSE IF ptr \in DOMAIN m_freed THEN "double free"
  ELSE IF LiveContaining(ptr) = {} THEN "invalid free"
  ELSE "none"

\* What on_free_enter reports.
FreeReport(ptr) ==
  IF ptr = 0 THEN "none"
  ELSE IF ptr \in DOMAIN m_freed THEN "double free"
  ELSE IF ptr \notin DOMAIN m_allocations THEN "invalid free"
  ELSE "none"

\* step at the entry of a heap function called by the program while none is active,
\* on_function_enter and on_free_enter.
Entered(function, args) ==
  /\ m_active_function' = function
  /\ m_entry_args' = args
  /\ m_pending_free_ptr' =
       IF function # "Free" THEN m_pending_free_ptr
       ELSE IF FreeReport(args[1]) = "none" THEN args[1] ELSE 0
  /\ UNCHANGED records

\* on_malloc_leave.
MallocLeft(rax) ==
  IF rax = 0 THEN UNCHANGED records
  ELSE record_allocation(m_allocations, m_freed, rax, Record(m_entry_args[1], FALSE))

\* on_calloc_leave.
CallocLeft(rax) ==
  IF rax = 0 THEN UNCHANGED records
  ELSE record_allocation(m_allocations, m_freed, rax,
                         Record(m_entry_args[1] * m_entry_args[2], TRUE))

\* move_to_freed.
move_to_freed(ptr) ==
  /\ m_allocations' = MovedAllocations(ptr)
  /\ m_freed' = MovedFreed(ptr)

\* on_free_leave.
FreeLeft ==
  IF m_pending_free_ptr = 0 THEN UNCHANGED records ELSE move_to_freed(m_pending_free_ptr)

\* Faulty: one byte too many.
Preserved_inclusive(old_size, new_size) == 0 .. Smaller(old_size, new_size)

\* Faulty: the contents that realloc has copied count as uninitialized.
Preserved_nothing(old_size, new_size) == {}

\* What realloc has kept of the old contents counts as initialized.
Preserved(old_size, new_size) == 0 .. Smaller(old_size, new_size) - 1

\* Faulty: a block that realloc has moved stays recorded at its old place too.
ReallocMoved_keeps_old(old_ptr, rax, record) ==
  record_allocation(m_allocations, m_freed, rax, record)

\* realloc has handed out rax for old_ptr.
ReallocMoved(old_ptr, rax, record) ==
  record_allocation(MovedAllocations(old_ptr), MovedFreed(old_ptr), rax, record)

\* on_realloc_leave.
ReallocLeft(rax) ==
  LET old_ptr == m_entry_args[1]
      new_size == m_entry_args[2]
      old_size == IF old_ptr \in DOMAIN m_allocations THEN m_allocations[old_ptr].size ELSE 0
      fresh == Record(new_size, FALSE)
      kept == [fresh EXCEPT !.initialized = @ \cup Preserved(old_size, new_size)]
  IN  \/ old_ptr = 0 /\ rax = 0 /\ UNCHANGED records
      \/ old_ptr = 0 /\ rax # 0 /\ record_allocation(m_allocations, m_freed, rax, fresh)
      \/ old_ptr # 0 /\ (new_size = 0 \/ rax = 0) /\ move_to_freed(old_ptr)
      \/ old_ptr # 0 /\ new_size # 0 /\ rax # 0 /\ ReallocMoved(old_ptr, rax, kept)

\* step at an instruction of the program: a heap function that was active has been
\* left, with its result in RAX.
Left(rax) ==
  /\ \/ m_active_function = "None" /\ UNCHANGED records
     \/ m_active_function = "Malloc" /\ MallocLeft(rax)
     \/ m_active_function = "Calloc" /\ CallocLeft(rax)
     \/ m_active_function = "Realloc" /\ ReallocLeft(rax)
     \/ m_active_function = "Free" /\ FreeLeft
  /\ m_active_function' = "None"
  /\ m_pending_free_ptr' = IF m_active_function = "Free" THEN 0 ELSE m_pending_free_ptr
  /\ UNCHANGED m_entry_args

-----------------------------------------------------------------------------
(* The guest's allocator.                                                  *)

\* Places where a block of a size fits between the others.
Places(others, size) ==
  {p \in Heap : /\ p + size <= HeapSize + 1
                /\ \A q \in DOMAIN others :
                     \/ p + size + Gap <= q
                     \/ q + others[q].size + Gap <= p}

Block(size, own, written) == [size |-> size, own |-> own, written |-> written]

\* An allocation, which may fail.
Allocated(others, size, written) ==
  \/ \E p \in Places(others, size) :
       result' = p /\ blocks' = Put(others, p, Block(size, TRUE, written))
  \/ result' = 0 /\ UNCHANGED blocks

\* What the allocator does for the call in progress.  A pointer that is not a block
\* makes it abort.
Perform ==
  LET a == call.args[1]
      b == call.args[2]
  IN  /\ where = "libc" /\ result = -1 /\ entry' = FALSE
      /\ \/ /\ call.function = "Malloc" /\ Allocated(blocks, a, {})
            /\ UNCHANGED <<where, clean>>
         \/ /\ call.function = "Calloc" /\ Allocated(blocks, a * b, 0 .. a * b - 1)
            /\ UNCHANGED <<where, clean>>
         \/ /\ call.function = "Realloc" /\ a = 0 /\ Allocated(blocks, b, {})
            /\ UNCHANGED <<where, clean>>
         \/ /\ call.function = "Free" /\ a \in DOMAIN blocks \cup {0}
            /\ result' = 0 /\ blocks' = Drop(blocks, a)
            /\ UNCHANGED <<where, clean>>
         \/ /\ call.function = "Realloc" /\ a \in DOMAIN blocks /\ b = 0
            /\ result' = 0 /\ blocks' = Drop(blocks, a)
            /\ UNCHANGED <<where, clean>>
         \/ /\ call.function = "Realloc" /\ a \in DOMAIN blocks /\ b # 0
            /\ Allocated(Drop(blocks, a), b, blocks[a].written \cap 0 .. b - 1)
            /\ clean' = (clean /\ result' # 0 /\ blocks[a].own)
            /\ UNCHANGED where
         \/ /\ call.function \in {"Free", "Realloc"} /\ a \notin DOMAIN blocks \cup {0}
            /\ where' = "aborted"
            /\ UNCHANGED <<blocks, result, clean>>
      /\ UNCHANGED <<call, calls, active, records>>

-----------------------------------------------------------------------------
(* The guest.                                                              *)

\* The program calls a heap function, with any pointer.
CallHeap(function, a, b) ==
  /\ where = "app" /\ where' = "libc"
  /\ calls < MaxCalls /\ calls' = calls + 1
  /\ call' = [function |-> function, args |-> <<a, b>>] /\ result' = -1 /\ entry' = TRUE
  /\ Entered(function, <<a, b>>)
  /\ UNCHANGED <<blocks, clean>>

\* The heap function returns to the program.
Return ==
  /\ where = "libc" /\ result # -1
  /\ where' = "app" /\ call' = NoCall /\ result' = -1
  /\ Left(result)
  /\ UNCHANGED <<blocks, calls, entry, clean>>

\* A signal handler of the guest interrupts the heap function.  The tracer sees an
\* instruction of the program, and RAX holds whatever it held in the allocator.  The
\* call may have executed instructions before.
Interrupt ==
  /\ where = "libc" /\ where' = "handler"
  /\ entry' \in {entry, FALSE}
  /\ \E rax \in Pointers : Left(rax)
  /\ clean' = FALSE
  /\ UNCHANGED <<blocks, call, calls, result>>

\* rt_sigreturn resumes the heap function.  Where that is its entry, step takes it for
\* another call from the program.
HandlerReturn ==
  /\ where = "handler" /\ where' = "libc"
  /\ IF entry THEN Entered(call.function, call.args) ELSE UNCHANGED <<active, records>>
  /\ UNCHANGED <<blocks, call, calls, result, entry, clean>>

\* What a store leaves in the block it hits, if it hits one.
Hit(address) == {p \in DOMAIN blocks : p <= address /\ address < p + blocks[p].size}

Stored(address) ==
  blocks' = [p \in DOMAIN blocks |->
               IF p \in Hit(address)
               THEN [blocks[p] EXCEPT !.written = @ \cup {address - p}]
               ELSE blocks[p]]

\* The byte is marked in the record that contains it.
Marked(address) ==
  m_allocations' = [p \in DOMAIN m_allocations |->
                      IF p \in LiveContaining(address)
                      THEN [m_allocations[p] EXCEPT !.initialized = @ \cup {address - p}]
                      ELSE m_allocations[p]]

\* Live records in whose red zone an address lies.
InRedzone(address) ==
  {p \in DOMAIN m_allocations :
     LET end == p + m_allocations[p].size
     IN  end <= address /\ address < end + redzone_size}

\* What on_memory_write reports of a store by the program.
WriteReport(address) ==
  IF FreedContaining(address) # {} THEN "use-after-free"
  ELSE IF InRedzone(address) # {} THEN "heap overflow"
  ELSE "none"

\* What on_memory_read reports of a load by the program.
ReadReport(address) ==
  IF FreedContaining(address) # {} THEN "use-after-free"
  ELSE IF \E p \in LiveContaining(address) : address - p \notin m_allocations[p].initialized
  THEN "uninitialized"
  ELSE "none"

\* Code of the program runs and no heap function is active: loads and stores are
\* audited.
InProgram == where \in {"app", "handler"} /\ m_active_function = "None"

\* A store of the program's to any heap address, or of a function of libc such as
\* memcpy that it calls: on_memory_write.
Write(address) ==
  /\ InProgram
  /\ Stored(address) /\ Marked(address)
  /\ UNCHANGED <<where, call, calls, result, entry, active, m_freed, clean>>

\* A store by the allocator, to its own data between and after the live blocks.
AllocatorWrite(address) ==
  /\ where = "libc" /\ Hit(address) = {}
  /\ Marked(address)
  /\ entry' = FALSE
  /\ UNCHANGED <<blocks, where, call, calls, result, active, m_freed, clean>>

\* A function of libc allocates a block for the program, and fills it (strdup):
\* step ignores the call because it comes from libc (caller_is_internal).
InternalAlloc(size) ==
  /\ where = "app"
  /\ calls < MaxCalls /\ calls' = calls + 1
  /\ \E p \in Places(blocks, size) :
       blocks' = Put(blocks, p, Block(size, FALSE, 0 .. size - 1))
  /\ UNCHANGED <<where, call, result, entry, active, records, clean>>

\* A function of libc frees a block.
InternalFree(p) ==
  /\ where = "app"
  /\ calls < MaxCalls /\ calls' = calls + 1
  /\ blocks' = Drop(blocks, p)
  /\ clean' = (clean /\ ~blocks[p].own)
  /\ UNCHANGED <<where, call, result, entry, active, records>>

Next ==
  \/ \E n \in Sizes : CallHeap("Malloc", n, 0)
  \/ \E m, n \in Sizes : CallHeap("Calloc", m, n)
  \/ \E p \in Pointers : CallHeap("Free", p, 0)
  \/ \E p \in Pointers, n \in Sizes \cup {0} : CallHeap("Realloc", p, n)
  \/ Perform
  \/ Return
  \/ Interrupt
  \/ HandlerReturn
  \/ \E a \in Heap : Write(a) \/ AllocatorWrite(a)
  \/ \E n \in Sizes : InternalAlloc(n)
  \/ \E p \in DOMAIN blocks : InternalFree(p)

Spec == Init /\ [][Next]_vars

-----------------------------------------------------------------------------
(* Properties.                                                             *)

Own == {p \in DOMAIN blocks : blocks[p].own}

\* Types; in particular no record marks a byte beyond its block.
TypeOK ==
  /\ DOMAIN blocks \subseteq Heap
  /\ \A p \in DOMAIN blocks : blocks[p].written \subseteq 0 .. blocks[p].size - 1
  /\ where \in {"app", "libc", "handler", "aborted"}
  /\ result \in {-1} \cup Pointers /\ entry \in BOOLEAN
  /\ m_active_function \in Functions \cup {"None"}
  /\ m_pending_free_ptr \in Pointers
  /\ DOMAIN m_allocations \subseteq Heap /\ DOMAIN m_freed \subseteq Heap
  /\ \A p \in DOMAIN m_allocations :
       m_allocations[p].initialized \subseteq 0 .. m_allocations[p].size - 1

\* No pointer is recorded as live and as freed, whatever interrupts the heap functions,
\* at their entry or later: on_free_enter asks m_freed first, and would report the free
\* of a live block as a double free.
LiveAndFreedApart == DOMAIN m_allocations \cap DOMAIN m_freed = {}

\* As long as no heap call has been interrupted, no realloc has failed and libc has
\* not freed what the program allocated, the records are the program's live blocks
\* with their sizes whenever the program runs: what is left of them at the end is
\* what dump_leak_report reports.
RecordsAreExact ==
  clean /\ where = "app" =>
    /\ DOMAIN m_allocations = Own
    /\ \A p \in Own : m_allocations[p].size = blocks[p].size

\* Under the same condition on_free_enter keeps quiet about a free exactly when the
\* pointer is null or a live block of the program's.
FreeReportsAreExact ==
  clean /\ where = "app" =>
    \A ptr \in Pointers : FreeReport(ptr) = "none" <=> ptr \in Own \cup {0}

\* Under the same condition on_memory_read reports an uninitialized read only of a
\* byte that nobody has written since its block was allocated, however often realloc
\* has moved it, and whether the program or libc has written it.
UninitializedReportsAreReal ==
  clean /\ where = "app" =>
    \A a \in Heap : ReadReport(a) = "uninitialized" =>
      \A p \in Hit(a) : a - p \notin blocks[p].written

\* A use after free or an overflow is reported only of an address that lies in no
\* live block of the program's.
LiveBytesAreNotReported ==
  clean /\ where = "app" =>
    \A a \in Heap, p \in Own :
      p \in Hit(a) => /\ WriteReport(a) = "none"
                     /\ ReadReport(a) # "use-after-free"
=============================================================================
