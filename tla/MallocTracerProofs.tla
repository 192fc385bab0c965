------------------------- MODULE MallocTracerProofs -------------------------
(***************************************************************************)
(* What the tracer records of the guest's heap and what it reports, for    *)
(* every heap, every size and every interleaving with signal handlers.     *)
(*                                                                         *)
(* The records are apart and well formed whatever interrupts the heap      *)
(* functions.  That they are the program's live blocks needs an invariant  *)
(* that also speaks of a heap call in progress: IInv, below.               *)
(***************************************************************************)
EXTENDS MallocTracer, TLAPS

\* Entering a live record, on top of any records that are apart, leaves the records
\* apart (MallocTracer::record_allocation).
LEMMA RecordKeepsApart ==
  ASSUME NEW allocations, NEW freed, NEW ptr, NEW record,
         DOMAIN allocations \cap DOMAIN freed = {},
         record_allocation(allocations, freed, ptr, record)
  PROVE  LiveAndFreedApart'
<1>1. DOMAIN m_allocations' = DOMAIN allocations \cup {ptr}
  BY DEF record_allocation, Put
<1>2. DOMAIN m_freed' = DOMAIN freed \ {ptr}
  BY DEF record_allocation, Drop
<1> QED BY <1>1, <1>2 DEF LiveAndFreedApart

\* The records that MallocTracer::move_to_freed leaves are apart.
LEMMA MovedApart ==
  ASSUME NEW ptr, LiveAndFreedApart
  PROVE  DOMAIN MovedAllocations(ptr) \cap DOMAIN MovedFreed(ptr) = {}
<1>1. DOMAIN MovedAllocations(ptr) = DOMAIN m_allocations \ {ptr}
  BY DEF MovedAllocations, Drop
<1>2. DOMAIN MovedFreed(ptr) \subseteq DOMAIN m_freed \cup {ptr}
  BY DEF MovedFreed, Put
<1> QED BY <1>1, <1>2 DEF LiveAndFreedApart

\* Leaving a heap function keeps the records apart, whatever RAX holds: the step of
\* the tracer at a return, and at the start of a handler.
LEMMA LeftKeepsApart ==
  ASSUME NEW rax, LiveAndFreedApart, Left(rax)
  PROVE  LiveAndFreedApart'
<1>1. ASSUME UNCHANGED records PROVE LiveAndFreedApart'
  BY <1>1 DEF LiveAndFreedApart, records
<1>2. ASSUME NEW ptr, move_to_freed(ptr) PROVE LiveAndFreedApart'
  BY <1>2, MovedApart DEF move_to_freed, LiveAndFreedApart
<1>3. ASSUME NEW ptr, NEW record, record_allocation(m_allocations, m_freed, ptr, record)
      PROVE  LiveAndFreedApart'
  <2>1. DOMAIN m_allocations \cap DOMAIN m_freed = {}
    BY DEF LiveAndFreedApart
  <2> QED BY <1>3, <2>1, RecordKeepsApart
<1>4. ASSUME NEW ptr, NEW record, ReallocMoved(ptr, rax, record)
      PROVE  LiveAndFreedApart'
  <2>1. DOMAIN MovedAllocations(ptr) \cap DOMAIN MovedFreed(ptr) = {}
    BY MovedApart
  <2>2. record_allocation(MovedAllocations(ptr), MovedFreed(ptr), rax, record)
    BY <1>4 DEF ReallocMoved
  <2> QED BY <2>1, <2>2, RecordKeepsApart
<1>5. CASE m_active_function = "None" /\ UNCHANGED records
  BY <1>5, <1>1
<1>6. CASE m_active_function = "Malloc" /\ MallocLeft(rax)
  BY <1>6, <1>1, <1>3 DEF MallocLeft
<1>7. CASE m_active_function = "Calloc" /\ CallocLeft(rax)
  BY <1>7, <1>1, <1>3 DEF CallocLeft
<1>8. CASE m_active_function = "Realloc" /\ ReallocLeft(rax)
  BY <1>8, <1>1, <1>2, <1>3, <1>4 DEF ReallocLeft
<1>9. CASE m_active_function = "Free" /\ FreeLeft
  BY <1>9, <1>1, <1>2 DEF FreeLeft
<1> QED BY <1>5, <1>6, <1>7, <1>8, <1>9 DEF Left

-----------------------------------------------------------------------------
(* The invariant.  Between the allocator's work and the return of a heap   *)
(* call the records lag behind the blocks by what the return will change.  *)

BlockSet == [size : Nat, own : BOOLEAN, written : SUBSET Nat]
RecordSet == [size : Nat, initialized : SUBSET Nat]

Apart(map) ==
  \A p, q \in DOMAIN map :
    p # q => p + map[p].size + Gap <= q \/ q + map[q].size + Gap <= p

BlocksOK(map) ==
  /\ DOMAIN map \subseteq Heap
  /\ \A p \in DOMAIN map : map[p] \in BlockSet /\ map[p].written \subseteq 0 .. map[p].size - 1
  /\ Apart(map)

RecordsOK(map) ==
  /\ DOMAIN map \subseteq Heap
  /\ \A p \in DOMAIN map :
       map[p] \in RecordSet /\ map[p].initialized \subseteq 0 .. map[p].size - 1

Typed ==
  /\ BlocksOK(blocks) /\ RecordsOK(m_allocations) /\ DOMAIN m_freed \subseteq Heap
  /\ where \in {"app", "libc", "handler", "aborted"}
  /\ call.args \in Nat \X Nat /\ m_entry_args \in Nat \X Nat
  /\ call.function \in Functions \cup {"None"}
  /\ call.function = "Free" => call.args[1] \in Pointers
  /\ result \in {-1} \cup Pointers /\ entry \in BOOLEAN
  /\ m_active_function \in Functions \cup {"None"}
  /\ m_pending_free_ptr \in Pointers
  /\ clean \in BOOLEAN

\* The record that the return of the call will remove, and the block that it will enter.
Gone == IF call.function \in {"Free", "Realloc"} THEN {call.args[1]} ELSE {}
New == IF call.function # "Free" /\ result # 0 THEN {result} ELSE {}

Matches(gone, new) ==
  /\ Own = (DOMAIN m_allocations \ gone) \cup new
  /\ \A p \in Own \ new :
       /\ m_allocations[p].size = blocks[p].size
       /\ blocks[p].written \subseteq m_allocations[p].initialized

\* The new block is what the record that the return will enter says.
Announced(p) ==
  LET a == call.args[1]
      b == call.args[2]
  IN  /\ call.function = "Malloc" => blocks[p].size = a /\ blocks[p].written = {}
      /\ call.function = "Calloc" => blocks[p].size = a * b
      /\ call.function = "Realloc" /\ a = 0 => blocks[p].size = b /\ blocks[p].written = {}
      /\ call.function = "Realloc" /\ a # 0 =>
           /\ b # 0 /\ a \in DOMAIN m_allocations
           /\ blocks[p].size = b
           /\ blocks[p].written \subseteq 0 .. Smaller(m_allocations[a].size, b) - 1

InCall ==
  /\ call.function \in Functions
  /\ m_active_function = call.function /\ m_entry_args = call.args
  /\ call.function = "Free" =>
       m_pending_free_ptr = IF call.args[1] \in DOMAIN m_allocations THEN call.args[1] ELSE 0
  /\ result = -1 => Matches({}, {})
  /\ result # -1 =>
       /\ Matches(Gone, New)
       /\ \A p \in New : Announced(p)
       /\ call.function = "Realloc" /\ call.args[1] # 0 => call.args[2] = 0 \/ result # 0

Tracked ==
  clean => /\ where # "handler"
           /\ where = "app" => m_active_function = "None" /\ Matches({}, {})
           /\ where = "libc" => InCall

IInv == Typed /\ LiveAndFreedApart /\ Tracked

-----------------------------------------------------------------------------
(* Lemmas on the maps of blocks and of records.                            *)

\* A place for a block is not the address of another block, and the blocks with the
\* new one are apart.
LEMMA PutBlock ==
  ASSUME NEW others, BlocksOK(others), NEW size \in Nat, NEW own \in BOOLEAN,
         NEW written, written \subseteq 0 .. size - 1, NEW p \in Places(others, size)
  PROVE  /\ p \in Heap /\ p \notin DOMAIN others
         /\ BlocksOK(Put(others, p, Block(size, own, written)))
<1> DEFINE new == Put(others, p, Block(size, own, written))
<1>1. p \in Heap /\ HeapSize \in Nat /\ Gap \in Nat /\ Gap > 0
  BY TracerAssumption DEF Places
<1>2. p \in Nat
  BY <1>1 DEF Heap
<1>3. \A q \in DOMAIN others : q \in Nat /\ others[q].size \in Nat
  BY <1>1 DEF BlocksOK, BlockSet, Heap
<1>4. \A q \in DOMAIN others :
        p + size + Gap <= q \/ q + others[q].size + Gap <= p
  BY DEF Places
<1>5. p \notin DOMAIN others
  BY <1>1, <1>2, <1>3, <1>4
<1>6. /\ DOMAIN new = DOMAIN others \cup {p}
      /\ new[p] = Block(size, own, written)
      /\ \A q \in DOMAIN others : new[q] = others[q]
  BY <1>5 DEF Put
<1>7. /\ Block(size, own, written) \in BlockSet
      /\ Block(size, own, written).size = size
      /\ Block(size, own, written).written = written
  BY DEF Block, BlockSet
<1> HIDE DEF new
<1>8. DOMAIN new \subseteq Heap
  BY <1>1, <1>6 DEF BlocksOK
<1>9. \A q \in DOMAIN new : new[q] \in BlockSet /\ new[q].written \subseteq 0 .. new[q].size - 1
  BY <1>6, <1>7 DEF BlocksOK
<1>10. Apart(new)
  <2> SUFFICES ASSUME NEW q \in DOMAIN new, NEW r \in DOMAIN new, q # r
               PROVE  q + new[q].size + Gap <= r \/ r + new[r].size + Gap <= q
    BY DEF Apart
  <2>1. CASE q \in DOMAIN others /\ r \in DOMAIN others
    BY <2>1, <1>6 DEF BlocksOK, Apart
  <2>2. CASE q = p /\ r \in DOMAIN others
    BY <2>2, <1>4, <1>6, <1>7
  <2>3. CASE r = p /\ q \in DOMAIN others
    BY <2>3, <1>4, <1>6, <1>7
  <2> QED BY <2>1, <2>2, <2>3, <1>6
<1>11. BlocksOK(new)
  BY <1>8, <1>9, <1>10 DEF BlocksOK
<1> QED BY <1>1, <1>5, <1>11 DEF new

\* The blocks without one are apart.
LEMMA DropBlock ==
  ASSUME NEW map, BlocksOK(map), NEW p
  PROVE  BlocksOK(Drop(map, p))
<1>1. DOMAIN Drop(map, p) = DOMAIN map \ {p}
  BY DEF Drop
<1>2. \A q \in DOMAIN Drop(map, p) : q \in DOMAIN map /\ Drop(map, p)[q] = map[q]
  BY DEF Drop
<1> QED BY <1>1, <1>2 DEF BlocksOK, Apart

\* A store changes no block but the bytes written of the one it hits.
LEMMA StoredBlocks ==
  ASSUME NEW a \in Heap, BlocksOK(blocks), Stored(a)
  PROVE  /\ DOMAIN blocks' = DOMAIN blocks
         /\ \A p \in DOMAIN blocks :
              /\ blocks'[p].size = blocks[p].size /\ blocks'[p].own = blocks[p].own
              /\ p \in Hit(a) => blocks'[p].written = blocks[p].written \cup {a - p}
              /\ p \notin Hit(a) => blocks'[p] = blocks[p]
         /\ BlocksOK(blocks')
<1>1. a \in Nat /\ \A p \in DOMAIN blocks : p \in Nat
  BY TracerAssumption DEF Heap, BlocksOK
<1>2. DOMAIN blocks' = DOMAIN blocks
  BY DEF Stored
<1>3. \A p \in DOMAIN blocks :
        /\ blocks'[p] \in BlockSet
        /\ blocks'[p].size = blocks[p].size /\ blocks'[p].own = blocks[p].own
        /\ p \in Hit(a) => blocks'[p].written = blocks[p].written \cup {a - p}
        /\ p \notin Hit(a) => blocks'[p] = blocks[p]
  <2> TAKE p \in DOMAIN blocks
  <2>0. blocks[p] \in BlockSet
    BY DEF BlocksOK
  <2>1. CASE p \in Hit(a)
    <3>1. blocks'[p] = [blocks[p] EXCEPT !.written = @ \cup {a - p}]
      BY <2>1 DEF Stored
    <3>2. a - p \in Nat
      BY <2>1, <1>1 DEF Hit
    <3> QED BY <2>0, <2>1, <3>1, <3>2 DEF BlockSet
  <2>2. CASE p \notin Hit(a)
    BY <2>0, <2>2 DEF Stored
  <2> QED BY <2>1, <2>2
<1>4. \A p \in DOMAIN blocks : blocks'[p].written \subseteq 0 .. blocks'[p].size - 1
  <2> TAKE p \in DOMAIN blocks
  <2>1. blocks[p].written \subseteq 0 .. blocks[p].size - 1 /\ blocks[p].size \in Nat
    BY DEF BlocksOK, BlockSet
  <2>2. p \in Hit(a) => a - p \in 0 .. blocks[p].size - 1
    BY <1>1, <2>1 DEF Hit
  <2> QED BY <1>3, <2>1, <2>2
<1>5. Apart(blocks')
  BY <1>2, <1>3 DEF BlocksOK, Apart
<1>6. BlocksOK(blocks')
  BY <1>2, <1>3, <1>4, <1>5 DEF BlocksOK
<1> QED BY <1>2, <1>3, <1>6

\* What a record is given fits its size (add_allocation).
LEMMA RecordFits ==
  ASSUME NEW size \in Nat, NEW initialized \in BOOLEAN
  PROVE  /\ Record(size, initialized) \in RecordSet
         /\ Record(size, initialized).size = size
         /\ Record(size, initialized).initialized \subseteq 0 .. size - 1
         /\ initialized => Record(size, initialized).initialized = 0 .. size - 1
BY DEF Record, RecordSet, InitialMap

LEMMA PutRecord ==
  ASSUME NEW map, RecordsOK(map), NEW ptr \in Heap, NEW record \in RecordSet,
         record.initialized \subseteq 0 .. record.size - 1
  PROVE  RecordsOK(Put(map, ptr, record))
BY DEF RecordsOK, Put

LEMMA DropRecord ==
  ASSUME NEW map, RecordsOK(map), NEW ptr
  PROVE  RecordsOK(Drop(map, ptr))
BY DEF RecordsOK, Drop

\* A mark changes no record but the offsets initialized of the one that contains the
\* byte (MallocTracer::on_memory_write).
LEMMA MarkedRecords ==
  ASSUME NEW a \in Heap, RecordsOK(m_allocations), Marked(a)
  PROVE  /\ DOMAIN m_allocations' = DOMAIN m_allocations
         /\ \A p \in DOMAIN m_allocations :
              /\ m_allocations'[p].size = m_allocations[p].size
              /\ m_allocations[p].initialized \subseteq m_allocations'[p].initialized
              /\ p \in LiveContaining(a) => a - p \in m_allocations'[p].initialized
         /\ RecordsOK(m_allocations')
<1>1. a \in Nat /\ \A p \in DOMAIN m_allocations : p \in Nat
  BY TracerAssumption DEF Heap, RecordsOK
<1>2. DOMAIN m_allocations' = DOMAIN m_allocations
  BY DEF Marked
<1>3. \A p \in DOMAIN m_allocations :
        /\ m_allocations'[p] \in RecordSet
        /\ m_allocations'[p].size = m_allocations[p].size
        /\ p \in LiveContaining(a) =>
             m_allocations'[p].initialized = m_allocations[p].initialized \cup {a - p}
        /\ p \notin LiveContaining(a) => m_allocations'[p] = m_allocations[p]
  <2> TAKE p \in DOMAIN m_allocations
  <2>0. m_allocations[p] \in RecordSet
    BY DEF RecordsOK
  <2>1. CASE p \in LiveContaining(a)
    <3>1. m_allocations'[p] = [m_allocations[p] EXCEPT !.initialized = @ \cup {a - p}]
      BY <2>1 DEF Marked
    <3>2. a - p \in Nat
      BY <2>1, <1>1 DEF LiveContaining, Nearest
    <3> QED BY <2>0, <2>1, <3>1, <3>2 DEF RecordSet
  <2>2. CASE p \notin LiveContaining(a)
    BY <2>0, <2>2 DEF Marked
  <2> QED BY <2>1, <2>2
<1>4. \A p \in DOMAIN m_allocations :
        m_allocations'[p].initialized \subseteq 0 .. m_allocations'[p].size - 1
  <2> TAKE p \in DOMAIN m_allocations
  <2>1. /\ m_allocations[p].initialized \subseteq 0 .. m_allocations[p].size - 1
        /\ m_allocations[p].size \in Nat
    BY DEF RecordsOK, RecordSet
  <2>2. p \in LiveContaining(a) => a - p \in 0 .. m_allocations[p].size - 1
    BY <1>1, <2>1 DEF LiveContaining, Nearest
  <2> QED BY <1>3, <2>1, <2>2
<1>5. RecordsOK(m_allocations')
  BY <1>2, <1>3, <1>4 DEF RecordsOK
<1> QED BY <1>2, <1>3, <1>5

-----------------------------------------------------------------------------
(* Typing is kept by every step, whatever interrupts the heap functions.   *)

\* The records stay well formed when a heap function is left, whatever RAX holds.
LEMMA LeftTyped ==
  ASSUME Typed, NEW rax \in Pointers, Left(rax)
  PROVE  /\ RecordsOK(m_allocations') /\ DOMAIN m_freed' \subseteq Heap
         /\ m_entry_args' \in Nat \X Nat
         /\ m_active_function' \in Functions \cup {"None"}
         /\ m_pending_free_ptr' \in Pointers
<1> DEFINE Good == RecordsOK(m_allocations') /\ DOMAIN m_freed' \subseteq Heap
           a == m_entry_args[1]
           b == m_entry_args[2]
<1>1. /\ RecordsOK(m_allocations) /\ DOMAIN m_freed \subseteq Heap
      /\ a \in Nat /\ b \in Nat
  BY DEF Typed
<1>2. ASSUME UNCHANGED records PROVE Good
  BY <1>1, <1>2 DEF records
<1>3. ASSUME NEW ptr
      PROVE  RecordsOK(MovedAllocations(ptr)) /\ DOMAIN MovedFreed(ptr) \subseteq Heap
  <2>1. RecordsOK(MovedAllocations(ptr))
    BY <1>1, DropRecord DEF MovedAllocations
  <2>2. DOMAIN MovedFreed(ptr) \subseteq Heap
    BY <1>1 DEF MovedFreed, Put, RecordsOK
  <2> QED BY <2>1, <2>2
<1>4. ASSUME NEW ptr, move_to_freed(ptr) PROVE Good
  BY <1>3, <1>4 DEF move_to_freed
<1>5. ASSUME NEW allocations, RecordsOK(allocations), NEW freed, DOMAIN freed \subseteq Heap,
             rax # 0, NEW record \in RecordSet,
             record.initialized \subseteq 0 .. record.size - 1,
             record_allocation(allocations, freed, rax, record)
      PROVE  Good
  <2>1. rax \in Heap
    BY <1>5 DEF Pointers
  <2>2. RecordsOK(Put(allocations, rax, record))
    BY <1>5, <2>1, PutRecord
  <2>3. DOMAIN Drop(freed, rax) \subseteq Heap
    BY <1>5 DEF Drop
  <2> QED BY <1>5, <2>2, <2>3 DEF record_allocation
<1>6. Good
  <2>1. CASE m_active_function = "None" /\ UNCHANGED records
    BY <2>1, <1>2
  <2>2. CASE m_active_function = "Malloc" /\ MallocLeft(rax)
    <3>1. /\ Record(a, FALSE) \in RecordSet
          /\ Record(a, FALSE).initialized \subseteq 0 .. Record(a, FALSE).size - 1
      BY <1>1, RecordFits
    <3> QED BY <2>2, <1>1, <1>2, <1>5, <3>1 DEF MallocLeft
  <2>3. CASE m_active_function = "Calloc" /\ CallocLeft(rax)
    <3>1. a * b \in Nat
      BY <1>1
    <3>2. /\ Record(a * b, TRUE) \in RecordSet
          /\ Record(a * b, TRUE).initialized \subseteq 0 .. Record(a * b, TRUE).size - 1
      BY <3>1, RecordFits
    <3>3. rax = 0 => UNCHANGED records
      BY <2>3 DEF CallocLeft
    <3>4. rax # 0 => record_allocation(m_allocations, m_freed, rax, Record(a * b, TRUE))
      BY <2>3 DEF CallocLeft
    <3> QED BY <1>1, <1>2, <1>5, <3>2, <3>3, <3>4
  <2>4. CASE m_active_function = "Realloc" /\ ReallocLeft(rax)
    <3> DEFINE old_size == IF a \in DOMAIN m_allocations THEN m_allocations[a].size ELSE 0
               fresh == Record(b, FALSE)
               kept == [fresh EXCEPT !.initialized = @ \cup Preserved(old_size, b)]
    <3>1. fresh \in RecordSet /\ fresh.size = b /\ fresh.initialized \subseteq 0 .. b - 1
      BY <1>1, RecordFits
    <3>2. old_size \in Nat
      BY <1>1 DEF RecordsOK, RecordSet
    <3> HIDE DEF old_size, fresh
    <3>3. Preserved(old_size, b) \subseteq 0 .. b - 1
      BY <1>1, <3>2 DEF Preserved, Smaller
    <3>4. kept \in RecordSet /\ kept.initialized \subseteq 0 .. kept.size - 1
      BY <1>1, <3>1, <3>3 DEF RecordSet
    <3> HIDE DEF kept
    <3>5. \/ UNCHANGED records
          \/ rax # 0 /\ record_allocation(m_allocations, m_freed, rax, fresh)
          \/ move_to_freed(a)
          \/ rax # 0 /\ record_allocation(MovedAllocations(a), MovedFreed(a), rax, kept)
      BY <2>4 DEF ReallocLeft, ReallocMoved, old_size, fresh, kept
    <3> HIDE DEF Good, a
    <3> QED BY <1>1, <1>2, <1>3, <1>4, <1>5, <3>1, <3>4, <3>5
  <2>5. CASE m_active_function = "Free" /\ FreeLeft
    BY <2>5, <1>2, <1>4 DEF FreeLeft
  <2> QED BY <2>1, <2>2, <2>3, <2>4, <2>5 DEF Left
<1>7. /\ m_entry_args' \in Nat \X Nat
      /\ m_active_function' \in Functions \cup {"None"}
      /\ m_pending_free_ptr' \in Pointers
  BY DEF Left, Typed, Pointers
<1> QED BY <1>6, <1>7

\* The blocks stay well formed when the allocator serves an allocation.
LEMMA AllocatedTyped ==
  ASSUME NEW others, BlocksOK(others), BlocksOK(blocks), NEW size \in Nat,
         NEW written, written \subseteq 0 .. size - 1, Allocated(others, size, written)
  PROVE  BlocksOK(blocks') /\ result' \in Pointers
<1>1. ASSUME NEW p \in Places(others, size), result' = p,
             blocks' = Put(others, p, Block(size, TRUE, written))
      PROVE  BlocksOK(blocks') /\ result' \in Pointers
  BY <1>1, PutBlock DEF Pointers
<1>2. ASSUME result' = 0, UNCHANGED blocks PROVE BlocksOK(blocks') /\ result' \in Pointers
  BY <1>2 DEF Pointers
<1> QED BY <1>1, <1>2 DEF Allocated

LEMMA PerformTyped ==
  ASSUME Typed, Perform
  PROVE  Typed'
<1> DEFINE a == call.args[1]
           b == call.args[2]
<1>1. BlocksOK(blocks) /\ a \in Nat /\ b \in Nat
  BY DEF Typed
<1>2. a * b \in Nat
  BY <1>1
<1>3. BlocksOK(Drop(blocks, a)) /\ \A n \in Nat : {} \subseteq 0 .. n - 1
  BY <1>1, DropBlock
<1>4. BlocksOK(blocks') /\ result' \in {-1} \cup Pointers
  <2>1. CASE Allocated(blocks, a, {})
    BY <2>1, <1>1, <1>3, AllocatedTyped
  <2>2. CASE Allocated(blocks, a * b, 0 .. a * b - 1)
    <3> HIDE DEF a, b
    <3> QED BY <2>2, <1>1, <1>2, AllocatedTyped
  <2>3. CASE Allocated(blocks, b, {})
    BY <2>3, <1>1, <1>3, AllocatedTyped
  <2>4. CASE result' = 0 /\ blocks' = Drop(blocks, a)
    BY <2>4, <1>3 DEF Pointers
  <2>5. CASE Allocated(Drop(blocks, a), b, blocks[a].written \cap 0 .. b - 1)
    BY <2>5, <1>1, <1>3, AllocatedTyped
  <2>6. CASE UNCHANGED <<blocks, result>>
    BY <2>6, <1>1 DEF Typed
  <2> QED BY <2>1, <2>2, <2>3, <2>4, <2>5, <2>6 DEF Perform
<1>5. /\ where' \in {"app", "libc", "handler", "aborted"} /\ clean' \in BOOLEAN
      /\ entry' \in BOOLEAN
  BY DEF Perform, Typed, BlocksOK, BlockSet
<1>6. UNCHANGED <<call, active, records>>
  BY DEF Perform
<1> QED BY <1>4, <1>5, <1>6 DEF Typed, active, records

LEMMA CallHeapTyped ==
  ASSUME Typed, NEW f \in Functions, NEW a \in Nat, NEW b \in Nat,
         f = "Free" => a \in Pointers, CallHeap(f, a, b)
  PROVE  Typed'
<1>1. /\ UNCHANGED <<blocks, m_allocations, m_freed, clean>>
      /\ where' = "libc" /\ result' = -1
      /\ call'.args = <<a, b>> /\ m_entry_args' = <<a, b>> /\ m_active_function' = f
      /\ call'.function = f /\ entry' = TRUE
  BY DEF CallHeap, Entered, records
<1>2. m_pending_free_ptr' \in Pointers
  BY DEF CallHeap, Entered, Typed, Pointers
<1> QED BY <1>1, <1>2 DEF Typed

\* The invariant's typing, which TypeOK is part of, is kept by every step.
LEMMA StepTyped ==
  ASSUME Typed, [Next]_vars
  PROVE  Typed'
<1>0. Sizes \subseteq Nat /\ Pointers \subseteq Nat /\ 0 \in Nat
  BY TracerAssumption DEF Pointers, Heap
<1>1. ASSUME NEW n \in Sizes, CallHeap("Malloc", n, 0) PROVE Typed'
  BY <1>0, <1>1, CallHeapTyped DEF Functions
<1>2. ASSUME NEW m \in Sizes, NEW n \in Sizes, CallHeap("Calloc", m, n) PROVE Typed'
  BY <1>0, <1>2, CallHeapTyped DEF Functions
<1>3. ASSUME NEW p \in Pointers, CallHeap("Free", p, 0) PROVE Typed'
  BY <1>0, <1>3, CallHeapTyped DEF Functions
<1>4. ASSUME NEW p \in Pointers, NEW n \in Sizes \cup {0}, CallHeap("Realloc", p, n)
      PROVE  Typed'
  BY <1>0, <1>4, CallHeapTyped DEF Functions
<1>5. CASE Perform
  BY <1>5, PerformTyped
<1>6. CASE Return
  <2>1. result \in Pointers /\ Left(result)
    BY <1>6 DEF Return, Typed
  <2>2. /\ UNCHANGED <<blocks, entry, clean>>
        /\ where' = "app" /\ call' = NoCall /\ result' = -1
    BY <1>6 DEF Return
  <2> QED BY <2>1, <2>2, LeftTyped DEF Typed, NoCall
<1>7. CASE Interrupt
  <2>1. PICK rax \in Pointers : Left(rax)
    BY <1>7 DEF Interrupt
  <2>2. /\ UNCHANGED <<blocks, call, result>> /\ where' = "handler" /\ clean' = FALSE
        /\ entry' \in BOOLEAN
    BY <1>7 DEF Interrupt, Typed
  <2> QED BY <2>1, <2>2, LeftTyped DEF Typed
<1>8. CASE HandlerReturn
  <2>1. UNCHANGED <<blocks, call, result, entry, clean>> /\ where' = "libc" /\ UNCHANGED records
    BY <1>8 DEF HandlerReturn, Entered
  <2>2. CASE entry
    <3>1. Entered(call.function, call.args)
      BY <1>8, <2>2 DEF HandlerReturn
    <3>2. m_active_function' = call.function /\ m_entry_args' = call.args
      BY <3>1 DEF Entered
    <3>3. m_pending_free_ptr' \in Pointers
      BY <3>1 DEF Entered, Typed, Pointers
    <3> QED BY <2>1, <3>2, <3>3 DEF Typed, records
  <2>3. CASE ~entry
    BY <1>8, <2>1, <2>3 DEF HandlerReturn, Typed, active, records
  <2> QED BY <2>2, <2>3
<1>9. ASSUME NEW a \in Heap, Write(a) PROVE Typed'
  <2>1. UNCHANGED <<where, call, result, entry, active, m_freed, clean>>
    BY <1>9 DEF Write
  <2>2. BlocksOK(blocks')
    BY <1>9, StoredBlocks DEF Write, Typed
  <2>3. RecordsOK(m_allocations')
    BY <1>9, MarkedRecords DEF Write, Typed
  <2> QED BY <2>1, <2>2, <2>3 DEF Typed, active
<1>10. ASSUME NEW a \in Heap, AllocatorWrite(a) PROVE Typed'
  <2>1. UNCHANGED <<blocks, where, call, result, active, m_freed, clean>> /\ entry' = FALSE
    BY <1>10 DEF AllocatorWrite
  <2>2. RecordsOK(m_allocations')
    BY <1>10, MarkedRecords DEF AllocatorWrite, Typed
  <2> QED BY <2>1, <2>2 DEF Typed, active
<1>11. ASSUME NEW n \in Sizes, InternalAlloc(n) PROVE Typed'
  <2>1. UNCHANGED <<where, call, result, entry, active, records, clean>>
    BY <1>11 DEF InternalAlloc
  <2>2. PICK p \in Places(blocks, n) : blocks' = Put(blocks, p, Block(n, FALSE, 0 .. n - 1))
    BY <1>11 DEF InternalAlloc
  <2>3. BlocksOK(blocks) /\ n \in Nat
    BY <1>0 DEF Typed
  <2>4. BlocksOK(blocks')
    BY <2>2, <2>3, PutBlock
  <2> QED BY <2>1, <2>4 DEF Typed, active, records
<1>12. ASSUME NEW p \in DOMAIN blocks, InternalFree(p) PROVE Typed'
  <2>1. UNCHANGED <<where, call, result, entry, active, records>>
    BY <1>12 DEF InternalFree
  <2>2. BlocksOK(blocks')
    BY <1>12, DropBlock DEF InternalFree, Typed
  <2>3. clean' \in BOOLEAN
    BY <1>12 DEF InternalFree
  <2> QED BY <2>1, <2>2, <2>3 DEF Typed, active, records
<1>13. CASE UNCHANGED vars
  BY <1>13 DEF vars, guest, active, records, Typed
<1> QED
  BY <1>1, <1>2, <1>3, <1>4, <1>5, <1>6, <1>7, <1>8, <1>9, <1>10, <1>11, <1>12, <1>13 DEF Next

-----------------------------------------------------------------------------
(* The records follow the blocks.                                          *)

\* Entering a heap function keeps the records and arms the free of a recorded block
\* only (MallocTracer::on_function_enter and on_free_enter).
LEMMA CallHeapTracked ==
  ASSUME IInv, NEW f \in Functions, NEW a, NEW b, CallHeap(f, a, b)
  PROVE  Tracked'
<1> SUFFICES ASSUME clean' PROVE Tracked'
  BY DEF Tracked
<1>1. /\ where = "app" /\ clean /\ where' = "libc"
      /\ UNCHANGED <<blocks, m_allocations, m_freed>>
      /\ call' = [function |-> f, args |-> <<a, b>>] /\ result' = -1
      /\ m_active_function' = f /\ m_entry_args' = <<a, b>>
  BY DEF CallHeap, Entered, records
<1>2. Matches({}, {})
  BY <1>1 DEF IInv, Tracked
<1>3. Matches({}, {})'
  BY <1>1, <1>2 DEF Matches, Own
<1>4. f = "Free" =>
        m_pending_free_ptr' = IF a \in DOMAIN m_allocations THEN a ELSE 0
  <2> SUFFICES ASSUME f = "Free"
               PROVE  m_pending_free_ptr' = IF a \in DOMAIN m_allocations THEN a ELSE 0
    OBVIOUS
  <2>1. m_pending_free_ptr' = IF FreeReport(a) = "none" THEN a ELSE 0
    BY DEF CallHeap, Entered
  <2>2. 0 \notin DOMAIN m_allocations
    BY TracerAssumption DEF IInv, Typed, RecordsOK, Heap
  <2>3. a \in DOMAIN m_allocations => FreeReport(a) = "none"
    BY <2>2 DEF FreeReport, IInv, LiveAndFreedApart
  <2>4. a \notin DOMAIN m_allocations => FreeReport(a) # "none" \/ a = 0
    BY DEF FreeReport
  <2> QED BY <2>1, <2>3, <2>4
<1>5. InCall'
  BY <1>1, <1>3, <1>4 DEF InCall
<1> QED BY <1>1, <1>5 DEF Tracked

OwnOf(map) == {q \in DOMAIN map : map[q].own}

\* What the allocator's success adds to the program's blocks.
LEMMA PlacedOwn ==
  ASSUME NEW others, BlocksOK(others), NEW size \in Nat,
         NEW written, written \subseteq 0 .. size - 1, NEW p \in Places(others, size),
         blocks' = Put(others, p, Block(size, TRUE, written))
  PROVE  /\ p \in Heap /\ p # 0
         /\ Own' = OwnOf(others) \cup {p}
         /\ blocks'[p].size = size /\ blocks'[p].written = written
         /\ \A q \in DOMAIN others : q # p /\ blocks'[q] = others[q]
<1>1. p \in Heap /\ p \notin DOMAIN others
  BY PutBlock
<1>2. p # 0
  BY <1>1, TracerAssumption DEF Heap
<1>3. DOMAIN blocks' = DOMAIN others \cup {p} /\ blocks'[p] = Block(size, TRUE, written)
  BY DEF Put
<1>4. \A q \in DOMAIN others : q # p /\ blocks'[q] = others[q]
  BY <1>1 DEF Put
<1>5. blocks'[p].size = size /\ blocks'[p].written = written /\ blocks'[p].own = TRUE
  BY <1>3 DEF Block
<1>6. Own' = OwnOf(others) \cup {p}
  BY <1>3, <1>4, <1>5 DEF Own, OwnOf
<1> QED BY <1>1, <1>2, <1>4, <1>5, <1>6

\* What is left of the program's blocks without one.
LEMMA DroppedOwn ==
  ASSUME NEW a
  PROVE  /\ OwnOf(Drop(blocks, a)) = Own \ {a}
         /\ \A q \in Own \ {a} : q \in DOMAIN Drop(blocks, a) /\ Drop(blocks, a)[q] = blocks[q]
BY DEF Own, OwnOf, Drop

\* An allocation that removes no block, for a call to malloc or calloc or to realloc
\* with a null pointer, adds at most the block that the return will enter.
LEMMA FreshTracked ==
  ASSUME IInv, Matches({}, {}), NEW size \in Nat,
         NEW written, written \subseteq 0 .. size - 1, Allocated(blocks, size, written),
         UNCHANGED <<call, records>>,
         call.function # "Free", call.function = "Realloc" => call.args[1] = 0
  PROVE  /\ result' # -1 /\ Matches(Gone, New)'
         /\ \A p \in New' : blocks'[p].size = size /\ blocks'[p].written = written
<1>1. BlocksOK(blocks) /\ 0 \notin DOMAIN m_allocations
  BY TracerAssumption DEF IInv, Typed, RecordsOK, Heap
<1>2. UNCHANGED <<m_allocations, call>>
  BY DEF records
<1>3. DOMAIN m_allocations \ Gone' = DOMAIN m_allocations
  BY <1>1, <1>2 DEF Gone
<1>4. CASE result' = 0 /\ UNCHANGED blocks
  <2>1. New' = {}
    BY <1>4 DEF New
  <2>2. Matches(Gone, New)'
    BY <1>2, <1>3, <1>4, <2>1 DEF Matches, Own
  <2> QED BY <1>4, <2>1, <2>2
<1>5. ASSUME NEW p \in Places(blocks, size), result' = p,
             blocks' = Put(blocks, p, Block(size, TRUE, written))
      PROVE  /\ result' # -1 /\ Matches(Gone, New)'
             /\ \A q \in New' : blocks'[q].size = size /\ blocks'[q].written = written
  <2>1. /\ p \in Heap /\ p # 0
        /\ Own' = OwnOf(blocks) \cup {p}
        /\ blocks'[p].size = size /\ blocks'[p].written = written
        /\ \A q \in DOMAIN blocks : q # p /\ blocks'[q] = blocks[q]
    BY <1>1, <1>5, PlacedOwn, ZenonT(60)
  <2>2. New' = {p}
    BY <1>2, <1>5, <2>1 DEF New
  <2>3. Own' = Own \cup {p} /\ \A q \in Own : q # p /\ blocks'[q] = blocks[q]
    BY <2>1 DEF Own, OwnOf
  <2>4. Matches(Gone, New)'
    BY <1>2, <1>3, <2>2, <2>3 DEF Matches
  <2>5. p # -1
    BY <2>1, TracerAssumption DEF Heap
  <2> QED BY <1>5, <2>1, <2>2, <2>4, <2>5
<1> QED BY <1>4, <1>5 DEF Allocated

\* The work of the allocator leaves the records behind by what the return will change.
LEMMA PerformTracked ==
  ASSUME IInv, Perform
  PROVE  Tracked'
<1> DEFINE a == call.args[1]
           b == call.args[2]
<1> SUFFICES ASSUME clean' PROVE Tracked'
  BY DEF Tracked
<1>1. /\ where = "libc" /\ result = -1 /\ UNCHANGED <<call, active, records>>
      /\ a \in Nat /\ b \in Nat /\ a * b \in Nat /\ BlocksOK(blocks)
      /\ 0 \notin DOMAIN m_allocations
  BY TracerAssumption DEF Perform, IInv, Typed, RecordsOK, Heap
<1>2. clean
  BY DEF Perform, IInv, Typed
<1>3. InCall /\ Matches({}, {})
  BY <1>1, <1>2 DEF IInv, Tracked, InCall
<1>4. ASSUME where' = "libc", result' # -1, Matches(Gone, New)', \A p \in New' : Announced(p)',
             call.function = "Realloc" /\ a # 0 => b = 0 \/ result' # 0
      PROVE  Tracked'
  <2>1. InCall'
    BY <1>1, <1>3, <1>4 DEF InCall, active, records
  <2> QED BY <1>4, <2>1 DEF Tracked
<1>5. CASE /\ call.function = "Malloc" /\ Allocated(blocks, a, {}) /\ UNCHANGED where
  <2>1. /\ result' # -1 /\ Matches(Gone, New)'
        /\ \A p \in New' : blocks'[p].size = a /\ blocks'[p].written = {}
    BY <1>1, <1>3, <1>5, FreshTracked
  <2>2. \A p \in New' : Announced(p)'
    BY <1>1, <1>5, <2>1 DEF Announced
  <2> QED BY <1>1, <1>4, <1>5, <2>1, <2>2
<1>6. CASE /\ call.function = "Calloc" /\ Allocated(blocks, a * b, 0 .. a * b - 1)
           /\ UNCHANGED where
  <2>1. /\ result' # -1 /\ Matches(Gone, New)'
        /\ \A p \in New' : blocks'[p].size = a * b
    <3> HIDE DEF a, b
    <3> QED BY <1>1, <1>3, <1>6, FreshTracked
  <2>2. \A p \in New' : Announced(p)'
    BY <1>1, <1>6, <2>1 DEF Announced
  <2> QED BY <1>1, <1>4, <1>6, <2>1, <2>2
<1>7. CASE /\ call.function = "Realloc" /\ a = 0 /\ Allocated(blocks, b, {}) /\ UNCHANGED where
  <2>1. /\ result' # -1 /\ Matches(Gone, New)'
        /\ \A p \in New' : blocks'[p].size = b /\ blocks'[p].written = {}
    BY <1>1, <1>3, <1>7, FreshTracked
  <2>2. \A p \in New' : Announced(p)'
    BY <1>1, <1>7, <2>1 DEF Announced
  <2> QED BY <1>1, <1>4, <1>7, <2>1, <2>2
<1>8. CASE /\ call.function = "Free" \/ (call.function = "Realloc" /\ b = 0)
           /\ result' = 0 /\ blocks' = Drop(blocks, a) /\ UNCHANGED where
  <2>1. New' = {} /\ Gone' = {a}
    BY <1>1, <1>8 DEF New, Gone
  <2>2. Own' = Own \ {a} /\ \A q \in Own' : blocks'[q] = blocks[q]
    BY <1>8, DroppedOwn DEF Own, OwnOf
  <2>3. Matches(Gone, New)'
    BY <1>1, <1>3, <2>1, <2>2 DEF Matches, records
  <2> QED BY <1>1, <1>4, <1>8, <2>1, <2>3
<1>9. CASE /\ call.function = "Realloc" /\ a \in DOMAIN blocks /\ b # 0
           /\ Allocated(Drop(blocks, a), b, blocks[a].written \cap 0 .. b - 1)
           /\ clean' = (clean /\ result' # 0 /\ blocks[a].own) /\ UNCHANGED where
  <2>1. result' # 0 /\ a \in Own
    BY <1>9 DEF Own
  <2>2. PICK p \in Places(Drop(blocks, a), b) :
          /\ result' = p
          /\ blocks' = Put(Drop(blocks, a), p,
                           Block(b, TRUE, blocks[a].written \cap 0 .. b - 1))
    BY <1>9, <2>1 DEF Allocated
  <2>3. BlocksOK(Drop(blocks, a))
    BY <1>1, DropBlock
  <2>4. /\ p \in Heap /\ p # 0
        /\ Own' = OwnOf(Drop(blocks, a)) \cup {p}
        /\ blocks'[p].size = b /\ blocks'[p].written = blocks[a].written \cap 0 .. b - 1
        /\ \A q \in DOMAIN Drop(blocks, a) : q # p /\ blocks'[q] = Drop(blocks, a)[q]
    <3> DEFINE others == Drop(blocks, a)
               left == blocks[a].written \cap 0 .. b - 1
    <3>1. left \subseteq 0 .. b - 1
      OBVIOUS
    <3>2. /\ p \in Places(others, b) /\ BlocksOK(others) /\ b \in Nat
          /\ blocks' = Put(others, p, Block(b, TRUE, left))
      BY <1>1, <2>2, <2>3
    <3> HIDE DEF others, left, a, b
    <3>3. /\ p \in Heap /\ p # 0
          /\ Own' = OwnOf(others) \cup {p}
          /\ blocks'[p].size = b /\ blocks'[p].written = left
          /\ \A q \in DOMAIN others : q # p /\ blocks'[q] = others[q]
      BY <3>1, <3>2, PlacedOwn
    <3> QED BY <3>3 DEF others, left
  <2>5. Own' = (Own \ {a}) \cup {p} /\ \A q \in Own \ {a} : q # p /\ blocks'[q] = blocks[q]
    BY <2>4, DroppedOwn
  <2>6. New' = {p} /\ Gone' = {a}
    BY <1>1, <1>9, <2>2, <2>4 DEF New, Gone
  <2>7. Matches(Gone, New)'
    BY <1>1, <1>3, <2>5, <2>6 DEF Matches, records
  <2>8. /\ a \in DOMAIN m_allocations /\ m_allocations[a].size = blocks[a].size
        /\ blocks[a].written \subseteq 0 .. blocks[a].size - 1 /\ blocks[a].size \in Nat
    BY <1>1, <1>3, <1>9, <2>1 DEF Matches, BlocksOK, BlockSet
  <2>9. blocks'[p].written \subseteq 0 .. Smaller(m_allocations[a].size, b) - 1
    BY <1>1, <2>4, <2>8 DEF Smaller
  <2>10. Announced(p)'
    BY <1>1, <1>9, <2>4, <2>8, <2>9 DEF Announced, records
  <2>11. p # -1
    BY <2>4, TracerAssumption DEF Heap
  <2> QED BY <1>1, <1>4, <1>9, <2>2, <2>4, <2>6, <2>7, <2>10, <2>11
<1>10. CASE where' = "aborted"
  BY <1>10 DEF Tracked
<1> QED BY <1>5, <1>6, <1>7, <1>8, <1>9, <1>10 DEF Perform

\* The return of a heap call makes the records match the blocks again
\* (MallocTracer::on_malloc_leave, on_calloc_leave, on_free_leave, on_realloc_leave).
LEMMA ReturnTracked ==
  ASSUME IInv, Return
  PROVE  Tracked'
<1> DEFINE a == call.args[1]
           b == call.args[2]
<1> SUFFICES ASSUME clean' PROVE Tracked'
  BY DEF Tracked
<1>1. /\ where = "libc" /\ clean /\ result # -1 /\ result \in Pointers
      /\ where' = "app" /\ UNCHANGED blocks
      /\ Left(result) /\ m_active_function' = "None"
  BY DEF Return, Left, IInv, Typed
<1>2. /\ InCall /\ Matches(Gone, New) /\ (\A p \in New : Announced(p))
      /\ call.function \in Functions
      /\ m_active_function = call.function
      /\ m_entry_args[1] = a /\ m_entry_args[2] = b
  BY <1>1 DEF IInv, Tracked, InCall
<1>3. /\ a \in Nat /\ b \in Nat /\ a * b \in Nat
      /\ 0 \notin DOMAIN m_allocations
      /\ \A p \in DOMAIN blocks : /\ blocks[p].size \in Nat
                                  /\ blocks[p].written \subseteq 0 .. blocks[p].size - 1
  BY TracerAssumption DEF IInv, Typed, RecordsOK, BlocksOK, BlockSet, Heap
<1>4. Own' = Own /\ Own \subseteq DOMAIN blocks
  BY <1>1 DEF Own
\* A call that adds a block and removes none but perhaps the one at a.
<1>5. ASSUME NEW allocations, NEW freed, NEW record, result # 0, New = {result},
             DOMAIN allocations = DOMAIN m_allocations \ Gone,
             \A p \in DOMAIN allocations : allocations[p] = m_allocations[p],
             record_allocation(allocations, freed, result, record),
             record.size = blocks[result].size,
             blocks[result].written \subseteq record.initialized
      PROVE  Matches({}, {})'
  <2>1. /\ DOMAIN m_allocations' = DOMAIN allocations \cup {result}
        /\ m_allocations'[result] = record
        /\ \A p \in DOMAIN allocations : p # result => m_allocations'[p] = allocations[p]
    BY <1>5 DEF record_allocation, Put
  <2>2. Own = (DOMAIN m_allocations \ Gone) \cup {result}
    BY <1>2, <1>5 DEF Matches
  <2>3. \A p \in Own \ {result} : /\ m_allocations[p].size = blocks[p].size
                                  /\ blocks[p].written \subseteq m_allocations[p].initialized
    BY <1>2, <1>5 DEF Matches
  <2>4. \A p \in Own \ {result} : m_allocations'[p] = m_allocations[p]
    BY <1>5, <2>1, <2>2
  <2>5. \A p \in Own : /\ m_allocations'[p].size = blocks[p].size
                       /\ blocks[p].written \subseteq m_allocations'[p].initialized
    BY <1>5, <2>1, <2>3, <2>4
  <2> QED BY <1>1, <1>4, <1>5, <2>1, <2>2, <2>5 DEF Matches
\* A call that adds no block, and whose record has gone.
<1>6. ASSUME New = {}, DOMAIN m_allocations' = DOMAIN m_allocations \ Gone,
             \A p \in DOMAIN m_allocations' : m_allocations'[p] = m_allocations[p]
      PROVE  Matches({}, {})'
  BY <1>1, <1>2, <1>4, <1>6 DEF Matches
<1>7. ASSUME New = {}, UNCHANGED records, Gone \cap DOMAIN m_allocations = {}
      PROVE  Matches({}, {})'
  BY <1>6, <1>7 DEF records
<1>8. ASSUME NEW ptr
      PROVE  /\ DOMAIN MovedAllocations(ptr) = DOMAIN m_allocations \ {ptr}
             /\ \A p \in DOMAIN MovedAllocations(ptr) :
                  MovedAllocations(ptr)[p] = m_allocations[p]
  BY DEF MovedAllocations, Drop
<1>9. ASSUME NEW ptr, New = {}, Gone = {ptr}, move_to_freed(ptr)
      PROVE  Matches({}, {})'
  BY <1>6, <1>8, <1>9 DEF move_to_freed
<1>10. Matches({}, {})'
  <2>1. CASE call.function = "Malloc"
    <3>1. MallocLeft(result)
      BY <1>1, <1>2, <2>1 DEF Left
    <3>2. Gone = {}
      BY <2>1 DEF Gone
    <3>3. CASE result = 0
      BY <1>7, <2>1, <3>1, <3>2, <3>3 DEF MallocLeft, New
    <3>4. CASE result # 0
      <4>1. New = {result} /\ blocks[result].size = a /\ blocks[result].written = {}
        BY <1>2, <2>1, <3>4 DEF New, Announced
      <4>2. record_allocation(m_allocations, m_freed, result, Record(a, FALSE))
        BY <1>2, <3>1, <3>4 DEF MallocLeft
      <4>3. Record(a, FALSE).size = a
        BY <1>3, RecordFits
      <4> QED BY <1>5, <3>2, <3>4, <4>1, <4>2, <4>3
    <3> QED BY <3>3, <3>4
  <2>2. CASE call.function = "Calloc"
    <3>1. CallocLeft(result)
      BY <1>1, <1>2, <2>2 DEF Left
    <3>2. Gone = {}
      BY <2>2 DEF Gone
    <3>3. CASE result = 0
      BY <1>7, <2>2, <3>1, <3>2, <3>3 DEF CallocLeft, New
    <3>4. CASE result # 0
      <4>1. New = {result} /\ blocks[result].size = a * b /\ result \in Own
        BY <1>2, <2>2, <3>4 DEF New, Announced, Matches
      <4>2. record_allocation(m_allocations, m_freed, result, Record(a * b, TRUE))
        BY <1>2, <3>1, <3>4 DEF CallocLeft
      <4>3. Record(a * b, TRUE).size = a * b /\ Record(a * b, TRUE).initialized = 0 .. a * b - 1
        <5> HIDE DEF a, b
        <5> QED BY <1>3, RecordFits
      <4>4. blocks[result].written \subseteq 0 .. a * b - 1
        BY <1>3, <1>4, <4>1
      <4> QED BY <1>5, <3>2, <3>4, <4>1, <4>2, <4>3, <4>4
    <3> QED BY <3>3, <3>4
  <2>3. CASE call.function = "Free"
    <3>1. FreeLeft /\ Gone = {a} /\ New = {}
      BY <1>1, <1>2, <2>3 DEF Left, Gone, New
    <3>2. m_pending_free_ptr = IF a \in DOMAIN m_allocations THEN a ELSE 0
      BY <1>2, <2>3 DEF InCall
    <3>3. CASE a \in DOMAIN m_allocations
      BY <1>3, <1>9, <3>1, <3>2, <3>3 DEF FreeLeft
    <3>4. CASE a \notin DOMAIN m_allocations
      BY <1>7, <3>1, <3>2, <3>4 DEF FreeLeft
    <3> QED BY <3>3, <3>4
  <2>4. CASE call.function = "Realloc"
    <3> DEFINE old_size == IF a \in DOMAIN m_allocations THEN m_allocations[a].size ELSE 0
               fresh == Record(b, FALSE)
               kept == [fresh EXCEPT !.initialized = @ \cup Preserved(old_size, b)]
    <3>1. Gone = {a}
      BY <2>4 DEF Gone
    <3>2. \/ a = 0 /\ result = 0 /\ UNCHANGED records
          \/ a = 0 /\ result # 0 /\ record_allocation(m_allocations, m_freed, result, fresh)
          \/ a # 0 /\ (b = 0 \/ result = 0) /\ move_to_freed(a)
          \/ /\ a # 0 /\ b # 0 /\ result # 0
             /\ record_allocation(MovedAllocations(a), MovedFreed(a), result, kept)
      <4>1. ReallocLeft(result)
        BY <1>1, <1>2, <2>4 DEF Left
      <4> QED BY <1>2, <4>1 DEF ReallocLeft, ReallocMoved
    <3>3. fresh \in RecordSet /\ fresh.size = b
      BY <1>3, RecordFits
    <3>4. kept.size = b /\ Preserved(old_size, b) \subseteq kept.initialized
      <4> HIDE DEF fresh
      <4> QED BY <3>3 DEF RecordSet
    <3> HIDE DEF fresh, kept
    <3>5. CASE a = 0 /\ result = 0 /\ UNCHANGED records
      BY <1>3, <1>7, <2>4, <3>1, <3>5 DEF New
    <3>6. CASE a = 0 /\ result # 0 /\ record_allocation(m_allocations, m_freed, result, fresh)
      <4>1. New = {result} /\ blocks[result].size = b /\ blocks[result].written = {}
        BY <1>2, <2>4, <3>6 DEF New, Announced
      <4>2. DOMAIN m_allocations = DOMAIN m_allocations \ Gone
        BY <1>3, <3>1, <3>6
      <4> QED BY <1>5, <3>3, <3>6, <4>1, <4>2
    <3>7. CASE a # 0 /\ (b = 0 \/ result = 0) /\ move_to_freed(a)
      <4>1. New = {}
        BY <1>2, <2>4, <3>7 DEF New, Announced
      <4> QED BY <1>9, <3>1, <3>7, <4>1
    <3>8. CASE /\ a # 0 /\ b # 0 /\ result # 0
               /\ record_allocation(MovedAllocations(a), MovedFreed(a), result, kept)
      <4>1. New = {result}
        BY <2>4, <3>8 DEF New
      <4>2. /\ a \in DOMAIN m_allocations /\ blocks[result].size = b
            /\ blocks[result].written \subseteq 0 .. Smaller(m_allocations[a].size, b) - 1
        BY <1>2, <2>4, <3>8, <4>1 DEF Announced
      <4>3. blocks[result].written \subseteq Preserved(old_size, b)
        BY <4>2 DEF Preserved
      <4>4. /\ DOMAIN MovedAllocations(a) = DOMAIN m_allocations \ Gone
            /\ \A p \in DOMAIN MovedAllocations(a) :
                 MovedAllocations(a)[p] = m_allocations[p]
        BY <1>8, <3>1
      <4>5. kept.size = blocks[result].size /\ blocks[result].written \subseteq kept.initialized
        BY <3>4, <4>2, <4>3
      <4> HIDE DEF a
      <4> QED BY <1>5, <3>8, <4>1, <4>4, <4>5
    <3> QED BY <3>2, <3>5, <3>6, <3>7, <3>8
  <2> QED BY <1>2, <2>1, <2>2, <2>3, <2>4 DEF Functions
<1> QED BY <1>1, <1>10 DEF Tracked

\* A store in a block of the program's is marked in that block's record: the blocks
\* being apart, it is the nearest record below the address.
LEMMA HitIsLive ==
  ASSUME IInv, Matches({}, {}), NEW a \in Heap, NEW p \in Hit(a), p \in Own
  PROVE  p \in LiveContaining(a)
<1>1. /\ Own = DOMAIN m_allocations
      /\ \A q \in Own : m_allocations[q].size = blocks[q].size
  BY DEF Matches
<1>2. /\ Apart(blocks) /\ a \in Nat /\ Gap \in Nat /\ Gap > 0
      /\ \A q \in Own : q \in DOMAIN blocks /\ q \in Nat /\ blocks[q].size \in Nat
  BY TracerAssumption DEF IInv, Typed, BlocksOK, BlockSet, Own, Heap
<1>3. p <= a /\ a < p + blocks[p].size
  BY DEF Hit
<1>4. ASSUME NEW q \in Own, q <= a PROVE q <= p
  <2>1. q = p \/ p + blocks[p].size + Gap <= q \/ q + blocks[q].size + Gap <= p
    BY <1>2 DEF Apart
  <2> QED BY <1>2, <1>3, <1>4, <2>1
<1>5. p \in Nearest(m_allocations, a)
  BY <1>1, <1>3, <1>4 DEF Nearest
<1> QED BY <1>1, <1>3, <1>5 DEF LiveContaining

LEMMA WriteTracked ==
  ASSUME IInv, NEW a \in Heap, Write(a)
  PROVE  Tracked'
<1> SUFFICES ASSUME clean' PROVE Tracked'
  BY DEF Tracked
<1>1. /\ clean /\ where = "app" /\ where' = "app" /\ m_active_function' = "None"
      /\ Matches({}, {})
  BY DEF Write, InProgram, active, IInv, Tracked
<1>2. /\ DOMAIN blocks' = DOMAIN blocks
      /\ \A p \in DOMAIN blocks :
           /\ blocks'[p].size = blocks[p].size /\ blocks'[p].own = blocks[p].own
           /\ p \in Hit(a) => blocks'[p].written = blocks[p].written \cup {a - p}
           /\ p \notin Hit(a) => blocks'[p] = blocks[p]
  BY StoredBlocks DEF Write, IInv, Typed
<1>3. /\ DOMAIN m_allocations' = DOMAIN m_allocations
      /\ \A p \in DOMAIN m_allocations :
           /\ m_allocations'[p].size = m_allocations[p].size
           /\ m_allocations[p].initialized \subseteq m_allocations'[p].initialized
           /\ p \in LiveContaining(a) => a - p \in m_allocations'[p].initialized
  BY MarkedRecords DEF Write, IInv, Typed
<1>4. Own' = Own /\ Own = DOMAIN m_allocations /\ Own \subseteq DOMAIN blocks
  BY <1>1, <1>2 DEF Own, Matches
<1>5. \A p \in Own : p \in Hit(a) => p \in LiveContaining(a)
  BY <1>1, HitIsLive
<1>6. \A p \in Own : /\ m_allocations[p].size = blocks[p].size
                     /\ blocks[p].written \subseteq m_allocations[p].initialized
  BY <1>1 DEF Matches
<1>7. \A p \in Own : /\ m_allocations'[p].size = blocks'[p].size
                     /\ blocks'[p].written \subseteq m_allocations'[p].initialized
  BY <1>2, <1>3, <1>4, <1>5, <1>6
<1>8. Matches({}, {})'
  BY <1>3, <1>4, <1>7 DEF Matches
<1> QED BY <1>1, <1>8 DEF Tracked

\* A store of the allocator's, which no block contains, may mark a byte of a record
\* that lags behind, and never unmarks one.
LEMMA AllocatorWriteTracked ==
  ASSUME IInv, NEW a \in Heap, AllocatorWrite(a)
  PROVE  Tracked'
<1> SUFFICES ASSUME clean' PROVE Tracked'
  BY DEF Tracked
<1>1. /\ clean /\ where = "libc" /\ where' = "libc" /\ InCall
      /\ UNCHANGED <<blocks, call, result, m_active_function, m_entry_args, m_pending_free_ptr>>
  BY DEF AllocatorWrite, guest, active, IInv, Tracked
<1>2. /\ DOMAIN m_allocations' = DOMAIN m_allocations
      /\ \A p \in DOMAIN m_allocations :
           /\ m_allocations'[p].size = m_allocations[p].size
           /\ m_allocations[p].initialized \subseteq m_allocations'[p].initialized
  BY MarkedRecords DEF AllocatorWrite, IInv, Typed
<1>3. Own' = Own /\ Gone' = Gone /\ New' = New
  BY <1>1 DEF Own, Gone, New
<1>4. ASSUME NEW gone, NEW new, Matches(gone, new)
      PROVE  /\ Own' = (DOMAIN m_allocations' \ gone) \cup new
             /\ \A p \in Own' \ new :
                  /\ m_allocations'[p].size = blocks'[p].size
                  /\ blocks'[p].written \subseteq m_allocations'[p].initialized
  <2>1. \A p \in Own \ new : p \in DOMAIN m_allocations
    BY <1>4 DEF Matches
  <2> QED BY <1>1, <1>2, <1>3, <1>4, <2>1 DEF Matches
<1>5. Matches({}, {}) => Matches({}, {})'
  BY <1>4 DEF Matches
<1>6. Matches(Gone, New) => Matches(Gone, New)'
  BY <1>3, <1>4 DEF Matches
<1>7. \A p : Announced(p) => Announced(p)'
  BY <1>1, <1>2 DEF Announced
<1>8. InCall'
  BY <1>1, <1>2, <1>3, <1>5, <1>6, <1>7 DEF InCall
<1> QED BY <1>1, <1>8 DEF Tracked

\* Blocks that libc takes and gives back for itself are not the program's.
LEMMA InternalTracked ==
  ASSUME IInv, \/ \E n \in Sizes : InternalAlloc(n)
               \/ \E p \in DOMAIN blocks : InternalFree(p)
  PROVE  Tracked'
<1> SUFFICES ASSUME clean' PROVE Tracked'
  BY DEF Tracked
<1>1. /\ clean /\ where = "app" /\ where' = "app"
      /\ UNCHANGED <<m_allocations, m_active_function>>
  BY DEF InternalAlloc, InternalFree, active, records, IInv, Typed
<1>2. Matches({}, {}) /\ m_active_function = "None"
  BY <1>1 DEF IInv, Tracked
<1>3. Own' = Own /\ \A q \in Own : blocks'[q] = blocks[q]
  <2>1. ASSUME NEW n \in Sizes, InternalAlloc(n)
        PROVE  Own' = Own /\ \A q \in Own : blocks'[q] = blocks[q]
    <3>1. PICK p \in Places(blocks, n) : blocks' = Put(blocks, p, Block(n, FALSE, 0 .. n - 1))
      BY <2>1 DEF InternalAlloc
    <3>2. p \notin DOMAIN blocks
      <4>1. BlocksOK(blocks) /\ n \in Nat
        BY TracerAssumption DEF IInv, Typed
      <4> QED BY <4>1, PutBlock
    <3>3. blocks'[p].own = FALSE
      BY <3>1 DEF Put, Block
    <3> QED BY <3>1, <3>2, <3>3 DEF Own, Put
  <2>2. ASSUME NEW p \in DOMAIN blocks, InternalFree(p)
        PROVE  Own' = Own /\ \A q \in Own : blocks'[q] = blocks[q]
    <3>1. p \notin Own /\ blocks' = Drop(blocks, p)
      BY <2>2 DEF InternalFree, Own
    <3> QED BY <3>1 DEF Own, Drop
  <2> QED BY <2>1, <2>2
<1>4. Matches({}, {})'
  BY <1>1, <1>2, <1>3 DEF Matches
<1> QED BY <1>1, <1>2, <1>4 DEF Tracked

-----------------------------------------------------------------------------
(* The theorems.                                                           *)

\* The records are apart after every step.
LEMMA StepApart ==
  ASSUME LiveAndFreedApart, [Next]_vars
  PROVE  LiveAndFreedApart'
<1>1. ASSUME UNCHANGED records PROVE LiveAndFreedApart'
  BY <1>1 DEF LiveAndFreedApart, records
<1>2. ASSUME NEW a, Marked(a), UNCHANGED m_freed PROVE LiveAndFreedApart'
  <2>1. DOMAIN m_allocations' = DOMAIN m_allocations
    BY <1>2 DEF Marked
  <2> QED BY <1>2, <2>1 DEF LiveAndFreedApart
<1>3. ASSUME NEW f, NEW a, NEW b, CallHeap(f, a, b) PROVE LiveAndFreedApart'
  BY <1>1, <1>3 DEF CallHeap, Entered
<1>4. CASE Perform
  BY <1>1, <1>4 DEF Perform
<1>5. CASE Return
  BY <1>5, LeftKeepsApart DEF Return
<1>6. CASE Interrupt
  BY <1>6, LeftKeepsApart DEF Interrupt
<1>7. CASE HandlerReturn
  BY <1>1, <1>7 DEF HandlerReturn, Entered
<1>8. ASSUME NEW a \in Heap, Write(a) \/ AllocatorWrite(a) PROVE LiveAndFreedApart'
  BY <1>2, <1>8 DEF Write, AllocatorWrite
<1>9. ASSUME NEW n \in Sizes, InternalAlloc(n) PROVE LiveAndFreedApart'
  BY <1>1, <1>9 DEF InternalAlloc
<1>10. ASSUME NEW p \in DOMAIN blocks, InternalFree(p) PROVE LiveAndFreedApart'
  BY <1>1, <1>10 DEF InternalFree
<1>11. CASE UNCHANGED vars
  BY <1>1, <1>11 DEF vars
<1> QED
  BY <1>3, <1>4, <1>5, <1>6, <1>7, <1>8, <1>9, <1>10, <1>11 DEF Next

\* The invariant holds at the start and is kept by every step.
LEMMA InitInv == Init => IInv
<1> SUFFICES ASSUME Init PROVE IInv
  OBVIOUS
<1>1. DOMAIN blocks = {} /\ DOMAIN m_allocations = {} /\ DOMAIN m_freed = {}
  BY DEF Init, EmptyMap
<1>2. Typed
  BY <1>1 DEF Init, Typed, BlocksOK, Apart, RecordsOK, NoCall, Pointers
<1>3. Tracked
  BY <1>1 DEF Init, Tracked, Matches, Own
<1> QED BY <1>1, <1>2, <1>3 DEF IInv, LiveAndFreedApart

LEMMA StepInv == IInv /\ [Next]_vars => IInv'
<1> SUFFICES ASSUME IInv, [Next]_vars PROVE IInv'
  OBVIOUS
<1>1. Typed' /\ LiveAndFreedApart'
  BY StepTyped, StepApart DEF IInv
<1>2. Tracked'
  <2>1. ASSUME NEW n \in Sizes, CallHeap("Malloc", n, 0) PROVE Tracked'
    BY <2>1, CallHeapTracked DEF Functions
  <2>2. ASSUME NEW m \in Sizes, NEW n \in Sizes, CallHeap("Calloc", m, n) PROVE Tracked'
    BY <2>2, CallHeapTracked DEF Functions
  <2>3. ASSUME NEW p \in Pointers, CallHeap("Free", p, 0) PROVE Tracked'
    BY <2>3, CallHeapTracked DEF Functions
  <2>4. ASSUME NEW p \in Pointers, NEW n \in Sizes \cup {0}, CallHeap("Realloc", p, n)
        PROVE  Tracked'
    BY <2>4, CallHeapTracked DEF Functions
  <2>5. CASE Perform
    BY <2>5, PerformTracked
  <2>6. CASE Return
    BY <2>6, ReturnTracked
  <2>7. CASE Interrupt
    BY <2>7 DEF Interrupt, Tracked
  <2>8. CASE HandlerReturn
    BY <2>8 DEF HandlerReturn, Tracked, IInv
  <2>9. ASSUME NEW a \in Heap, Write(a) \/ AllocatorWrite(a) PROVE Tracked'
    BY <2>9, WriteTracked, AllocatorWriteTracked
  <2>10. ASSUME NEW n \in Sizes, InternalAlloc(n) PROVE Tracked'
    BY <2>10, InternalTracked
  <2>11. ASSUME NEW p \in DOMAIN blocks, InternalFree(p) PROVE Tracked'
    BY <2>11, InternalTracked
  <2>12. CASE UNCHANGED vars
    BY <2>12 DEF vars, guest, active, records, IInv, Tracked, InCall, Matches, Own, Gone, New,
                   Announced
  <2> QED
    BY <2>1, <2>2, <2>3, <2>4, <2>5, <2>6, <2>7, <2>8, <2>9, <2>10, <2>11, <2>12 DEF Next
<1> QED BY <1>1, <1>2 DEF IInv

\* The state of the tracer and of the allocator is well typed whatever interrupts the
\* heap functions: no record marks a byte beyond its block as initialized.
THEOREM TypeCorrect == Spec => []TypeOK
<1>1. IInv => TypeOK
  BY DEF IInv, Typed, TypeOK, BlocksOK, RecordsOK
<1> QED BY <1>1, InitInv, StepInv, PTL DEF Spec

\* No pointer is ever recorded both as live and as freed, so that on_free_enter
\* never takes the free of a recorded live block for a double free.
THEOREM RecordsApart == Spec => []LiveAndFreedApart
<1>1. IInv => LiveAndFreedApart
  BY DEF IInv
<1> QED BY <1>1, InitInv, StepInv, PTL DEF Spec

\* As long as the history is clean, the records are the program's live blocks with
\* their sizes whenever the program runs: dump_leak_report lists exactly the leaks.
THEOREM RecordsExact == Spec => []RecordsAreExact
<1>1. IInv => RecordsAreExact
  BY DEF IInv, Tracked, Matches, RecordsAreExact
<1> QED BY <1>1, InitInv, StepInv, PTL DEF Spec

\* Under the same condition on_free_enter is quiet exactly about null pointers and
\* live blocks of the program's.
THEOREM FreeReportsExact == Spec => []FreeReportsAreExact
<1>1. IInv => FreeReportsAreExact
  <2> SUFFICES ASSUME IInv, clean, where = "app", NEW ptr \in Pointers
               PROVE  FreeReport(ptr) = "none" <=> ptr \in Own \cup {0}
    BY DEF FreeReportsAreExact
  <2>1. Own = DOMAIN m_allocations
    BY DEF IInv, Tracked, Matches
  <2>2. DOMAIN m_allocations \cap DOMAIN m_freed = {}
    BY DEF IInv, LiveAndFreedApart
  <2> QED BY <2>1, <2>2 DEF FreeReport
<1> QED BY <1>1, InitInv, StepInv, PTL DEF Spec

\* Under the same condition on_memory_read reports an uninitialized read only of a
\* byte that nobody has written since its block was allocated.
THEOREM UninitializedReportsReal == Spec => []UninitializedReportsAreReal
<1>1. IInv => UninitializedReportsAreReal
  <2> SUFFICES ASSUME IInv, clean, where = "app", NEW a \in Heap,
                      ReadReport(a) = "uninitialized", NEW p \in Hit(a)
               PROVE  a - p \notin blocks[p].written
    BY DEF UninitializedReportsAreReal
  <2>1. Matches({}, {})
    BY DEF IInv, Tracked
  <2>2. PICK q \in LiveContaining(a) : a - q \notin m_allocations[q].initialized
    BY DEF ReadReport
  <2>3. q \in Own /\ m_allocations[q].size = blocks[q].size
    BY <2>1 DEF Matches, LiveContaining, Nearest
  <2>4. q \in Hit(a)
    BY <2>2, <2>3 DEF LiveContaining, Nearest, Hit, Own
  <2>5. q = p
    <3>1. /\ Apart(blocks) /\ a \in Nat /\ Gap \in Nat
          /\ p \in DOMAIN blocks /\ p \in Nat /\ blocks[p].size \in Nat
          /\ q \in DOMAIN blocks /\ q \in Nat /\ blocks[q].size \in Nat
      BY <2>4, TracerAssumption DEF IInv, Typed, BlocksOK, BlockSet, Hit, Heap
    <3>2. p <= a /\ a < p + blocks[p].size /\ q <= a /\ a < q + blocks[q].size
      BY <2>4 DEF Hit
    <3>3. q = p \/ p + blocks[p].size + Gap <= q \/ q + blocks[q].size + Gap <= p
      BY <3>1 DEF Apart
    <3> QED BY <3>1, <3>2, <3>3
  <2> QED BY <2>1, <2>2, <2>3, <2>5 DEF Matches
<1> QED BY <1>1, InitInv, StepInv, PTL DEF Spec
=============================================================================
