# A TLA+ model of LinuxUserspaceEmulator

LinuxUserspaceEmulator runs a static or dynamically linked x86_64 Linux program
by interpreting its instructions. It keeps the guest's address space in a
software MMU, translates guest system calls to host system calls, emulates
signals, and can trace the guest's heap. This directory holds TLA+ modules for
its stateful core, TLC runs on small instances, and TLAPS proofs for all
instances.

Line numbers refer to files of the repository. `PROJECT.json` lists every
definition with the lines it models, every run, every mutant that shows that a
property can fail, the findings, the hazards and the theorems.

## 1. Inventory

| Component | State | Operations | Uses | What makes it correct |
|---|---|---|---|---|
| Software MMU (`SoftMMU`) | sorted list of regions with bytes and shadow bits, `m_next_allocation` | `map_zeroed`, `map_bytes`, `map_mmap`, `allocate`, `allocate_mmap`, `unmap`, `protect`, reads, writes, `mark_initialized` | – | one owner per address; an operation changes exactly its pages; contents, permissions, shadow and file offset survive splits |
| Memory system calls (`LinuxSyscalls::dispatch`, `Emulator::set_brk`) | `m_brk`, `m_brk_region_end` | `mmap`, `munmap`, `mprotect`, `mremap`, `brk` | MMU, host `pread` | only `MAP_FIXED` replaces; moves keep contents; errors leave other mappings alone; the heap below the break is mapped |
| Signals (`Emulator`) | host flags, pending set, mask, actions, frames on the guest stack | host handler, `collect_host_signals`, `dispatch_pending_signal`, `rt_sigaction`, `rt_sigprocmask`, `rt_sigreturn`, `kill` | CPU, MMU | no signal lost, masks nest, signals get through |
| Malloc tracer | pending calls, live and freed records, initialized bytes | step, enter/leave of malloc, free, realloc, calloc, read and write observers, leak report | CPU, MMU, symbols | no live block reported as freed, entry and return match, leaks are what is unreachable |
| CPU interpreter (`SoftCPU64`) | registers, flags, XMM and x87 state, shadow of registers and flags, call stack | one instruction per step | MMU, system calls | flags and results at every width, taint reaches every use, the x87 ring is a stack |
| System call layer (`LinuxSyscalls::dispatch`) | descriptor-to-path registry | about 150 calls | host, MMU | copies match what the host returned and stay in the buffers, registry matches descriptors |
| ELF loader, symbols | the loaded program | load, read ranges and symbols | MMU | segments are where the headers say, break and program headers are found |
| Backtraces, loaded images (`Emulator`) | list of images with their functions, the call stack | register, look up, walk | CPU, registry, symbols | an address is described by the right file and function |
| Command line | options | – | – | – |

How they interact: `Emulator::exec` is one loop. It runs `SoftCPU64::step` (one
instruction, which may be a system call, which may call the MMU or change the
signal state), then the tracer's step, then `collect_host_signals`, then
`dispatch_pending_signal`. There is one guest thread. The only concurrency is
the host's signal handler, which can run between any two machine instructions
of the emulator; it communicates through an array of flags. MMU reads and
writes call back into the malloc tracer. Failures are C++ exceptions:
`EmulatorError` and `GuestExit` end the loop; `std::length_error` is caught by
nothing.

What is hard here: the race with the host's handler; a host call that blocks
after the flags have been read; nested handlers that save and restore masks;
system calls made of several MMU operations one of which fails; region lists
after long sequences of splits; sums of addresses and sizes that wrap; a tracer
that follows calls while handlers interrupt them; flags and quotients at the
edges of each operand width; taint through partial registers and partly written
flags; data that the host has given away before the guest's buffer turns out not
to be writable; registries that outlive what they describe.

## 2. Modules

| Module | Models | Role |
|---|---|---|
| `Regions` | `SoftMMU.cpp`, `SoftMMU.h`, `Types.h` | pure operators on region lists |
| `SoftMMU` | `SoftMMU.cpp` | the MMU as a state machine: one action per operation |
| `AddressSpace` | – | what the MMU promises: one flat array of bytes |
| `RegionsProofs` | – | lemmas about `Regions` that the next two proof modules use |
| `SoftMMUProofs` | – | theorems about `SoftMMU`, the refinement of `AddressSpace` |
| `MemorySyscalls` | `LinuxSyscalls.cpp` 1003–1159, `Emulator::set_brk` | system calls as sequences of `Regions` operators |
| `MemorySyscallsProofs` | – | theorems about `MemorySyscalls` |
| `Signals` | `Emulator.cpp` 104–120, 330–510 | host handler, loop, guest's signal calls |
| `SignalsProofs` | – | theorems about `Signals` |
| `MallocTracer` | `MallocTracer.cpp` 19–349 | the tracer beside a guest and its allocator |
| `MallocTracerProofs` | – | theorems about `MallocTracer` |
| `Alu` | `SoftCPU64.cpp` 297–576, 613–917, 1102–1286 and cases of `step` | integer instructions, words of a scaled width |
| `Taint` | `SoftCPU64.cpp` 216–505 and the operand accesses of all integer instructions | shadows of registers, of a stack slot and of the flags |
| `TaintProofs` | – | theorems about `Taint` |
| `X87` | `SoftCPU64.h` 170–222, `SoftCPU64::execute_x87` | the ring of x87 registers |
| `CpuProofs` | – | theorems about `Alu` and `X87` |
| `Images` | `ELFLoader.cpp`, `ELFSymbols.cpp`, `Emulator.cpp` 528–647, descriptor calls of `LinuxSyscalls.cpp` | from files to addresses and back |
| `GuestIO` | `LinuxSyscalls.cpp` 638–1000, 1252–1484, 1556–1787 | calls that copy between guest and host |
| `HostProofs` | – | theorems about `GuestIO` and `Images` |
| `MCSoftMMU`, `MCMemorySyscalls`, `MCSignals`, `MCMallocTracer`, `MCCpu`, `MCTaint`, `MCImages`, `MCGuestIO` | – | values of constants for TLC; `MCCpu` joins `Alu` and `X87` |

### Regions, SoftMMU, AddressSpace

A region is a record of base, size, permissions, kind, file offset and cells; a
cell is a byte and its shadow bit. The list is a set: it is sorted by base, but
because no two regions contain the same address (a theorem) the order is not
observable. Addresses and sizes are `0 .. Space - 1`, and every sum is taken
modulo `Space`, so wrapping is exactly that of `u64`. An operation that throws
is a predicate (`MapFails`, `SplitAborts`, `write_fails`) next to the operator
that computes the new list. `std::length_error` stops the emulator, so `Next`
is disabled after it; `EmulatorError` does not stop the `SoftMMU` module, which
is the MMU as a component that a caller may go on using.

The search loop of `allocate` and `allocate_mmap` is not unrolled.
`SearchStops` says where it ends: each round moves to the end of the first
region in the way, so candidates are the starting point and ends of regions,
and the first free one in ascending order is taken. When nothing is in the way
of a range that wraps, the loop also stops, and the final map throws after
`m_next_allocation` has moved; the model keeps this.

`AddressSpace` has one record per address and no regions. Its operations say
which addresses change and how, and leave open which exceptional case occurs
where the region list matters only for that. `SoftMMU` implements it with
`mem <- FlatView(m_regions)`. Both record the last call in `call`, with a bit that
turns on every call: an operation that changes nothing is therefore not a
stuttering step, and each call must be matched by the same call of
`AddressSpace`.

### MemorySyscalls

One action per call, from the code's early returns in their order; each
combines `Regions` operators as the code combines MMU calls. A guest store is
an action too, so that contents differ. When an exception escapes, the emulator
ends, and the step records only that. `pread` of the host is a choice: error,
or any number of bytes up to the size asked for. The history variable `call`
holds the arguments of the last call for the properties; no step reads it, and
the runs' `VIEW` leaves it out.

### Signals

`pc` is the stage of the loop. `collect_host_signals` is split where the
handler can interrupt it with effect: testing a flag, clearing it, delivering
the signal. The remaining stages touch no variable the handler touches, and are
one step each. Blocking system calls have two steps, the decision to make the
call and the wait in it, because a host signal in between does not interrupt
the wait. The handlers are installed with `sa_flags = 0`, so a signal during
the wait ends it (`EINTR`).

A frame records the saved mask and the signal; `opened` is history: the handler
(or one that has returned to it) has unblocked something with
`rt_sigprocmask`. Frames are left in the order of nesting; a handler that jumps
out never returns, which is a behaviour in which `SigReturn` is not taken. The
guest's memory is not modelled, so neither is a guest that edits its frames, nor
a fault while a frame is written.

### MallocTracer

The tracer looks at the instruction pointer after every instruction. Between two
points where it does something the guest may run freely, so the guest is
modelled by these points: a call of a heap function by the program (`CallHeap`),
the allocator's work (`Perform`, external), the return (`Return`), a handler that
interrupts the call (`Interrupt`: the tracer takes it for the return, and RAX
holds anything), the handler's return, stores (`Write`, `AllocatorWrite`), and
heap calls that libc makes itself and that the tracer ignores (`InternalAlloc`,
`InternalFree`). `blocks` is the truth: the allocator's live blocks, whether the
program asked for them, and which bytes have been written.

What is reported of a free, a load or a store depends on the tracer's state alone
and changes nothing, so it is an operator (`FreeReport`, `ReadReport`,
`WriteReport`), and the properties quantify over all pointers and addresses. A
block too large to be tracked is a record with all bytes initialized, as the code
treats it. `clean` is history: it turns false when a handler interrupts a heap
call, when a realloc of a block fails, when the program reallocates a block that
libc asked for, and when libc frees a block of the program's. In each of these
cases the records stop being exact; `LiveAndFreedApart` holds nevertheless.

A handler can take over at the entry of the heap function (`entry`: the tracer has
just looked at it, `Emulator.cpp` 156–159) or inside. The tracer leaves the call
when it sees the handler's first instruction. When `rt_sigreturn` comes back into
the function, nothing happens; when it comes back to the entry, the tracer
enters the function once more (`HandlerReturn`, `MallocTracer.cpp` 27–35). What
`record_allocation` tells the MMU about the new block (`mark_initialized`, 195–201)
is left out: it is about taint, and no property here depends on it.

### Alu

One instruction is executed from any contents of its registers and flags: the
CPU has no state that makes a sequence of arithmetic instructions harder than
its members, so a behaviour is `Fetch` followed by one action of the
interpreter's switch. `rax` is the destination and accumulator, `rdx` the upper
half or third operand, `opnd` the other operand, wherever it comes from. A word
of `WordBits` bits stands for `u64`; where the code computes in `u64` the model
takes the result modulo 2^WordBits, where it uses `__int128` the model uses
integers. A 32-bit write clears the upper half of its register, narrower ones
keep the rest. AF is written and never read, and is left out. `ins` is history:
the instruction and the state it found.

### Taint

Values are not modelled. Next to the code's `shadow` and `flags_tainted` the
ghost variables `owed` and `flags_owed` say which bytes and flags may differ
between two runs of the program that differ only in uninitialized memory. They
follow everything that a result depends on, whether or not the code asks for its
shadow: operands, shift counts, the carry, addresses, and the conditions that decide
whether anything is written. `shadow` follows the code's shadow operations.
Soundness relates the two: what may differ is tainted.

The code does not always ask. `followed` is history: it turns false when an
instruction uses something that may differ without its taint (`Unasked` in the
actions), and soundness is claimed until then. So `TaintIsSound` says that the
machinery which carries taint (partial registers, high bytes, zero extension,
merging, memory, flags) loses nothing, and the places where taint is not carried at
all are named one by one: finding 3 lists them, and the run `taint_followed` shows
that the property fails without the condition. Two things count as defined: x87 and
SSE registers, which README.md:37 of the repository excludes, and what the kernel
answers. What a signal handler leaves in registers is defined, but `rt_sigreturn` restores
values without their taint (`handle_sigreturn`).
That a taint is kept too long is not checked: results are marked as a whole, by
design.

### X87

`st`, `empty` and `top` are the code's arrays and index; `stack` is a ghost, the
sequence of values that the program believes to be on the stack. It is followed
as long as the program uses registers it has loaded, does not load more than the
ring holds, and neither frees registers nor moves the top by hand (`in_order`):
the code checks none of this. The result of an operation is any value. The
outcome of a comparison is any of the four.

### Images

A byte of memory is where it came from: an offset of a file, zero, or unmapped.
`load` places executable and interpreter as `load_object` does, header by header
and in its order, so that a collision ends the emulator; the program's base,
entry, program headers and break come out of the same pass. Opening, duplicating,
closing and mapping are one action each, with the host's choice of the
descriptor. `register_host_fd` asks the host for the name of a descriptor that has
just been opened (`path_from_host_fd`, a readlink in /proc). When that fails, the
entry stays as it was: missing after `open`, the name of another file after `dup2` or
`dup3`. `unread` is history: the open descriptors whose name was not found.
`register_loaded_image` is part of `load` and of `mmap`, where the
code calls it. Files are a constant: headers, entry and symbols of each, as
`FilesAssumption` types them. The headers are gone through by a recursive function
(`placed`), one step of which (`PlaceHeader`) is one turn of the code's loop.
A segment of no bytes makes `map_bytes` throw unless it starts inside a page.
`orderly` is history: no mapping has replaced or removed another, and files have
been mapped whole and under their own names.

### GuestIO

One action per family of calls that copies arguments in, calls the host, and
copies results out: vectors (`readv`, `writev`; a plain `read` or `write` is a
vector of one), `recvfrom` and the calls that return a socket address,
`getdents64`, `getxattr`, `stat`, `select`, `poll`, `epoll`, `prlimit64`, `ioctl`,
clocks and sleeps. The loops over a vector are recursive functions of the number of
buffers done; guest memory has `MemSize` addresses, and a vector at most `MaxIov`
buffers. A structure is one byte. The host takes from `input`, does less than it was
asked for, or fails. A byte that cannot be accessed ends the emulator in the
middle of the copy, when the host has already done its part; `ioctl` alone
catches the error.

## 3. Runs

| Run | Instance | Shows |
|---|---|---|
| `softmmu` | page 2, 6 addresses, unaligned bases, sizes up to 5 (rounds to 0), two-byte stores, shadow bits, file offsets | `TypeOK`, `UniqueOwner`, `PageGranular`, `EmptyRegionsAreHarmless`, refinement of `AddressSpace` |
| `memory` | page 2, 10 addresses, lengths 0, 2, 3 and 9, all flag sets of `mmap` and `mremap` | `OnlyFixedReplaces`, `MmapIsExact`, `MoveIsExact`, `ErrorsTouchOnlyTarget`, `BreakIsBackedBelowTop` |
| `signals` | 3 signals, 2 masks, 2 raised | safety and liveness of signals |
| `malloc_tracer` | 4 addresses, sizes 1 and 2, only size 1 tracked, 3 heap calls | records, free reports and uninitialized reports |
| `cpu` | words of 6 bits, widths 1, 2, 3 and 6, 14 words; a ring of 4, two values | conditions, sums, products, quotients and shifts against the integers; `RingIsStack`, `TagsFollowStack` |
| `taint` | RAX and RCX, one slot, four parts per word, 3 instructions | `TaintIsSound`, `FlagTaintIsSound` |
| `images` | page 2, 24 addresses, 7 files, 2 descriptors whose names the host may not find, 3 images | `ProgramIsPlaced`, `PathsAreOpenFiles`, `ImagesDescribeFiles` |
| `guest_io` | 6 addresses, two of them unmapped and one read-only, three bytes from the host | `TransfersAreExact`, `WritesStayInBuffers` |
| `signals_blocking` | as `signals`, 1 raised | violation of `ForwardedEventually` |
| `malloc_tracer_live` | 7 addresses of 8 bytes each, blocks of 24 bytes, red zone 16, header 8 | violation of `LiveBytesAreNotReported` |
| `taint_followed` | as `taint` | violation of `LanesAreTainted` |
| `images_exec` | as `images`, with an executable at a fixed address | violation of `ExecutableIsDescribed` |

Why these bounds are enough to be interesting. Two-byte pages make every
rounding visible. Two pages that can be mapped and a third that cannot (a region
never ends at the top of the address space) are enough for a region to be split,
for a store over the boundary of two regions, for ranges that wrap, and for the
empty regions that a wrapped size cuts. In the system-call runs, an image and a
stack are mapped from the start, with the heap and the first free address
between them. Byte values are 0 and 1: copies only need to tell written from
fresh bytes. Three signals are one that the host sends and the guest blocks, one
that cannot be blocked, and one that is ignored by default; two raised signals
allow re-entry, nesting and starvation of one by another. Three heap calls are
enough for a block to be freed and handed out again, for two blocks and a
realloc that moves one of them, and for a call after an interrupted one. Behaviours
that are no longer `clean` are explored up to the third call (the constraint
`Bounded`); those of `images` that are no longer orderly are not explored further
(`WhileOrderly`): the properties about memory ask for order, and the registry of
descriptors does not depend on memory. The proofs cover all
other sizes, except of liveness and of `ImagesDescribeFiles`.

A 6-bit word keeps what the real widths have: the byte is half of the second
width, every width but the word has its double product within the word, and the
32-bit width (3) zero-extends. Its 64 values are sampled at 0, 1, the edges and
neighbours of each width and sign bit. In `taint` the parts of a word are byte 0,
byte 1, bytes 2–3 and bytes 4–7, exactly the parts that the operand widths tell
apart; two registers have high bytes and, between them, every exchange; three
instructions load, narrow or combine, and store (`MaxSteps`; `TaintSound` is proved
for any number). A ring of four wraps within four
pushes, and holds three registers above a value that must survive. The files of
`images` are a program with and without interpreter, one linked at a fixed
address, one whose segments share a page, a C library with nested functions and
a text file; two descriptors are enough to duplicate one over the other and to
reuse a number. Three bytes from the host fill two buffers and leave a short
count in a third.

Deadlock is not checked: the emulator may end, and the MMU instances can reach
a state in which no operation of the small argument sets does anything new.

### Fairness

`Signals` assumes weak fairness of the emulator's thread: some step of the loop
is taken as long as one is possible. It assumes nothing of the host: signals
need not arrive, and a blocked system call need not complete. There is no
assumption that the guest takes any particular instruction; a guest that
computes for ever is allowed. Liveness holds for finitely many signals
(`MaxRaised`): dispatch prefers low signals, one per instruction, so an
unbounded stream of low signals could starve a high one.

## 4. Findings

1. `signals_blocking`: a host signal just before a blocking call is not
   forwarded while the call blocks (`Emulator.cpp:157`, `341`).
2. `malloc_tracer_live`: a store to the first bytes of a live block is reported
   as an overflow of the block before it, because the red zone is wider than a
   chunk header (`MallocTracer.cpp:282`). The same property fails, with a red
   zone of the width of the header, through freed records that a later block
   covers without starting at the same address (`MallocTracer.cpp:193`).
3. `taint_followed`: MOVS copies uninitialized memory as initialized
   (`SoftCPU64.cpp:2292`), against `ValueWithShadow.h:34`, by which a result counts as
   initialized only if every source operand was. The same holds of other sources
   that are read without their shadow: AL in STOS (2298), the shift count in CL
   (888), the carry of ADC and SBB (510), the value that a bit string in memory keeps
   (1149, 1166–1171), R11 at SYSCALL (990), the operand of a float comparison in memory
   (1637), and registers restored by `rt_sigreturn` (`Emulator.cpp:502`). Where a
   tainted condition decides that nothing is written (CMOV, a count of zero, a scan of
   zero), the destination stays unmarked too. `Unasked` names each in its action.
4. `images_exec`: the base of an executable linked at a fixed address wraps below
   zero, above the image's end, and no address of the program is ever described
   (`Emulator.cpp:578`).

Other behaviour the models made visible, by the exceptions that the properties
had to make. Memory: a break in the last page of the address space is granted
with nothing mapped, because it rounds up to 0 (`Emulator.cpp:300`;
`BreakIsBackedBelowTop` excludes it); `MREMAP_FIXED | MREMAP_DONTUNMAP` onto an
overlapping range loses contents (`LinuxSyscalls.cpp:1111`; `MoveIsExact` speaks
of disjoint ranges); growing a read-only mapping ends the emulator
(`LinuxSyscalls.cpp:1143`); `brk` into a mapping ends it too (`Emulator.cpp:302`); `munmap` and `mprotect` of a
range that wraps do nothing or end in `std::length_error`; a failing `pread`
under `MAP_FIXED` leaves a hole; an action's mask may block SIGKILL while its
handler runs; a failing realloc turns the record of a live block into a freed one
(`MallocTracer.cpp:137`); a signal at the entry of a heap function makes the tracer
enter it twice, so that one `free` is reported as a double free, and a `malloc` may be
recorded after all (`MallocTracer.cpp:27`); freeing what `strdup` returned is reported as an
invalid free, since the tracer ignores the allocation.

CPU: a 64-bit `add` never sets CF, as its carry is read off a wrapped sum
(`SoftCPU64.cpp:511`; `NarrowSumsAreExact` stops below the word); a 64-bit `sar`
fills with zeros (`:909`); `parity_even` is true for odd parity (`:60`); rotations
by more than the width shift by a negative number (`:896`); TEST with a 32-bit
immediate does not sign-extend it (`:773`). An instruction that writes only some
flags overwrites the taint of the others (`:1112`), and `mul` and IMUL with an
immediate leave an old taint on new flags, so a branch can go unreported
(`FlagTaintIsSound` holds until then). x87: `D9 F6` and `D9 F7` move the top the wrong
way round (`:2172`), overflow and underflow are not detected, and before the first
FNINIT no register is tagged empty. Images: images are not removed by `munmap`,
a file that is mapped in parts is registered once per part with a base of its
own, and a second mapping of the C library replaces the `malloc` that the tracer
watches. After a readlink that failed, a descriptor that `dup2` has opened again keeps
the old name, and mapping it registers the symbols of the wrong file
(`Emulator.cpp:530`; `PathsAreOpenFiles` says that nothing else leaves such a name).
System calls: a fault in the guest's buffer ends the emulator after the
host's data has been consumed, and an interrupted sleep does not report the
remaining time.

## 5. Proofs

Every theorem is about `Spec`, for all values of the constants that satisfy the
module's assumptions; TLC evaluates those on every run. Invariants are proved
from an inductive one (`IInv`, `X87Inv`, `ImagesInv`, or the type invariant where it
suffices), action properties from that and one step.

### Regions and SoftMMU

`SoftMMUProofs` proves `TypeCorrect`, `OneOwner`, `WholePages`, `NoObstacles` and
`Refinement`, for every page size, every space of at least two pages and any
arguments. The invariant is the conjunction of the four invariants and of
`NextWhole` (the next allocation starts on a page). They are needed at once: a
piece cut by `split_around` is well formed only if the range ends inside the
region, the overlap test of `ensure_no_overlap` implies disjointness only if no
region's end has wrapped, and an empty piece lies between two mapped bytes only
because the region it was cut from is whole pages and no other region is there.

`RegionsProofs` has, for every operation on the list, one lemma per part of the
invariant and one about the flat view. Pieces lie within their region and apart
from each other (`PiecesType`), so splitting keeps ownership (`SplitOwned`);
removing regions and replacing them in place keep it (`SubsetOwned`,
`SamePlaceOwned`); adding a region that passes `ensure_no_overlap` keeps it
(`AddOwned`). With unique owners the flat view of a list is that of the one
region that contains an address (`FlatIn`, `FlatOut`), splitting does not change
it (`SplitView`), and each operation changes it exactly in its range (`UnmapView`,
`ProtectView`, `MapView`, `WriteView`, `MarkView`). The refinement matches every
call with the call of the same name. The allocation needs an argument of its own
(`SearchFinds`, `AllocateRefines`): a free range that starts somewhere can be
moved down to the nearest end of a region, or to the start of the search, and is
then one of the candidates.

### MemorySyscalls

`MemorySyscallsProofs` proves `TypeCorrect` and `BreakBacked`, and the action
properties as `FixedAloneReplaces`, `MmapExact`, `MoveExact` and
`ErrorsContained`, for every page size, space, initial mapping and argument. The
invariant is `TypeOK /\ BreakIsBackedBelowTop`. Three things carry the proof.
A range whose bytes are all mapped does not wrap, since the last address is never
mapped (`MappedRange`). What a call does to the flat view is the composition of
the views of the operators it combines (`PopulateView`, `CopyView`); a failing
later operation leaves what the earlier ones did, and `UndoView` shows that taking
the new mapping away again restores what was there. The copy loop of `mremap`
reads back its own output when the ranges overlap; `Source` is the closed form of
what byte each iteration reads, shown by the least counterexample (`CopiedBytes`),
and between disjoint ranges it is the plain copy (`PlainSource`).

### Signals

`SignalsProofs` proves `TypeCorrect`, `NothingLost`, `KillNotBlocked` and
`HandlersNotReentered`, for every number of signals, any masks and any depth of
nesting. For the last two the invariant is `Nesting`: SIGKILL is not in the mask
that will be current after all handlers have returned (`KillFree`), and the
signal of every frame is in each mask saved above it, and in the current one, up
to the first frame that has unblocked something (`Guarded`). The properties are
not inductive on their own because `rt_sigreturn` restores saved masks, about
which they say nothing.

### MallocTracer

`MallocTracerProofs` proves `TypeCorrect`, `RecordsApart`, `RecordsExact`,
`FreeReportsExact` and `UninitializedReportsReal`, for every heap, all sizes and any
interruption. `RecordsApart` is inductive as it stands: `record_allocation` removes
the pointer it enters from `m_freed`, whatever the pointer is, and entering a call
changes no record: so neither the value that a handler leaves in RAX nor a call that
is entered twice can break it (`StepApart`). The others speak of the program between two
heap calls and say nothing of a call in progress, when the records lag behind the
blocks: the allocator has given out or taken back a block, and the tracer learns of
it at the return. The invariant `Tracked` says by how much: while the program runs
the records match its blocks, and inside a heap call they match but for the blocks
that the call has added or removed, which are those that its arguments and its
result announce (`InCall`). A second entry after a handler happens only when the
behaviour is no longer `clean`, about which they claim nothing. It also says that every byte a record has as
uninitialized has not been written.

### Alu

`CpuProofs` proves `AluTypeCorrect`, `Comparing`, `Summing`, `Multiplying` and
`Shifting` for every word size, all widths that satisfy `WidthsAssumption` (8, 16, 32
and 64 do: all but the word at most half of it), and all contents of the registers.
`PowersAssumption` states the laws of powers of two up to a double word, which the
provers do not know; TLC evaluates them. For comparisons, sums and products the
invariant adds that an instruction finds integers in its registers, a set of flags,
and no earlier fault; for shifts it is `TypeOK`. Words are taken apart as
quotient and remainder of the modulus, which exist and are unique (`Quotient`,
`Division`); a signed reading is the only number of its range with that remainder
(`SignedUnique`). What is left of sums and comparisons is linear. For products,
the two halves written are those of the double-width number (`PairRead`,
`Together`), whose range is that of the product (`MulRange`, `ImulRange`). For a
signed division, truncation gives a quotient and a remainder with the dividend's
sign (`TruncatedDivides`), and there is only one (`TruncatedUnique`): so a fault
means that no quotient of the width exists.

Logic, rotations and double shifts work on bits. `Bit(x, i)` is the bit of value 2^i;
how it follows a shift, a wrap and a concatenation is division with remainder
(`ShiftedBit`, `WrappedBits`, `LowBits`, `HighBits`). Two numbers below 2^k with the
same bits are equal (`SameBits`), and every set of positions is the bits of some word
(`SomeWord`), so `FromBits` is well defined; both are inductions over the positions,
by the least counterexample (`Induction`). From these, a rotation puts bit i at
position (i + c) % w (`UpRotates`, `DownRotates`, `RotatedBits`), and SHLD and SHRD take
a window out of two words in a row (`UpWindow`, `DownWindow`). SAR is exact below the
width of `u64` because the sign-extended word, divided by 2^c, still agrees with the
quotient on the lower half (`Sar`). `AluTypeCorrect` goes through the fifteen kinds of
instruction: what each hands to `write_gpr` is an integer, and `write_gpr` makes a word
of any integer (`WriteWord`), also for packed products and scanned bits.

### Taint

`TaintProofs` proves `TypeCorrect`, `TaintSound` and `FlagTaintSound` for any set of
registers and parts of a word that are followed and any number of instructions. The
last two hold for as long as `followed` does: until an instruction uses a value that
may differ without asking for its taint. `FollowsStill` and `UnaskedStill` carry the
condition, and each action's lemma (`AluKeeps` to `SigreturnKeeps`) shows that within it
what may differ was tainted when it was read. The
invariant is the conjunction of the three properties; flags and words need each
other, since a tainted flag goes into a register through SETcc and CMOVcc, and
a tainted register into the flags. The argument: a value and its shadow are found
in the same place (`SamePlace`), so what differs is tainted when it is read
(`ReadSound`), and a write of a value that is covered by its shadow keeps every cell
covered, the parts included that the write leaves alone or zero-extends over
(`WriteCovers`); every instruction is a combination of such reads and writes.

### X87

`CpuProofs` proves `RingTypeCorrect`, `RegistersAreStack` and `TagsAreStack` for
every ring of at least two registers and any values. The inductive invariant is
`X87TypeOK /\ RingIsStack /\ TagsFollowStack`: registers and tags are found through
the top, so both need it to be in the ring, and a push keeps the registers only
because a stack that stays in order had a free slot, the one below the top. The
argument: an index from the top wraps at most once and different indices below the
size reach different slots (`AtValue`, `AtInjective`); after a push every old register is one index further, after a pop it is that many nearer
(`AtBelow`, `AtAbove`); from this, pushing, popping and replacing keep the
correspondence (`PushRing`, `PopRing`, `ReplaceRing` and the same for tags), and
each instruction is one of these or leaves the stack's rules.

### GuestIO

`HostProofs` proves `GuestMemoryTypeCorrect`, `Transferring` and `WritingInBuffers` for
every memory and protection of it, any number of buffers, which may be empty, overlap
or end outside of memory, and everything the host may return. `IOTypeOK` is inductive
and adds that what the host has still to deliver is a suffix of what it had. The other
two are action properties, each from it and one step. Recursive functions over a
vector exist by a lemma (`Recursion`), and what holds after i buffers is shown by the least counterexample. A vector is read as the sequence of addresses
that its buffers cover (`LaidOut`); after i buffers the host's bytes are in the first of
these addresses, a later buffer winning where two overlap, and the count that remains
is what the buffers have not taken (`Halfway`). The gathering of `writev` reads the same
sequence of addresses (`Collected`).

### Images

`HostProofs` proves `ImagesTypeCorrect`, `Naming` and `PlacingPrograms` for any files,
descriptors and program headers in any order. `FilesAssumption` says that what is read
from files are numbers and names; `LinkerAssumption` says what a linker guarantees and
`load_object` does not check: segments end within the address space, those of a program
at a fixed address do not start at 0, and a PT_PHDR header tells the address of the
headers. `Naming` holds with any failures of readlink: a step either gives a descriptor the
name of its file or enters it in `unread` (`RegisterStep`, `DescriptorStep`).
The invariant `ImagesInv` adds to `PathsAreOpenFiles` the types of memory and
registry, that the break is on a page boundary, and that the program is in memory as
long as no mapping has replaced or removed another. Loading is an invariant of the loop
over the headers (`Progress`): nothing that was mapped has changed, every loadable
segment so far is in place and below the break, and the address of the headers, once
found, is the right one. The interpreter is loaded into what the executable left, so its
pass keeps the executable (`Keeps`). Later mappings into free memory keep both.

### Only model-checked

- Liveness of signals (`ForwardedUnlessBlocked`, `DispatchedEventually`): fairness and ENABLED are
  out of the proof system's reach.
- `Images.ImagesDescribeFiles`: it is not true of all files. It needs segments without
  gaps between them and addresses that equal file offsets, as the files of the run have
  them; with other layouts a byte of a file that is mapped whole is not at its virtual
  address, or lies outside of the range that `register_loaded_image` enters.
  An assumption that excludes these would not be one that the code may rely on.
- The violated properties of section 4, which are false.

## 6. Plan

1. `LeakReachability`: the leak report's graph walk against reachability.
   `MallocTracer` with handlers that allocate.
2. `SignalFrames`: the frame on the guest's stack, red zone, registers saved and
   not saved.
3. `Backtrace`: the call stack under calls, returns and signal frames, and the
   walk over frame pointers.

## 7. Not modelled

Instruction fetch, prefixes and address arithmetic, the bytes of an instruction
(an operand relative to RIP is computed before the immediate behind it is
fetched, `SoftCPU64.cpp:2444`), LOOP and JRCXZ, the bits of bit strings in memory, jumps and
calls, SSE and x87 arithmetic, and the disassembler used in reports
(`SoftCPU64.cpp` 2676–3242): computation on data, with no state whose sequence
could go wrong. The calls that pass integers to the host and return its answer,
and the table of their names; parsing and validation of ELF headers; the initial
stack; formatting; options of the command line.
