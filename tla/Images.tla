------------------------------- MODULE Images -------------------------------
(***************************************************************************)
(* From files to addresses and back: ELFLoader places the executable and   *)
(* its interpreter, the registry of descriptors names the files that a     *)
(* guest maps, and the list of loaded images, with the functions that      *)
(* read_elf_image_info finds, says for backtraces and for the malloc       *)
(* tracer which file and function an address belongs to.                   *)
(*                                                                         *)
(* A byte of guest memory is where it came from: an offset of a file, zero *)
(* or nothing.  Protections are SoftMMU's, arguments of mmap that place a  *)
(* mapping MemorySyscalls'.                                                *)
(***************************************************************************)
EXTENDS Integers, Sequences, SequencesExt

CONSTANTS
  PageSize,    \* page_size
  Space,       \* 2^64: addresses wrap
  Path,        \* names of files
  File,        \* what the ELF header, program headers and symbols of each file say
  Programs,    \* executables that may be started
  Opened,      \* files that the guest opens
  ExeBase,     \* executable_dyn_base
  InterpBase,  \* interpreter_dyn_base
  Inherited,   \* descriptors open when the emulator starts
  Fds,         \* descriptors of the host
  Targets,     \* page addresses that the guest maps files at
  Sizes,       \* sizes of the guest's mappings, in bytes
  MaxImages    \* bound: images registered

ASSUME ImagesAssumption ==
  /\ PageSize \in Nat \ {0} /\ Space \in Nat \ {0} /\ Space % PageSize = 0
  /\ Programs \cup Opened \subseteq Path /\ Inherited \subseteq Fds
  /\ Targets \subseteq {a \in 0 .. Space - 1 : a % PageSize = 0}
  /\ Sizes \subseteq 1 .. Space - 1

NoPath == "none"
Header == [type : STRING, vaddr : Nat, offset : Nat, filesz : Nat, memsz : Nat]

\* What is read from a file are numbers and names.
ASSUME FilesAssumption ==
  /\ ExeBase \in Nat \ {0} /\ InterpBase \in Nat \ {0}
  /\ \A path \in Path :
       /\ File[path].elf \in BOOLEAN
       /\ File[path].headers \in Seq(Header)
       /\ File[path].phoff \in Nat /\ File[path].entry \in Nat /\ File[path].size \in 0 .. Space
       /\ File[path].interpreter \in Path \cup {NoPath}
       /\ \A s \in File[path].symbols : s.value \in Nat /\ s.size \in Nat

\* ET_DYN objects are position independent and are placed at dyn_base.
Bias(path, dyn_base) == IF File[path].type = "dyn" THEN dyn_base ELSE 0

\* A byte of the file that the segment loads.
Holds(h, offset) == offset \in h.offset .. h.offset + h.filesz - 1

\* What the linker provides for: nothing at address 0 or so high that sums of addresses
\* wrap around, and a PT_PHDR that agrees with the segment that holds the headers.
ASSUME LinkerAssumption ==
  \A path \in Path : \A i, j \in 1 .. Len(File[path].headers) :
    LET h == File[path].headers[i]
        phdr == File[path].headers[j]
    IN  h.type = "load" =>
          /\ File[path].type # "dyn" => h.vaddr > 0
          /\ \A base \in {ExeBase, InterpBase} :
               Bias(path, base) + h.vaddr + h.memsz + PageSize <= Space
          /\ phdr.type = "phdr" /\ Holds(h, File[path].phoff)
               => phdr.vaddr = h.vaddr + (File[path].phoff - h.offset)

Socket == "socket"       \* a descriptor without a file, which /proc names all the same
Nothing == <<>>          \* not mapped
Zeros == <<"zero">>      \* mapped and not from a file

VARIABLES
  space,    \* where the byte at each address came from
  program,  \* m_program
  status,   \* "new", "running", or "ended" by an EmulatorError
  host,     \* the host's open descriptors
  paths,    \* m_fd_paths
  unread,   \* history: open descriptors that the host did not name when last asked
  images,   \* m_loaded_images
  malloc,   \* m_malloc_symbol
  orderly   \* history: mappings only went where nothing was, files were mapped whole
            \* and under their own names

vars == <<space, program, status, host, paths, unread, images, malloc, orderly>>

page_align_down(a) == a - (a % PageSize)
page_align_up(a) == page_align_down(a + PageSize - 1)

u64(n) == n % Space
Range64(first, size) == {u64(first + k) : k \in 0 .. size - 1}
Greater(a, b) == IF a > b THEN a ELSE b

-----------------------------------------------------------------------------
(* The ELF loader.                                                         *)

Headers(path) == File[path].headers
Loadable(path) == {h \in ToSet(Headers(path)) : h.type = "load"}

\* map_bytes of a segment, which the file must hold: whole pages, at least one, which must
\* be free and end below the top.
map_start(h, bias) == page_align_down(bias + h.vaddr)
map_offset_dropped(h, bias) == 0
map_offset(h, bias) == (bias + h.vaddr) - map_start(h, bias)
map_size(h, bias) == page_align_up(map_offset(h, bias) + h.memsz)

Segment(path, h, bias, memory) ==
  LET start == map_start(h, bias)
  IN  [a \in 0 .. Space - 1 |->
         LET k == a - start - map_offset(h, bias)
         IN  IF a \notin start .. start + map_size(h, bias) - 1 THEN memory[a]
             ELSE IF k \in 0 .. h.filesz - 1 THEN <<path, h.offset + k>>
             ELSE Zeros]

MapFails(path, h, bias, memory) ==
  \/ h.filesz > h.memsz \/ h.offset + h.filesz > File[path].size
  \/ map_size(h, bias) = 0
  \/ map_start(h, bias) + map_size(h, bias) >= Space
  \/ \E a \in Range64(map_start(h, bias), map_size(h, bias)) : memory[a] # Nothing

\* One program header; an object that has failed stays as it was.
brk_after(h, bias, brk) == Greater(brk, page_align_up(bias + h.vaddr + h.memsz))

PlaceHeader(path, bias, object, h) ==
  CASE ~object.failed /\ h.type = "interp" -> [object EXCEPT !.interpreter = File[path].interpreter]
    [] ~object.failed /\ h.type = "phdr" -> [object EXCEPT !.phdr = u64(bias + h.vaddr)]
    [] ~object.failed /\ h.type = "load" ->
         IF MapFails(path, h, bias, object.space) THEN [object EXCEPT !.failed = TRUE]
         ELSE [object EXCEPT
                 !.space = Segment(path, h, bias, object.space),
                 !.brk_start = brk_after(h, bias, object.brk_start),
                 !.phdr = IF @ = 0 /\ Holds(h, File[path].phoff)
                          THEN bias + h.vaddr + (File[path].phoff - h.offset) ELSE @]
    [] OTHER -> object

load_object(path, dyn_base, memory) ==
  LET bias == Bias(path, dyn_base)
      placed[i \in 0 .. Len(Headers(path))] ==
        IF i = 0
        THEN [failed |-> ~File[path].elf, space |-> memory, load_base |-> bias,
              entry |-> u64(bias + File[path].entry), phdr |-> 0, brk_start |-> 0,
              interpreter |-> NoPath]
        ELSE PlaceHeader(path, bias, placed[i - 1], Headers(path)[i])
      object == placed[Len(Headers(path))]
  IN  [object EXCEPT !.phdr = IF @ = 0 THEN u64(bias + File[path].phoff) ELSE @,
                     !.failed = @ \/ object.brk_start = 0]

-----------------------------------------------------------------------------
(* Loaded images.                                                          *)

MinVaddr(path) ==
  LET starts == {page_align_down(h.vaddr) : h \in Loadable(path)}
  IN  IF starts = {} THEN 0 ELSE CHOOSE v \in starts : \A w \in starts : v <= w

MaxVaddr(path) ==
  LET ends == {page_align_up(h.vaddr + h.memsz) : h \in Loadable(path)}
  IN  IF ends = {} THEN 0 ELSE CHOOSE v \in ends : \A w \in ends : v >= w

image_base_signed(load_base, min_vaddr) == load_base - min_vaddr
image_base(load_base, min_vaddr) == u64(load_base - min_vaddr)

\* Functions that the file defines; those it imports have no value.
function_symbols(path) == {s \in File[path].symbols : s.value # 0}

\* What the file says, converted to guest addresses; a symbol without a size covers one
\* byte.
Image(path, kind, load_base) ==
  LET base == image_base(load_base, MinVaddr(path))
  IN  [path |-> path, kind |-> kind, base |-> base, end |-> u64(base + MaxVaddr(path)),
       symbols |-> {[start |-> u64(base + s.value), name |-> s.name,
                     end |-> u64(base + s.value + Greater(s.size, 1))] : s \in function_symbols(path)}]

contains(range, a) == range.start <= a /\ a < range.end

\* register_loaded_image: a file that cannot be read as ELF is passed over, and so is an
\* image of the same file whose base is the new one.
Registered(list, path, kind, load_base) ==
  IF \/ path = Socket
     \/ ~File[path].elf
     \/ \E i \in 1 .. Len(list) : list[i].path = path /\ list[i].base = load_base
  THEN list
  ELSE Append(list, Image(path, kind, load_base))

\* The last image of the C library supplies the allocator's symbols.
MallocSymbol(old, list) ==
  LET symbols == UNION {i.symbols : i \in {j \in {Last(list)} : j.kind = "libc"}}
      found == {s \in symbols : s.name = "malloc"}
  IN  IF list = images \/ found = {} THEN old ELSE CHOOSE s \in found : TRUE

image_containing(a) ==
  LET found == {i \in 1 .. Len(images) : images[i].base <= a /\ a < images[i].end}
  IN  IF found = {} THEN 0 ELSE CHOOSE i \in found : \A j \in found : i <= j

symbol_containing_any(image, a) == {s.name : s \in {t \in image.symbols : contains(t, a)}}
\* The innermost function: the one that starts last.
symbol_containing(image, a) ==
  LET found == {s \in image.symbols : contains(s, a)}
  IN  {s.name : s \in {t \in found : \A s2 \in found : s2.start <= t.start}}

describe_address(a) ==
  LET i == image_containing(a)
  IN  IF i = 0 THEN [path |-> NoPath, vaddr |-> a, names |-> {}]
      ELSE [path |-> images[i].path, vaddr |-> u64(a - images[i].base),
            names |-> symbol_containing(images[i], a)]

-----------------------------------------------------------------------------
(* Actions.                                                                *)

NoProgram == [path |-> NoPath, entry |-> 0, phdr |-> 0, brk_start |-> 0, interpreter |-> NoPath,
              executable_base |-> 0, interpreter_base |-> 0]

Init ==
  /\ space = [a \in 0 .. Space - 1 |-> Nothing]
  /\ program = NoProgram
  /\ status = "new"
  /\ host = [fd \in Fds |-> IF fd \in Inherited THEN Socket ELSE NoPath]
  /\ paths = [fd \in Fds |-> NoPath]
  /\ unread = {}
  /\ images = <<>>
  /\ malloc = [start |-> 0, end |-> 0, name |-> NoPath]
  /\ orderly = TRUE

Ends ==
  /\ status' = "ended"
  /\ UNCHANGED <<space, program, host, paths, unread, images, malloc, orderly>>

\* Emulator::load: the executable, then its interpreter, where a dynamic program starts.
load(path) ==
  LET exe == load_object(path, ExeBase, space)
      dynamic == exe.interpreter # NoPath
      interp == IF dynamic THEN load_object(exe.interpreter, InterpBase, exe.space) ELSE exe
      first == Registered(images, path, "executable", exe.load_base)
  IN  /\ status = "new"
      /\ IF exe.failed \/ interp.failed
         THEN Ends
         ELSE /\ space' = interp.space
              /\ program' = [path |-> path, entry |-> interp.entry, phdr |-> exe.phdr,
                             brk_start |-> page_align_up(exe.brk_start),
                             interpreter |-> exe.interpreter,
                             executable_base |-> exe.load_base,
                             interpreter_base |-> IF dynamic THEN interp.load_base ELSE 0]
              /\ images' = IF dynamic
                           THEN Registered(first, exe.interpreter, "loader", interp.load_base)
                           ELSE first
              /\ status' = "running"
              /\ UNCHANGED <<host, paths, unread, malloc, orderly>>

\* register_host_fd after the host has opened fd on a file or socket: open, openat,
\* socket, socketpair, pipe, accept, epoll_create1, dup, dup2, dup3 and F_DUPFD.  If the
\* host cannot read the link in /proc, the entry stays as it was: missing, or, under dup2
\* and dup3, that of the file that was open before.
register_host_fd_only_new(fd, path, found) ==
  paths' = [paths EXCEPT ![fd] = IF found /\ @ = NoPath THEN path ELSE @]
register_host_fd(fd, path, found) ==
  paths' = [paths EXCEPT ![fd] = IF found THEN path ELSE @]

Opens(fd, path) ==
  \E found \in BOOLEAN :
    /\ host' = [host EXCEPT ![fd] = path]
    /\ register_host_fd(fd, path, found)
    /\ unread' = IF found THEN unread \ {fd} ELSE unread \cup {fd}
    /\ UNCHANGED <<space, program, status, images, malloc, orderly>>

open(fd, path) ==
  /\ status = "running"
  /\ host[fd] = NoPath
  /\ Opens(fd, path)

\* dup2 and dup3 close what the new descriptor was open on.
dup2(from, to) ==
  /\ status = "running"
  /\ host[from] # NoPath
  /\ Opens(to, host[from])

\* unregister_host_fd after the host has closed the descriptor.
close(fd) ==
  /\ status = "running"
  /\ host[fd] # NoPath
  /\ host' = [host EXCEPT ![fd] = NoPath]
  /\ paths' = [paths EXCEPT ![fd] = NoPath]
  /\ unread' = unread \ {fd}
  /\ UNCHANGED <<space, program, status, images, malloc, orderly>>

\* mmap of a file: the start of a file makes an image of the file that the registry names,
\* whatever was read through the descriptor.  pread fails on a socket.
KindOf(path) == IF path = Socket THEN "" ELSE File[path].kind

mmap(fd, target, size, offset) ==
  LET path == host[fd]
      range == Range64(target, page_align_up(size))
      register == offset = 0 /\ paths[fd] # NoPath
      list == IF register THEN Registered(images, paths[fd], KindOf(paths[fd]), target) ELSE images
  IN  /\ status = "running"
      /\ path \notin {NoPath, Socket}
      /\ target + page_align_up(size) < Space
      /\ Len(list) <= MaxImages
      /\ space' = [a \in 0 .. Space - 1 |->
                     IF a \notin range THEN space[a]
                     ELSE IF offset + a - target < File[path].size THEN <<path, offset + a - target>>
                     ELSE Zeros]
      /\ images' = list
      /\ malloc' = MallocSymbol(malloc, list)
      /\ orderly' = (/\ orderly
                     /\ \A a \in range : space[a] = Nothing
                     /\ register => paths[fd] = path
                     /\ File[path].elf => /\ register
                                          /\ page_align_up(size) >= MaxVaddr(path) - MinVaddr(path))
      /\ UNCHANGED <<program, status, host, paths, unread>>

\* munmap, and the gap that a failed mmap of a socket leaves: images stay.
munmap(target, size) ==
  /\ status = "running"
  /\ space' = [a \in 0 .. Space - 1 |->
                 IF a \in Range64(target, page_align_up(size)) THEN Nothing ELSE space[a]]
  /\ orderly' = FALSE
  /\ UNCHANGED <<program, status, host, paths, unread, images, malloc>>

Next ==
  \/ \E path \in Programs : load(path)
  \/ \E fd \in Fds :
       \/ \E path \in Opened \cup {Socket} : open(fd, path)
       \/ \E to \in Fds : dup2(fd, to)
       \/ close(fd)
       \/ \E target \in Targets, size \in Sizes, offset \in {0, PageSize} : mmap(fd, target, size, offset)
  \/ \E target \in Targets, size \in Sizes : munmap(target, size)

Spec == Init /\ [][Next]_vars

-----------------------------------------------------------------------------
(* Properties.                                                             *)

Sources == {Nothing, Zeros} \cup {<<p, o>> : p \in Path, o \in 0 .. Space - 1}

\* The records of images stay inside the address space, and the break that load_elf_image
\* leaves is the start of a page.
TypeOK ==
  /\ \A a \in 0 .. Space - 1 : space[a] \in Sources
  /\ status \in {"new", "running", "ended"}
  /\ \A fd \in Fds : {host[fd], paths[fd]} \subseteq Path \cup {Socket, NoPath}
  /\ unread \subseteq Fds
  /\ \A i \in 1 .. Len(images) : {images[i].base, images[i].end} \subseteq 0 .. Space - 1
  /\ program.brk_start % PageSize = 0

\* However a descriptor was opened, duplicated over another one or reused after a close,
\* it has the name of the file that it is open on, unless the host did not name that file
\* when the descriptor was opened or the emulator inherited it; only a failing readlink
\* leaves the name of another file behind, and none outlives the descriptor
\* (Emulator.cpp:528).
PathsAreOpenFiles ==
  \A fd \in Fds :
    /\ host[fd] = NoPath => paths[fd] = NoPath
    /\ paths[fd] = NoPath => host[fd] = NoPath \/ fd \in Inherited \cup unread
    /\ paths[fd] \notin {NoPath, host[fd]} => fd \in unread

\* Every byte of every segment is where the file says (ELFLoader.cpp:87), the rest of its
\* memory is zero, the program break is above all of the executable, AT_PHDR points at
\* the program headers if they are loaded, and the first instruction is the
\* interpreter's entry, or without one the executable's.
SegmentPlaced(memory, path, bias, h) ==
  \A k \in 0 .. Space - 1 :
    k < h.memsz => memory[u64(bias + h.vaddr + k)] = IF k < h.filesz THEN <<path, h.offset + k>> ELSE Zeros

Placed(path, bias) == \A h \in Loadable(path) : SegmentPlaced(space, path, bias, h)

EntryOf(path, bias, address) == address = u64(bias + File[path].entry)

ProgramIsPlaced ==
  (status = "running" /\ orderly) =>
    LET exe == program.path
        interp == program.interpreter
        bias == program.executable_base
    IN  /\ Placed(exe, bias)
        /\ \A h \in Loadable(exe) : bias + h.vaddr + h.memsz <= program.brk_start
        /\ (\E h \in Loadable(exe) : Holds(h, File[exe].phoff))
             => space[program.phdr] = <<exe, File[exe].phoff>>
        /\ IF interp = NoPath THEN EntryOf(exe, bias, program.entry)
           ELSE /\ Placed(interp, program.interpreter_base)
                /\ EntryOf(interp, program.interpreter_base, program.entry)

\* What a backtrace should print for a byte of a file: its file and virtual address, and
\* the functions around it.
Described(a, path, offset) ==
  \A h \in Loadable(path) :
    Holds(h, offset) =>
       LET v == h.vaddr + offset - h.offset
           around == {s \in function_symbols(path) : s.value <= v /\ v < s.value + Greater(s.size, 1)}
       IN  describe_address(a) =
             [path |-> path, vaddr |-> v,
              names |-> {s.name : s \in {t \in around : \A s2 \in around : s2.value <= t.value}}]

\* As long as files are linked at address 0 and mapped whole, through descriptors that have
\* their names, and nothing is unmapped,
\* every byte of an ELF file is described by its own file, address and innermost function
\* (Emulator.cpp:616), and the malloc that the tracer knows is the function of a mapped
\* C library.
ImagesDescribeFiles ==
  (orderly /\ \A i \in 1 .. Len(images) : MinVaddr(images[i].path) = 0) =>
    /\ \A a \in 0 .. Space - 1 :
         (Len(space[a]) = 2 /\ File[space[a][1]].elf) => Described(a, space[a][1], space[a][2])
    /\ malloc.start # 0 =>
         /\ Len(space[malloc.start]) = 2
         /\ File[space[malloc.start][1]].kind = "libc"
         /\ "malloc" \in describe_address(malloc.start).names

\* README.md:22: symbolic guest backtraces for loaded ELF images, of which static
\* programs (README.md:16) are one kind: every byte of the executable is described.
ExecutableIsDescribed ==
  (status = "running" /\ orderly) =>
    \A a \in 0 .. Space - 1 :
      (Len(space[a]) = 2 /\ space[a][1] = program.path) => Described(a, space[a][1], space[a][2])
=============================================================================
