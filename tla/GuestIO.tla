------------------------------ MODULE GuestIO ------------------------------
(***************************************************************************)
(* The system calls of LinuxSyscalls::dispatch that move data between the  *)
(* host and guest memory: through a host buffer, which is filled before    *)
(* the guest's memory is looked at, and then byte by byte through the MMU. *)
(* A byte that cannot be accessed ends the emulator with an EmulatorError, *)
(* except in ioctl.  The host may do less than it is asked for, or fail.   *)
(*                                                                         *)
(* A cell of memory is a byte, or stands for a structure or a number.      *)
(* Protections do not change here, address 0 is not mapped, and the array  *)
(* that describes the buffers of readv and writev can be read.             *)
(* Requests larger than the host's memory and MSG_TRUNC are left out.      *)
(***************************************************************************)
EXTENDS Integers, Sequences, SequencesExt

CONSTANTS
  MemSize,   \* number of addresses
  Readable,  \* addresses that the guest may read
  Writable,  \* addresses that the guest may write
  Incoming,  \* bytes that the host will deliver
  Lengths,   \* lengths of buffers
  MaxIov     \* 1024: buffers of one call of readv or writev

Address == 0 .. MemSize - 1
NULL == 0
Cell == Nat

ASSUME GuestIOAssumption ==
  /\ MemSize \in Nat \ {0} /\ Lengths \subseteq Nat /\ MaxIov \in Nat
  /\ Writable \cup Readable \subseteq Address \ {NULL}
  /\ Incoming \in Seq(Cell)

VARIABLES
  mem,    \* cells of guest memory
  input,  \* what the host has still to deliver
  sent,   \* what the host accepted last
  ended,  \* an EmulatorError ended the emulator
  call    \* history: the last call, its buffers and its result

io_vars == <<mem, input, sent, ended, call>>

Failure == -1  \* syscall_error(errno)

\* n bytes of a structure that the host fills in.
Fresh(n) == [k \in 1 .. n |-> 9]

Vector == [base : Address, length : Lengths]

Lesser(a, b) == IF a < b THEN a ELSE b

-----------------------------------------------------------------------------
(* Copies.                                                                 *)

\* copy_to_guest: the bytes before the first that cannot be written are written.
Faults(base, n, allowed) == \E k \in 0 .. n - 1 : base + k \notin allowed

copy_to_guest_unchecked(m, base, bytes) ==
  [a \in Address \cup base .. base + Len(bytes) - 1 |->
     IF a \in base .. base + Len(bytes) - 1 THEN bytes[a - base + 1] ELSE m[a]]
copy_to_guest(m, base, bytes) ==
  [a \in Address |->
     IF /\ a \in base .. base + Len(bytes) - 1
        /\ ~Faults(base, a - base + 1, Writable)
     THEN bytes[a - base + 1] ELSE m[a]]

copy_buffer_from_guest(base, n) == [k \in 1 .. n |-> mem[base + k - 1]]

\* Bytes in the first i buffers, for every i.
Offsets(iov) ==
  LET before[i \in 0 .. Len(iov)] == IF i = 0 THEN 0 ELSE before[i - 1] + iov[i].length
  IN  before
Total(iov) == Offsets(iov)[Len(iov)]

\* readv: each buffer takes what remains, up to its size.
ScatterStep_whole(bytes, state, v) ==
  IF state.fault \/ state.remaining = 0 THEN state
  ELSE [mem |-> copy_to_guest(state.mem, v.base, bytes), remaining |-> 0,
        fault |-> Faults(v.base, Len(bytes), Writable)]
ScatterStep(bytes, state, v) ==
  LET to_copy == Lesser(state.remaining, v.length)
      copied == Len(bytes) - state.remaining
  IN  IF state.fault \/ state.remaining = 0 THEN state
      ELSE [mem |-> copy_to_guest(state.mem, v.base, SubSeq(bytes, copied + 1, copied + to_copy)),
            remaining |-> state.remaining - to_copy,
            fault |-> Faults(v.base, to_copy, Writable)]

Scatter(iov, bytes) ==
  LET after[i \in 0 .. Len(iov)] ==
        IF i = 0 THEN [mem |-> mem, remaining |-> Len(bytes), fault |-> FALSE]
        ELSE ScatterStep(bytes, after[i - 1], iov[i])
  IN  after[Len(iov)]

Gather(iov) ==
  LET bytes[i \in 0 .. Len(iov)] ==
        IF i = 0 THEN <<>> ELSE bytes[i - 1] \o copy_buffer_from_guest(iov[i].base, iov[i].length)
  IN  bytes[Len(iov)]

-----------------------------------------------------------------------------
(* System calls.                                                           *)

IOInit ==
  /\ mem = [a \in Address |-> 0]
  /\ input = Incoming
  /\ sent = <<>>
  /\ ended = FALSE
  /\ call = [name |-> "none", iov |-> <<>>, result |-> 0]

Returns(name, iov, result) ==
  /\ ~ended
  /\ call' = [name |-> name, iov |-> iov, result |-> result]

\* A call that the host refuses.
Fails(name, iov) ==
  /\ Returns(name, iov, Failure)
  /\ UNCHANGED <<mem, input, sent, ended>>

\* read, with one buffer, and readv.
readv(iov) ==
  \/ Fails("receive", iov)
  \/ \E rc \in 0 .. Lesser(Total(iov), Len(input)) :
       LET scattered == Scatter(iov, SubSeq(input, 1, rc))
       IN  /\ Returns("receive", iov, rc)
           /\ mem' = scattered.mem
           /\ ended' = scattered.fault
           /\ input' = SubSeq(input, rc + 1, Len(input))
           /\ UNCHANGED sent

\* write, pwrite64, sendto and writev: all buffers are read before the host sees a byte.
writev(iov) ==
  \/ Fails("send", iov)
  \/ /\ \E i \in 1 .. Len(iov) : Faults(iov[i].base, iov[i].length, Readable)
     /\ Returns("send", iov, Failure)
     /\ ended' = TRUE
     /\ UNCHANGED <<mem, input, sent>>
  \/ /\ \A i \in 1 .. Len(iov) : ~Faults(iov[i].base, iov[i].length, Readable)
     /\ \E rc \in 0 .. Total(iov) :
          /\ Returns("send", iov, rc)
          /\ sent' = SubSeq(Gather(iov), 1, rc)
          /\ UNCHANGED <<mem, input, ended>>

\* copy_sockaddr_to_guest: what fits of the address, and its length.  The host stores no
\* more than the buffer holds and returns the length that the address has.
SockaddrBytes_all(size, length) == length
SockaddrBytes(size, length) == Lesser(size, length)

copy_sockaddr_to_guest(m, base, length_address, size, length) ==
  LET n == IF base = NULL THEN 0 ELSE SockaddrBytes(size, length)
      copied == copy_to_guest(m, base, Fresh(n))
      fault == Faults(base, n, Writable)
  IN  /\ mem' = IF length_address = NULL \/ fault THEN copied
                ELSE copy_to_guest(copied, length_address, <<length>>)
      /\ ended' = (fault \/ (length_address # NULL /\ length_address \notin Writable))

\* recvfrom; with no data it stands for accept, accept4, getsockname, getpeername and
\* getsockopt too.  The length is read from guest memory before anything else, and is 0
\* without a pointer to it; the data is copied before the address.
recvfrom(data, base, length_address) ==
  LET size == IF length_address = NULL THEN 0 ELSE mem[length_address]
      iov == <<data, [base |-> base, length |-> size], [base |-> length_address, length |-> 1]>>
  IN  \/ /\ length_address \notin Readable \cup {NULL}
         /\ Returns("recvfrom", iov, Failure)
         /\ ended' = TRUE
         /\ UNCHANGED <<mem, input, sent>>
      \/ /\ length_address \in Readable \cup {NULL}
         /\ \/ Fails("recvfrom", iov)
            \/ \E rc \in 0 .. Lesser(data.length, Len(input)),
                  length \in IF length_address = NULL THEN {0} ELSE Lengths :
                 LET received == copy_to_guest(mem, data.base, SubSeq(input, 1, rc))
                 IN  /\ Returns("recvfrom", iov, rc)
                     /\ IF Faults(data.base, rc, Writable)
                        THEN mem' = received /\ ended' = TRUE
                        ELSE copy_sockaddr_to_guest(received, base, length_address, size, length)
                     /\ input' = SubSeq(input, rc + 1, Len(input))
                     /\ UNCHANGED sent

\* The host has filled in bytes, which are copied to the buffers.
WriteBack(iov, bytes, rc) ==
  LET scattered == Scatter(iov, bytes)
  IN  /\ Returns("structure", iov, rc)
      /\ mem' = scattered.mem
      /\ ended' = scattered.fault
      /\ UNCHANGED <<input, sent>>

\* An argument cannot be read.
EndsReading(iov) ==
  /\ Returns("structure", iov, Failure)
  /\ ended' = TRUE
  /\ UNCHANGED <<mem, input, sent>>

\* pread64, getdents64, readlink, getcwd, getrandom and epoll_wait: as many bytes as the
\* host returns, up to the size of the buffer.
getdents64(base, n) ==
  LET iov == <<[base |-> base, length |-> n]>>
  IN  \/ Fails("structure", iov)
      \/ \E rc \in 0 .. n : WriteBack(iov, Fresh(rc), rc)

\* getxattr: with a size of 0 the host returns the length of the value, and nothing is
\* copied.
getxattr(base, n) ==
  \/ getdents64(base, n)
  \/ /\ n = 0
     /\ \E rc \in Lengths : Returns("structure", <<>>, rc)
     /\ UNCHANGED <<mem, input, sent, ended>>

\* Arguments that are read if they are there, results that are written one after the
\* other if they are asked for: up to the first that cannot be.
Asked(addresses) ==
  [i \in 1 .. Len(addresses) |->
     [base |-> addresses[i], length |-> IF addresses[i] = NULL THEN 0 ELSE 1]]

Transact(arguments, results) ==
  LET iov == Asked(results)
  IN  IF \E i \in 1 .. Len(arguments) : arguments[i] \notin Readable \cup {NULL}
      THEN EndsReading(iov)
      ELSE Fails("structure", iov) \/ WriteBack(iov, Fresh(Total(iov)), 0)

\* stat, lstat, fstat, newfstatat, statfs, fstatfs, statx, clock_gettime and uname: the
\* structure is written wherever the pointer goes.
stat(base) ==
  LET iov == <<[base |-> base, length |-> 1]>>
  IN  Fails("structure", iov) \/ WriteBack(iov, Fresh(1), 0)

\* gettimeofday and time.
gettimeofday(base) == Transact(<<>>, <<base>>)

\* prlimit64 has an optional argument and result, nanosleep and clock_nanosleep a
\* request that must be there.  When a sleep is interrupted the call fails, and the
\* time that remains is not written.
prlimit64(new_limit, old_limit) == Transact(<<new_limit>>, <<old_limit>>)
nanosleep(request, remain) == request # NULL /\ Transact(<<request>>, <<remain>>)

\* select and pselect6: the sets and the timeout are all read, and all written back.
select(sets) == Transact(sets, sets)

\* bind, connect, setsockopt and epoll_ctl only read.
epoll_ctl(event) == Transact(<<event>>, <<>>)

\* poll and ppoll: the array is read and written back whole.  An empty one is not touched.
poll(base, n) ==
  LET iov == <<[base |-> base, length |-> n]>>
  IN  IF Faults(base, n, Readable) THEN EndsReading(iov)
      ELSE Fails("structure", iov) \/ WriteBack(iov, Fresh(n), 0)

\* ioctl: what cannot be read is zero, and what cannot be written is dropped.
ioctl(base, n) ==
  LET iov == <<[base |-> base, length |-> n]>>
  IN  \/ Fails("structure", iov)
      \/ /\ Returns("structure", iov, 0)
         /\ mem' = IF base = NULL THEN mem ELSE copy_to_guest(mem, base, Fresh(n))
         /\ UNCHANGED <<input, sent, ended>>

IONext ==
  \/ \E n \in 0 .. MaxIov : \E iov \in [1 .. n -> Vector] : readv(iov) \/ writev(iov)
  \/ \E data \in Vector, base, length_address \in Address : recvfrom(data, base, length_address)
  \/ \E base \in Address :
       \/ stat(base)
       \/ gettimeofday(base)
       \/ epoll_ctl(base)
       \/ \E n \in Lengths : getxattr(base, n) \/ poll(base, n) \/ ioctl(base, n)
       \/ \E other \in Address : prlimit64(base, other) \/ nanosleep(base, other) \/ select(<<base, other>>)

IOSpec == IOInit /\ [][IONext]_io_vars

-----------------------------------------------------------------------------
(* Properties.                                                             *)

\* No copy leaves the guest's address space (SoftMMU.cpp:355), and the host's data is
\* taken in order.
IOTypeOK ==
  /\ mem \in [Address -> Cell]
  /\ \E n \in 0 .. Len(Incoming) : input = SubSeq(Incoming, n + 1, Len(Incoming))
  /\ sent \in Seq(Cell)
  /\ ended \in BOOLEAN

\* The addresses that a list of buffers stands for, one after the other.
Flat(iov) ==
  LET places[i \in 0 .. Len(iov)] ==
        IF i = 0 THEN <<>>
        ELSE places[i - 1] \o [k \in 1 .. iov[i].length |-> iov[i].base + k - 1]
  IN  places[Len(iov)]

\* What a cell of m holds when n bytes have gone to places, in order.
Stored(m, places, bytes, n, a, cell) ==
  \/ (\A k \in 1 .. n : places[k] # a) /\ cell = m[a]
  \/ \E k \in 1 .. n : /\ places[k] = a /\ cell = bytes[k]
                       /\ \A later \in k + 1 .. n : places[later] # a

\* While the emulator lives, a call moves exactly as many bytes as it returns: what it
\* took from the host is in the guest's buffers, in order, across vectors, empty buffers
\* and short counts (LinuxSyscalls.cpp:709), and what it gave to the host is the start
\* of the buffers; a call that fails has moved nothing.
MovesItsResult ==
  LET n == IF call'.result = Failure THEN 0 ELSE call'.result
      places == Flat(call'.iov)
      address == IF call'.name = "recvfrom" THEN ToSet(Flat(Tail(call'.iov))) ELSE {}
  IN  CASE call'.name \in {"receive", "recvfrom"} ->
             /\ input' = SubSeq(input, n + 1, Len(input)) /\ sent' = sent
             /\ \A a \in Address \ address : Stored(mem, places, input, n, a, mem'[a])
        [] call'.name = "send" ->
             /\ mem' = mem /\ input' = input
             /\ sent' = IF call'.result = Failure THEN sent ELSE [k \in 1 .. n |-> mem[places[k]]]
        [] OTHER -> input' = input /\ sent' = sent

TransfersAreExact == [][ended' \/ MovesItsResult]_io_vars

\* Only bytes of the buffers that a call was given change, and none of them when it
\* fails: an address longer than its buffer is cut (LinuxSyscalls.cpp:638), also when
\* a fault ends the emulator in the middle of a copy.
StaysInBuffers ==
  \A a \in Address :
    mem'[a] # mem[a] => call'.result # Failure /\ a \in ToSet(Flat(call'.iov)) \cap Writable

WritesStayInBuffers == [][StaysInBuffers]_io_vars
=============================================================================
