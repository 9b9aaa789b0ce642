------------------------------ MODULE Syscalls ------------------------------
(***************************************************************************)
(* The Darwin system-call layer: crates/core/src/syscall (dispatcher, BSD  *)
(* and Mach handlers) and the descriptor table of crates/core/src/fd.rs,   *)
(* over the address space of GuestMemory and the routing of Sandbox.       *)
(*                                                                         *)
(* One step is one SyscallDispatcher::dispatch.  result is what the guest  *)
(* finds: [err, val], err = "" for success: carry clear and, for a Mach    *)
(* call, KERN_SUCCESS (a Mach call answers its error with carry clear).    *)
(*                                                                         *)
(* Abstraction.  A path stands for its tree: in the app's container (with  *)
(* its .app bundle), in the shared system image, or outside of both (the   *)
(* string side of Sandbox::translate is left out).  A file is its length.  *)
(* Time and entropy have no value.  The host's file system is external: it *)
(* may refuse any operation, and stop a write after a part of it.          *)
(***************************************************************************)
EXTENDS Integers, Sequences, FiniteSets, FiniteSetsExt

CONSTANTS
  Word, PageSize, MmapTop, HeapBase, HeapSize,      \* see GuestMemory
  Paths,            \* [name -> "container" | "system" | "outside"]
  OpenFlags,        \* sets of open flags that the guest uses
  Buffers, Counts,  \* guest pointers and byte counts
  IoVecs,           \* arrays of [base, len] for writev
  SeekOffsets, MmapSizes, Prots,
  Fds,              \* descriptors that the guest names
  MaxFd, MaxLen     \* bounds: descriptors in use, length of a file

VARIABLES
  regions, mmap_cursor, heap_cursor, grants,        \* GuestMemory
  slots, next_fd,   \* FdTable
  files,            \* the host's files: length, or Absent
  exit, result,
  served            \* history: the last call, [call, fd, at]: its name where a property
                    \* asks, the file descriptor it used, the address it named

memory == <<regions, mmap_cursor, heap_cursor, grants>>
fds == <<slots, next_fd>>
vars == <<memory, fds, files, exit, result, served>>

Mem == INSTANCE GuestMemory WITH
         MapBases <- {}, MapSizes <- {}, MapKinds <- {}, SegSizes <- {}, DataLens <- {},
         AllocSizes <- {}, Aligns <- {}

ASSUME SyscallAssumption ==
  /\ MaxFd \in Nat /\ MaxFd >= 2 /\ MaxLen \in Nat \ {0}
  /\ Paths \in [DOMAIN Paths -> {"container", "system", "outside"}]
  /\ Counts \subseteq Nat /\ SeekOffsets \subseteq Int

Absent == -1
NoExit == -1
Streams == {"Stdin", "Stdout", "Stderr"}
Stream(kind) == [kind |-> kind, path |-> "", off |-> 0, read |-> FALSE, write |-> FALSE,
                 append |-> FALSE]

Ok(v) == [err |-> "", val |-> v]
Err(e) == [err |-> e, val |-> 0]

-----------------------------------------------------------------------------
(* FdTable *)

Free == {f \in 3 .. 3 + Cardinality(DOMAIN slots) : f \notin DOMAIN slots}

\* Mutants: the next number never used; the number of open descriptors.
LowestFd_Next == next_fd
LowestFd_Count == Cardinality(DOMAIN slots)
(* insert: the lowest free descriptor from 3 on. *)
LowestFd == Min(Free)

Insert(obj) ==
  /\ slots' = [f \in DOMAIN slots \cup {LowestFd} |-> IF f = LowestFd THEN obj ELSE slots[f]]
  /\ next_fd' = Mem!AtLeast(next_fd, LowestFd + 1)

\* Mutant: the standard streams go too.
CloseFd_Any(fd) == slots' = [f \in DOMAIN slots \ {fd} |-> slots[f]]
(* close: the standard streams stay. *)
CloseFd(fd) ==
  slots' = IF fd \in 0 .. 2 THEN slots ELSE [f \in DOMAIN slots \ {fd} |-> slots[f]]

IsFile(fd) == fd \in DOMAIN slots /\ slots[fd].kind = "File"

-----------------------------------------------------------------------------
Init ==
  /\ Mem!Init
  /\ slots = [f \in 0 .. 2 |-> Stream(<<"Stdin", "Stdout", "Stderr">>[f + 1])]
  /\ next_fd = 3
  /\ files = [p \in DOMAIN Paths |-> IF Paths[p] = "system" THEN 1 ELSE Absent]
  /\ exit = NoExit
  /\ result = Ok(0)
  /\ served = [call |-> "other", fd |-> -1, at |-> -1]

Running == exit = NoExit
EnterAt(call, fd, at) == Running /\ served' = [call |-> call, fd |-> fd, at |-> at]
Enter(call, fd) == EnterAt(call, fd, -1)
Reply(r) == result' = r
\* A call that only replies.
Only(r) == Reply(r) /\ UNCHANGED <<memory, fds, files, exit>>

(* exit *)
Exit(code) ==
  /\ Enter("other", -1) /\ exit' = code /\ Reply(Ok(0)) /\ UNCHANGED <<memory, fds, files>>

(* open.  Sandbox::translate gives the tree; std::fs::OpenOptions (external)
   refuses create and truncate without write access and truncate with append;
   append alone opens the file for writing. *)
ReadOnlyTree(p) == Paths[p] = "system"
Writes(flags) == flags \cap {"WRONLY", "RDWR"} # {}
Access(flags) ==
  [read |-> "WRONLY" \notin flags, write |-> Writes(flags) \/ "APPEND" \in flags,
   append |-> "APPEND" \in flags]
BadOptions(flags) ==
  IF "APPEND" \in flags
  THEN "TRUNC" \in flags /\ ~ ({"CREAT", "EXCL"} \subseteq flags)
  ELSE ~ Writes(flags) /\ flags \cap {"CREAT", "TRUNC"} # {}

\* Mutant: no test for a read-only tree.
OpenError_NoErofs(p, flags) ==
  IF Paths[p] = "outside" THEN "ENOENT"
  ELSE IF BadOptions(flags) THEN "EINVAL"
  ELSE IF files[p] = Absent /\ "CREAT" \notin flags THEN "ENOENT"
  ELSE IF files[p] # Absent /\ {"CREAT", "EXCL"} \subseteq flags THEN "EEXIST"
  ELSE ""

OpenError(p, flags) ==
  IF Paths[p] = "outside" THEN "ENOENT"
  ELSE IF ReadOnlyTree(p) /\ Writes(flags) THEN "EROFS"
  ELSE IF BadOptions(flags) THEN "EINVAL"
  ELSE IF files[p] = Absent /\ "CREAT" \notin flags THEN "ENOENT"
  ELSE IF files[p] # Absent /\ {"CREAT", "EXCL"} \subseteq flags THEN "EEXIST"
  ELSE ""

\* Mutant: the descriptor is taken before the host opens the file.
OpenFails_KeepsFd(p, flags) ==
  /\ Enter("open", -1) /\ OpenError(p, flags) # "" /\ Cardinality(DOMAIN slots) < MaxFd
  /\ Insert([kind |-> "File", path |-> p, off |-> 0, read |-> FALSE, write |-> FALSE,
             append |-> FALSE])
  /\ Reply(Err(OpenError(p, flags)))
  /\ UNCHANGED <<memory, files, exit>>
OpenFails(p, flags) ==
  Enter("open", -1) /\ OpenError(p, flags) # "" /\ Only(Err(OpenError(p, flags)))

Open(p, flags) ==
  /\ OpenError(p, flags) = "" /\ Cardinality(DOMAIN slots) < MaxFd
  /\ Enter("open", LowestFd)
  /\ files' = [files EXCEPT ![p] = IF @ = Absent \/ "TRUNC" \in flags THEN 0 ELSE @]
  /\ LET a == Access(flags) IN
       Insert([kind |-> "File", path |-> p, off |-> 0, read |-> a.read,
               write |-> a.write, append |-> a.append])
  /\ Reply(Ok(LowestFd))
  /\ UNCHANGED <<memory, exit>>

(* close *)
Close(fd) ==
  /\ Enter("other", -1)
  /\ CloseFd(fd)
  /\ Reply(IF fd \in DOMAIN slots THEN Ok(0) ELSE Err("EBADF"))
  /\ UNCHANGED <<memory, next_fd, files, exit>>

(* read: the file is read, then the bytes go to guest memory; when those are
   not writable the file position has moved already. *)
ReadFile(fd, buf, count) ==
  LET o == slots[fd]
      n == IF files[o.path] <= o.off THEN 0
           ELSE Min({count, files[o.path] - o.off}) IN
  /\ Enter("read", fd) /\ IsFile(fd) /\ o.read
  /\ slots' = [slots EXCEPT ![fd].off = @ + n]
  /\ Reply(IF Mem!Slice(buf, n, {"w"}) THEN Ok(n) ELSE Err("EFAULT"))
  /\ UNCHANGED <<memory, next_fd, files, exit>>

ReadOther(fd, buf) ==
  /\ Enter("other", -1) /\ ~ (IsFile(fd) /\ slots[fd].read)
  /\ Only(IF fd \notin DOMAIN slots THEN Err("EBADF")
          ELSE IF slots[fd].kind = "Stdin"
          THEN IF Mem!Slice(buf, 0, {"w"}) THEN Ok(0) ELSE Err("EFAULT")
          ELSE Err(IF IsFile(fd) THEN "EIO" ELSE "EINVAL"))

(* write_bytes on a file: at the position, or at the end with append. *)
WriteAt(fd) == IF slots[fd].append THEN files[slots[fd].path] ELSE slots[fd].off
WriteBytes(fd, n) ==
  /\ WriteAt(fd) + n <= MaxLen
  /\ files' = IF n = 0 THEN files
              ELSE [files EXCEPT ![slots[fd].path] = Mem!AtLeast(@, WriteAt(fd) + n)]
  /\ slots' = IF n = 0 THEN slots ELSE [slots EXCEPT ![fd].off = WriteAt(fd) + n]
  /\ UNCHANGED next_fd
CanWrite(fd) == IsFile(fd) /\ slots[fd].write

\* What write_bytes answers when it writes no file.
WriteAnswer(fd, n) ==
  IF fd \notin DOMAIN slots THEN Err("EBADF")
  ELSE IF slots[fd].kind \in {"Stdout", "Stderr"} \/ (IsFile(fd) /\ n = 0) THEN Ok(n)
  ELSE Err(IF IsFile(fd) THEN "EIO" ELSE "EINVAL")

(* write: the guest's buffer is read first. *)
Write(fd, buf, n) ==
  /\ Enter("write", fd) /\ Mem!Slice(buf, n, {"r"}) /\ CanWrite(fd)
  /\ WriteBytes(fd, n)
  /\ Reply(Ok(n))
  /\ UNCHANGED <<memory, exit>>

\* write_all when the host stops: the bytes before the stop stay written.
StopsShort(fd, n) ==
  /\ CanWrite(fd)
  /\ \E k \in 0 .. n - 1 : WriteBytes(fd, k)
  /\ Reply(Err("EIO"))
  /\ UNCHANGED <<memory, exit>>
WriteStops(fd, buf, n) ==
  Enter("write", fd) /\ Mem!Slice(buf, n, {"r"}) /\ StopsShort(fd, n)

WriteOther(fd, buf, n) ==
  /\ Enter("other", -1) /\ ~ (Mem!Slice(buf, n, {"r"}) /\ CanWrite(fd))
  /\ Only(IF Mem!Slice(buf, n, {"r"}) THEN WriteAnswer(fd, n) ELSE Err("EFAULT"))

\* The bytes of the first n buffers.
IovTotal(iov, n) ==
  LET total[k \in 0 .. n] == IF k = 0 THEN 0 ELSE total[k - 1] + iov[k].len
  IN  total[n]

ASSUME VectorAssumption == IoVecs \subseteq Seq([base : Nat, len : Nat])

(* writev: buffer by buffer, up to the first that fails; what was written
   before stays written, and the call reports the error. *)
BadBuffers(iov) == {i \in DOMAIN iov : ~ Mem!Slice(iov[i].base, iov[i].len, {"r"})}
Sent(iov) == IF BadBuffers(iov) = {} THEN Len(iov) ELSE Min(BadBuffers(iov)) - 1
Writev(fd, iov) ==
  LET total == IovTotal(iov, Sent(iov)) IN
  /\ Enter("write", fd)
  /\ \/ CanWrite(fd) /\ WriteBytes(fd, total)
     \/ ~ CanWrite(fd) /\ UNCHANGED <<files, fds>>
  /\ Reply(IF Sent(iov) > 0 /\ ~ CanWrite(fd) /\ WriteAnswer(fd, total).err # ""
           THEN WriteAnswer(fd, total)
           ELSE IF BadBuffers(iov) # {} THEN Err("EFAULT")
           ELSE Ok(total))
  /\ UNCHANGED <<memory, exit>>
WritevStops(fd, iov) == Enter("write", fd) /\ StopsShort(fd, IovTotal(iov, Sent(iov)))

(* lseek.  The host refuses a negative position. *)
SeekBase(fd, whence) ==
  CASE whence = 0 -> 0 [] whence = 1 -> slots[fd].off [] OTHER -> files[slots[fd].path]

SeekOk(fd, pos) == pos >= 0 /\ pos <= MaxLen

Lseek(fd, offset, whence) ==
  /\ Enter("other", fd) /\ IsFile(fd) /\ whence \in 0 .. 2
  /\ LET pos == SeekBase(fd, whence) + offset IN
       /\ SeekOk(fd, pos)
       /\ slots' = [slots EXCEPT ![fd].off = pos]
       /\ Reply(Ok(pos))
  /\ UNCHANGED <<memory, next_fd, files, exit>>

LseekFails(fd, offset, whence) ==
  /\ Enter("other", -1)
  /\ \/ fd \notin DOMAIN slots /\ Only(Err("EBADF"))
     \/ fd \in DOMAIN slots /\ ~ IsFile(fd) /\ Only(Err("ESPIPE"))
     \/ IsFile(fd) /\ (whence > 2 \/ SeekBase(fd, whence) + offset < 0) /\ Only(Err("EINVAL"))

(* access *)
AccessPath(p) ==
  /\ Enter("other", -1)
  /\ Only(IF Paths[p] = "outside" \/ files[p] = Absent THEN Err("ENOENT") ELSE Ok(0))

(* The host refuses an open, a read or a seek that it could have served. *)
HostFails == Enter("other", -1) /\ Only(Err("EIO"))

(* open and access with a path that cannot be read. *)
PathFault == Enter("other", -1) /\ Only(Err("EFAULT"))

(* mmap, mprotect and vm_allocate act on the address space. *)
MmapRefused(size) ==
  LET sz == Mem!AlignUp(Mem!AtLeast(size, 1), PageSize) IN
  \/ sz > mmap_cursor
  \/ ~ Mem!CheckFree(Mem!AlignDown(mmap_cursor - sz, PageSize), sz)

Mmap(size, prot) ==
  /\ Enter("other", -1)
  /\ Mem!MmapAnon(size, prot)
  /\ Reply(Ok(mmap_cursor'))
  /\ UNCHANGED <<fds, files, exit>>
MmapFails(size) == Enter("other", -1) /\ MmapRefused(size) /\ Only(Err("ENOMEM"))
MmapFile == Enter("other", -1) /\ Only(Err("ENOSYS"))

\* On the device the kernel may refuse after the manager has noted the new
\* protection; the guest is told EINVAL.
Mprotect(addr, prot) ==
  /\ EnterAt("mprotect", -1, addr)
  /\ Mem!Protect(addr, prot)
  /\ \E r \in {Ok(0), Err("EINVAL")} : Reply(r)
  /\ UNCHANGED <<fds, files, exit>>
MprotectFails(addr) ==
  Enter("other", -1) /\ Mem!RegionBase(addr) = Mem!NoRegion /\ Only(Err("EINVAL"))

\* The mapping is made before the address is stored through the out-pointer,
\* and stays when that fails.
VmAllocate(out, size) ==
  /\ Enter("vm_allocate", -1)
  /\ Mem!MmapAnon(size, Mem!RW)
  /\ Reply(IF Mem!Slice(out, 1, {"w"})' THEN Ok(0) ELSE Err("KERN_INVALID_ADDRESS"))
  /\ UNCHANGED <<fds, files, exit>>
VmAllocateFails(size) == Enter("other", -1) /\ MmapRefused(size) /\ Only(Err("KERN_NO_SPACE"))

(* gettimeofday and getentropy fill a guest buffer. *)
FillBuffer(buf) ==
  /\ Enter("other", -1)
  /\ Only(IF Mem!Slice(buf, 1, {"w"}) THEN Ok(0) ELSE Err("EFAULT"))

(* The calls that answer a constant, and the ones that are not implemented. *)
Constant == \E r \in {Ok(0), Ok(1), Err("ENOSYS"), Err("EINVAL")} : Enter("other", -1) /\ Only(r)

Next ==
  \/ \E c \in {0, 1} : Exit(c)
  \/ \E p \in DOMAIN Paths, fl \in OpenFlags : Open(p, fl) \/ OpenFails(p, fl)
  \/ \E fd \in Fds :
       \/ Close(fd)
       \/ \E b \in Buffers, n \in Counts :
            \/ ReadFile(fd, b, n) \/ ReadOther(fd, b)
            \/ Write(fd, b, n) \/ WriteStops(fd, b, n) \/ WriteOther(fd, b, n)
       \/ \E iov \in IoVecs : Writev(fd, iov) \/ WritevStops(fd, iov)
       \/ \E o \in SeekOffsets, w \in 0 .. 3 :
            Lseek(fd, o, w) \/ LseekFails(fd, o, w)
  \/ \E p \in DOMAIN Paths : AccessPath(p)
  \/ HostFails \/ PathFault
  \/ \E s \in MmapSizes : MmapFails(s) \/ \E pr \in Prots : Mmap(s, pr)
  \/ MmapFile
  \/ \E a \in Buffers : MprotectFails(a) \/ FillBuffer(a) \/ \E pr \in Prots : Mprotect(a, pr)
  \/ \E s \in MmapSizes : VmAllocateFails(s) \/ \E b \in Buffers : VmAllocate(b, s)
  \/ Constant

Spec == Init /\ [][Next]_vars

-----------------------------------------------------------------------------
(* Properties *)

\* The descriptor table, the files and the reply have the types of the code.
TypeOK ==
  /\ DOMAIN slots \subseteq 0 .. MaxFd
  /\ \A f \in DOMAIN slots : /\ slots[f].kind \in Streams \cup {"File"}
                             /\ slots[f].off \in 0 .. MaxLen
                             /\ slots[f].kind = "File" => slots[f].path \in DOMAIN Paths
  /\ next_fd \in 3 .. MaxFd + 1
  /\ files \in [DOMAIN Paths -> Absent .. MaxLen]

\* "Standard streams cannot be closed": after any calls the descriptors 0, 1
\* and 2 are the streams they were.
StandardStreamsStay ==
  /\ TypeOK
  /\ \A f \in 0 .. 2 : f \in DOMAIN slots /\ slots[f] = Stream(<<"Stdin", "Stdout", "Stderr">>[f + 1])

\* "lowest-available-fd allocation": open answers the lowest descriptor that
\* was not open, whatever was opened and closed before.
LowestFdAnswered ==
  [][(served'.call = "open" /\ result'.err = "")
       => /\ result'.val \notin DOMAIN slots
          /\ \A f \in 0 .. result'.val - 1 : f \in DOMAIN slots]_vars

\* An open descriptor goes on naming the same file with the same access until
\* it is closed, and only a call on it moves its position.
DescriptorsIndependent ==
  [][\A f \in DOMAIN slots :
       f \in DOMAIN slots' =>
         /\ [slots'[f] EXCEPT !.off = 0] = [slots[f] EXCEPT !.off = 0]
         /\ slots'[f].off # slots[f].off => served'.fd = f
     ]_vars

\* What a call that reports an error may have done.  It has opened and closed
\* nothing.  A read or write stopped half way by the host or by the guest's own
\* memory may have moved the position of its descriptor and no other, and made
\* a file longer, never shorter, and only behind a descriptor that is open for
\* writing.  Every region is as it was, but for the protection of the one that
\* mprotect named and a mapping that vm_allocate made and could not report.
ErrorsContained ==
  [][result'.err # "" =>
       /\ DOMAIN slots' = DOMAIN slots
       /\ \A f \in DOMAIN slots :
            slots'[f] # slots[f] => f = served'.fd /\ served'.call \in {"read", "write"}
       /\ \A p \in DOMAIN Paths : files'[p] # files[p] =>
            /\ files[p] < files'[p] /\ served'.call = "write"
            /\ CanWrite(served'.fd) /\ slots[served'.fd].path = p
       /\ heap_cursor' = heap_cursor
       /\ DOMAIN regions \subseteq DOMAIN regions'
       /\ \A b \in DOMAIN regions' :
            \/ b \in DOMAIN regions /\ regions'[b] = regions[b]
            \/ /\ served'.call = "mprotect" /\ b = Mem!RegionBase(served'.at)
               /\ \E pr \in Prots : regions'[b] = [regions[b] EXCEPT !.prot = pr]
            \/ served'.call = "vm_allocate" /\ b = mmap_cursor'
     ]_vars

\* The guest asks for O_APPEND only together with write access.
AppendWrites == \A fl \in OpenFlags : "APPEND" \in fl => Writes(fl)

\* "well-known read-only trees map into a shared runtime image": no sequence
\* of calls changes a file of the system image.
SystemImageUnchanged ==
  [][\A p \in DOMAIN Paths : Paths[p] = "system" => files'[p] = files[p]]_vars
=============================================================================
