--------------------------- MODULE Syscalls_proofs ---------------------------
(***************************************************************************)
(* Proofs about the descriptor table and the files of Syscalls, for every  *)
(* set of paths and flags, every bound on descriptors and lengths, and     *)
(* every address space.                                                    *)
(***************************************************************************)
EXTENDS Syscalls, FiniteSetTheorems, TLAPS

-----------------------------------------------------------------------------
(* Least elements *)

\* A non-empty set of naturals has a least element, and Min returns it.
LEMMA MinExists ==
  ASSUME NEW S, S \subseteq Nat, S # {}
  PROVE  Min(S) \in S /\ \A x \in S : Min(S) <= x
<1> DEFINE R == OpToRel(<, Nat)
<1>1. IsWellFoundedOn(R, Nat)
  BY NatLessThanWellFounded
<1>2. PICK m \in S : \A y \in S : ~ (<<y, m>> \in R)
  <2> HIDE DEF R
  <2> QED BY <1>1, WFMin
<1>3. ASSUME NEW y \in S PROVE m <= y
  <2>1. ~ (<<y, m>> \in R) /\ y \in Nat /\ m \in Nat
    BY <1>2
  <2> QED BY <2>1 DEF OpToRel
<1>4. \E x \in S : \A y \in S : x <= y
  BY <1>3
<1> QED BY <1>4 DEF Min

\* What holds at 0 and is handed on holds up to n.
LEMMA Climb ==
  ASSUME NEW n \in Nat, NEW S, 0 \in S, \A k \in 1 .. n : k - 1 \in S => k \in S
  PROVE  0 .. n \subseteq S
<1> DEFINE T == (0 .. n) \ S
<1> SUFFICES ASSUME T # {} PROVE FALSE
  OBVIOUS
<1>1. PICK m \in T : \A x \in T : m <= x
  <2>1. T \subseteq Nat
    OBVIOUS
  <2> HIDE DEF T
  <2> QED BY <2>1, MinExists
<1>2. m # 0 /\ m \in 1 .. n
  OBVIOUS
<1>3. m - 1 \notin T
  BY <1>1, <1>2
<1> QED BY <1>2, <1>3

\* A step function can be iterated n times.
Iterable(n, X, a, step) ==
  \E g \in [0 .. n -> X] : g[0] = a /\ \A k \in 1 .. n : g[k] = step[k][g[k - 1]]
LEMMA Iterates ==
  ASSUME NEW n \in Nat, NEW X, NEW a \in X, NEW step \in [1 .. n -> [X -> X]]
  PROVE  Iterable(n, X, a, step)
<1> DEFINE Up(m, g) == g[0] = a /\ \A k \in 1 .. m : g[k] = step[k][g[k - 1]]
           S == {m \in 0 .. n : \E g \in [0 .. m -> X] : Up(m, g)}
<1>1. 0 \in S
  <2> DEFINE g == [k \in 0 .. 0 |-> a]
  <2>1. g \in [0 .. 0 -> X] /\ g[0] = a /\ 1 .. 0 = {}
    OBVIOUS
  <2>2. Up(0, g)
    <3> HIDE DEF g
    <3> QED BY <2>1
  <2> HIDE DEF g, Up
  <2> QED BY <2>1, <2>2
<1>2. ASSUME NEW k \in 1 .. n, k - 1 \in S PROVE k \in S
  <2>1. PICK f \in [0 .. k - 1 -> X] : Up(k - 1, f)
    BY <1>2
  <2> DEFINE g == [i \in 0 .. k |-> IF i = k THEN step[k][f[k - 1]] ELSE f[i]]
  <2>2. f[k - 1] \in X
    OBVIOUS
  <2>3. g \in [0 .. k -> X] /\ g[k] = step[k][f[k - 1]] /\ \A i \in 0 .. k - 1 : g[i] = f[i]
    BY <2>2
  <2> HIDE DEF g
  <2>4. g[0] = a
    BY <2>1, <2>3
  <2>5. ASSUME NEW i \in 1 .. k PROVE g[i] = step[i][g[i - 1]]
    <3>1. g[i - 1] = f[i - 1]
      BY <2>3
    <3>2. CASE i = k
      BY <3>1, <3>2, <2>3
    <3>3. CASE i # k
      <4>1. i \in 1 .. k - 1 /\ g[i] = f[i]
        BY <3>3, <2>3
      <4> QED BY <3>1, <4>1, <2>1
    <3> QED BY <3>2, <3>3
  <2>6. Up(k, g)
    BY <2>4, <2>5
  <2> HIDE DEF Up
  <2> QED BY <2>3, <2>6
<1>3. n \in S
  <2> HIDE DEF S
  <2>1. 0 .. n \subseteq S
    BY <1>1, <1>2, Climb
  <2> QED BY <2>1
<1> QED BY <1>3 DEF Iterable

-----------------------------------------------------------------------------
(* The inductive invariant *)

Slot == [kind : Streams \cup {"File"}, path : DOMAIN Paths \cup {""}, off : 0 .. MaxLen,
         read : BOOLEAN, write : BOOLEAN, append : BOOLEAN]

Typed ==
  /\ DOMAIN slots \subseteq 0 .. MaxFd
  /\ slots \in [DOMAIN slots -> Slot]
  /\ \A f \in DOMAIN slots : slots[f].kind = "File" => slots[f].path \in DOMAIN Paths
  /\ next_fd \in 3 .. MaxFd + 1
  /\ files \in [DOMAIN Paths -> Absent .. MaxLen]

StreamAt(f) == Stream(<<"Stdin", "Stdout", "Stderr">>[f + 1])
StreamsOpen == \A f \in 0 .. 2 : f \in DOMAIN slots /\ slots[f] = StreamAt(f)

Inv == Typed /\ StreamsOpen

\* The streams are no files.
LEMMA StreamKind ==
  ASSUME StreamsOpen, NEW f \in 0 .. 2
  PROVE  slots[f].kind # "File" /\ ~ IsFile(f)
<1>1. slots[f] = StreamAt(f)
  BY DEF StreamsOpen
<1>2. StreamAt(f).kind = <<"Stdin", "Stdout", "Stderr">>[f + 1]
  BY DEF StreamAt, Stream
<1>3. <<"Stdin", "Stdout", "Stderr">>[f + 1] # "File"
  <2>1. CASE f = 0 BY <2>1
  <2>2. CASE f = 1 BY <2>2
  <2>3. CASE f = 2 BY <2>3
  <2> QED BY <2>1, <2>2, <2>3
<1> QED BY <1>1, <1>2, <1>3 DEF IsFile

\* The search of FdTable::insert finds a descriptor, it is the lowest one that
\* is not open, and it is no larger than the number of open ones.
LEMMA LowestFdExact ==
  ASSUME Inv
  PROVE  /\ LowestFd \in Nat /\ LowestFd \notin DOMAIN slots /\ 3 <= LowestFd
         /\ \A f \in 0 .. LowestFd - 1 : f \in DOMAIN slots
         /\ LowestFd <= Cardinality(DOMAIN slots)
<1> DEFINE D == DOMAIN slots
           n == Cardinality(D)
<1>1. IsFiniteSet(D) /\ n \in Nat
  <2>0. MaxFd \in Int
    BY SyscallAssumption
  <2>1. IsFiniteSet(0 .. MaxFd)
    BY <2>0, FS_Interval
  <2>2. IsFiniteSet(D)
    BY <2>1, FS_Subset DEF Inv, Typed
  <2> QED BY <2>2, FS_CardinalityType
<1>2. Free # {}
  <2>1. SUFFICES ASSUME Free = {} PROVE FALSE
    OBVIOUS
  <2>2. 3 .. 3 + n \subseteq D
    BY <2>1 DEF Free
  <2>3. Cardinality(3 .. 3 + n) = n + 1
    BY <1>1, FS_Interval
  <2>4. Cardinality(3 .. 3 + n) <= n
    BY <1>1, <2>2, FS_Subset
  <2> HIDE DEF n
  <2> QED BY <1>1, <2>3, <2>4
<1>3. Free \subseteq Nat
  BY <1>1 DEF Free
<1>4. LowestFd \in Free /\ \A x \in Free : LowestFd <= x
  BY <1>2, <1>3, MinExists DEF LowestFd
<1>5. LowestFd \in Nat /\ LowestFd \notin D /\ 3 <= LowestFd /\ LowestFd <= 3 + n
  BY <1>1, <1>4 DEF Free
<1>6. ASSUME NEW f \in 0 .. LowestFd - 1 PROVE f \in D
  <2>1. CASE f \in 0 .. 2
    BY <2>1 DEF Inv, StreamsOpen
  <2>2. CASE f \notin 0 .. 2
    <3>1. f \in 3 .. 3 + n /\ ~ (LowestFd <= f)
      BY <1>1, <1>5, <2>2
    <3>2. f \notin Free
      BY <1>4, <3>1
    <3> QED BY <3>1, <3>2 DEF Free
  <2> QED BY <2>1, <2>2
<1>7. LowestFd <= n
  <2>1. 0 .. LowestFd - 1 \in SUBSET D
    BY <1>6
  <2>2. Cardinality(0 .. LowestFd - 1) = LowestFd
    BY <1>5, FS_Interval
  <2>3. Cardinality(0 .. LowestFd - 1) <= n
    BY <1>1, <2>1, FS_Subset
  <2> QED BY <2>2, <2>3
<1> QED BY <1>5, <1>6, <1>7

-----------------------------------------------------------------------------
(* The calls, by what they do to the table and the files *)

\* The loop of writev adds up lengths.
LEMMA TotalTyped ==
  ASSUME NEW iov \in IoVecs, NEW n \in 0 .. Len(iov)
  PROVE  IovTotal(iov, n) \in Nat
<1> DEFINE E(f) == f = [k \in 0 .. n |-> IF k = 0 THEN 0 ELSE f[k - 1] + iov[k].len]
           each == [k \in 1 .. n |-> [x \in Nat |-> x + iov[k].len]]
           N == CHOOSE f : E(f)
<1>1. n \in Nat /\ \A k \in 1 .. n : iov[k].len \in Nat
  <2> DEFINE R == [base : Nat, len : Nat]
  <2>1. iov \in Seq(R)
    BY VectorAssumption
  <2>2. \A r \in R : r.len \in Nat
    OBVIOUS
  <2> HIDE DEF R
  <2>3. Len(iov) \in Nat /\ \A k \in 1 .. Len(iov) : iov[k] \in R
    BY <2>1
  <2> QED BY <2>2, <2>3
<1>2. each \in [1 .. n -> [Nat -> Nat]]
  BY <1>1
<1>3. \A k \in 1 .. n, x \in Nat : each[k][x] = x + iov[k].len
  OBVIOUS
<1>4. PICK g \in [0 .. n -> Nat] : g[0] = 0 /\ \A k \in 1 .. n : g[k] = each[k][g[k - 1]]
  <2> HIDE DEF each
  <2>1. Iterable(n, Nat, 0, each)
    BY <1>1, <1>2, Iterates
  <2> QED BY <2>1 DEF Iterable
<1>5. ASSUME NEW k \in 1 .. n PROVE g[k] = g[k - 1] + iov[k].len
  <2>1. g[k - 1] \in Nat
    BY <1>1
  <2> QED BY <1>3, <1>4, <2>1, Zenon
<1>6. E(g)
  BY <1>1, <1>4, <1>5
<1>7. E(N)
  <2> HIDE DEF E
  <2> QED BY <1>6, Zenon
<1>8. IovTotal(iov, n) = N[n]
  BY Zenon DEF IovTotal
<1> HIDE DEF N
<1>9. N[0] = 0 /\ \A k \in 1 .. n : N[k] = N[k - 1] + iov[k].len
  BY <1>1, <1>7
<1> DEFINE S == {k \in 0 .. n : N[k] \in Nat}
<1>10. 0 \in S
  BY <1>1, <1>9
<1>11. ASSUME NEW k \in 1 .. n, k - 1 \in S PROVE k \in S
  <2>1. N[k - 1] \in Nat /\ iov[k].len \in Nat /\ k \in 0 .. n
    BY <1>1, <1>11
  <2>2. N[k] = N[k - 1] + iov[k].len
    BY <1>9
  <2>3. N[k] \in Nat
    BY <2>1, <2>2
  <2> QED BY <2>1, <2>3
<1>12. 0 .. n \subseteq S
  <2> HIDE DEF S
  <2> QED BY <1>1, <1>10, <1>11, Climb
<1>13. N[n] \in Nat
  BY <1>1, <1>12
<1> QED BY <1>8, <1>13

\* What ErrorsContained says of the address space.
MemoryContained ==
  /\ heap_cursor' = heap_cursor
  /\ DOMAIN regions \subseteq DOMAIN regions'
  /\ \A b \in DOMAIN regions' :
       \/ b \in DOMAIN regions /\ regions'[b] = regions[b]
       \/ /\ served'.call = "mprotect" /\ b = Mem!RegionBase(served'.at)
          /\ \E pr \in Prots : regions'[b] = [regions[b] EXCEPT !.prot = pr]
       \/ served'.call = "vm_allocate" /\ b = mmap_cursor'

\* A call that touches neither the table nor a file.
Quiet ==
  /\ UNCHANGED <<slots, next_fd, files>>
  /\ served'.call = "open" => result'.err # ""
  /\ result'.err # "" => MemoryContained

\* write and writev, served in full or stopped: nothing, or some bytes of
\* write_bytes.
WritesSome(fd) ==
  /\ Enter("write", fd) /\ UNCHANGED memory
  /\ \/ UNCHANGED <<slots, next_fd, files>>
     \/ CanWrite(fd) /\ \E n \in Nat : WriteBytes(fd, n)

LEMMA Replies ==
  /\ \A v : Ok(v).err = "" /\ Ok(v).val = v
  /\ \A e : Err(e).err = e
BY DEF Ok, Err

LEMMA MemoryStays == UNCHANGED memory => MemoryContained
BY DEF memory, MemoryContained

LEMMA OnlyQuiet ==
  ASSUME NEW r, NEW fd, Enter("other", fd), Only(r)
  PROVE  Quiet
BY MemoryStays DEF Quiet, Enter, EnterAt, Only, Reply, fds

\* The part of a vector that writev sends.
LEMMA SentTotal ==
  ASSUME NEW iov \in IoVecs
  PROVE  IovTotal(iov, Sent(iov)) \in Nat
<1>1. iov \in Seq([base : Nat, len : Nat])
  BY VectorAssumption
<1>2. Len(iov) \in Nat /\ DOMAIN iov = 1 .. Len(iov)
  BY <1>1
<1>3. CASE BadBuffers(iov) = {}
  BY <1>2, <1>3, TotalTyped DEF Sent
<1>4. CASE BadBuffers(iov) # {}
  <2>1. BadBuffers(iov) \subseteq DOMAIN iov /\ BadBuffers(iov) \subseteq Nat
    BY <1>2 DEF BadBuffers
  <2>2. PICK m : m = Min(BadBuffers(iov))
    OBVIOUS
  <2>3. m \in BadBuffers(iov)
    BY <1>4, <2>1, <2>2, MinExists
  <2>4. m - 1 \in 0 .. Len(iov)
    BY <1>2, <2>1, <2>3
  <2> QED BY <1>4, <2>2, <2>4, TotalTyped DEF Sent
<1> QED BY <1>3, <1>4

\* Every call is quiet or one of five.
LEMMA StepKinds ==
  ASSUME Next
  PROVE  \/ Quiet
         \/ \E p \in DOMAIN Paths, fl \in OpenFlags : Open(p, fl)
         \/ \E fd \in Fds : Close(fd)
         \/ \E fd \in Fds, b \in Buffers, n \in Counts : ReadFile(fd, b, n)
         \/ \E fd \in Fds : WritesSome(fd)
         \/ \E fd \in Fds, o \in SeekOffsets, w \in 0 .. 3 : Lseek(fd, o, w)
<1>1. ASSUME NEW c \in {0, 1}, Exit(c) PROVE Quiet
  BY <1>1, Replies DEF Exit, Enter, EnterAt, Reply, Quiet, fds
<1>2. ASSUME NEW p, NEW fl, OpenFails(p, fl) PROVE Quiet
  BY <1>2, Replies, MemoryStays DEF OpenFails, Enter, EnterAt, Only, Reply, Quiet, fds
<1>3. ASSUME NEW fd, NEW b, ReadOther(fd, b) PROVE Quiet
  BY <1>3, OnlyQuiet DEF ReadOther
<1>4. ASSUME NEW fd, NEW b, NEW n, WriteOther(fd, b, n) PROVE Quiet
  BY <1>4, OnlyQuiet DEF WriteOther
<1>5. ASSUME NEW fd, NEW o, NEW w, LseekFails(fd, o, w) PROVE Quiet
  BY <1>5, OnlyQuiet DEF LseekFails
<1>6. ASSUME NEW p, AccessPath(p) PROVE Quiet
  BY <1>6, OnlyQuiet DEF AccessPath
<1>7. ASSUME HostFails \/ PathFault \/ MmapFile \/ Constant PROVE Quiet
  BY <1>7, OnlyQuiet DEF HostFails, PathFault, MmapFile, Constant
<1>8. ASSUME NEW s, MmapFails(s) \/ VmAllocateFails(s) PROVE Quiet
  BY <1>8, OnlyQuiet DEF MmapFails, VmAllocateFails
<1>9. ASSUME NEW a, MprotectFails(a) \/ FillBuffer(a) PROVE Quiet
  BY <1>9, OnlyQuiet DEF MprotectFails, FillBuffer
<1>10. ASSUME NEW s, NEW pr, Mmap(s, pr) PROVE Quiet
  BY <1>10, Replies DEF Mmap, Enter, EnterAt, Reply, Quiet, fds
<1>11. ASSUME NEW a, NEW pr \in Prots, Mprotect(a, pr) PROVE Quiet
  <2>1. served'.call = "mprotect" /\ served'.at = a /\ UNCHANGED <<slots, next_fd, files>>
    BY <1>11 DEF Mprotect, EnterAt, fds
  <2>2. /\ regions' = [regions EXCEPT ![Mem!RegionBase(a)].prot = pr]
        /\ heap_cursor' = heap_cursor
    BY <1>11 DEF Mprotect, Mem!Protect
  <2>3. PICK r : r = Mem!RegionBase(a)
    OBVIOUS
  <2>4. DOMAIN regions' = DOMAIN regions
    BY <2>2
  <2>5. \A b \in DOMAIN regions :
          regions'[b] = IF b = r THEN [regions[b] EXCEPT !.prot = pr] ELSE regions[b]
    BY <2>2, <2>3
  <2>6. MemoryContained
    BY <2>1, <2>2, <2>3, <2>4, <2>5 DEF MemoryContained
  <2> QED BY <2>1, <2>6 DEF Quiet
<1>12. ASSUME NEW b, NEW s, VmAllocate(b, s) PROVE Quiet
  <2>1. served'.call = "vm_allocate" /\ UNCHANGED <<slots, next_fd, files>>
    BY <1>12 DEF VmAllocate, Enter, EnterAt, fds
  <2>2. PICK reg : regions' = Mem!Insert(mmap_cursor', reg) /\ heap_cursor' = heap_cursor
    BY <1>12 DEF VmAllocate, Mem!MmapAnon
  <2>3. MemoryContained
    BY <2>1, <2>2 DEF MemoryContained, Mem!Insert
  <2> QED BY <2>1, <2>3 DEF Quiet
<1>13. ASSUME NEW fd, NEW n \in Nat, StopsShort(fd, n), Enter("write", fd) PROVE WritesSome(fd)
  <2>1. PICK k \in 0 .. n - 1 : WriteBytes(fd, k)
    BY <1>13 DEF StopsShort
  <2>2. k \in Nat
    OBVIOUS
  <2> QED BY <1>13, <2>1, <2>2 DEF WritesSome, StopsShort
<1>14. ASSUME NEW fd, NEW b, NEW n \in Counts, Write(fd, b, n) \/ WriteStops(fd, b, n)
       PROVE  WritesSome(fd)
  <2>1. n \in Nat
    BY SyscallAssumption
  <2>2. CASE Write(fd, b, n)
    BY <2>1, <2>2 DEF Write, WritesSome
  <2>3. CASE WriteStops(fd, b, n)
    BY <1>13, <2>1, <2>3 DEF WriteStops
  <2> QED BY <1>14, <2>2, <2>3
<1>15. ASSUME NEW fd, NEW iov \in IoVecs, Writev(fd, iov) \/ WritevStops(fd, iov)
       PROVE  WritesSome(fd)
  <2>1. IovTotal(iov, Sent(iov)) \in Nat
    BY SentTotal
  <2>2. CASE Writev(fd, iov)
    <3>1. Enter("write", fd) /\ UNCHANGED memory
      BY <2>2 DEF Writev
    <3>2. \/ CanWrite(fd) /\ WriteBytes(fd, IovTotal(iov, Sent(iov)))
          \/ UNCHANGED <<slots, next_fd, files>>
      BY <2>2 DEF Writev, fds
    <3> QED BY <2>1, <3>1, <3>2 DEF WritesSome
  <2>3. CASE WritevStops(fd, iov)
    BY <1>13, <2>1, <2>3 DEF WritevStops
  <2> QED BY <1>15, <2>2, <2>3
<1> QED BY <1>1, <1>2, <1>3, <1>4, <1>5, <1>6, <1>7, <1>8, <1>9, <1>10, <1>11, <1>12, <1>14, <1>15
        DEF Next

\* A file's length, and the type of a descriptor.
LEMMA SlotFacts ==
  ASSUME Inv, NEW fd, IsFile(fd)
  PROVE  /\ fd \in DOMAIN slots /\ fd \notin 0 .. 2
         /\ slots[fd] \in Slot /\ slots[fd].off \in 0 .. MaxLen
         /\ slots[fd].path \in DOMAIN Paths
         /\ files[slots[fd].path] \in Absent .. MaxLen
<1>1. fd \in DOMAIN slots /\ slots[fd].kind = "File"
  BY DEF IsFile
<1>2. fd \notin 0 .. 2
  BY <1>1, StreamKind DEF Inv
<1>3. slots[fd] \in Slot
  BY <1>1 DEF Inv, Typed
<1>4. slots[fd].path \in DOMAIN Paths
  BY <1>1 DEF Inv, Typed
<1> QED BY <1>1, <1>2, <1>3, <1>4 DEF Inv, Typed, Slot

\* Moving the position of a file inside its bounds.
LEMMA MoveKeepsInv ==
  ASSUME Inv, NEW fd, IsFile(fd), NEW pos \in 0 .. MaxLen,
         slots' = [slots EXCEPT ![fd].off = pos], UNCHANGED next_fd,
         files' \in [DOMAIN Paths -> Absent .. MaxLen]
  PROVE  Inv'
<1>1. fd \in DOMAIN slots /\ fd \notin 0 .. 2 /\ slots[fd] \in Slot
  BY SlotFacts
<1>2. DOMAIN slots' = DOMAIN slots
  BY DEF Inv, Typed
<1>3. \A f \in DOMAIN slots : f # fd => slots'[f] = slots[f]
  BY DEF Inv, Typed
<1>4. slots'[fd] = [slots[fd] EXCEPT !.off = pos]
  BY <1>1 DEF Inv, Typed
<1>5. slots'[fd] \in Slot /\ slots'[fd].path = slots[fd].path /\ slots'[fd].kind = slots[fd].kind
  BY <1>1, <1>4 DEF Slot
<1>6. \A f \in DOMAIN slots' : slots'[f] \in Slot
  BY <1>2, <1>3, <1>5 DEF Inv, Typed
<1>7. slots' \in [DOMAIN slots' -> Slot]
  <2>1. slots' = [f \in DOMAIN slots |-> slots'[f]]
    BY DEF Inv, Typed
  <2> QED BY <1>2, <1>6, <2>1
<1>8. \A f \in DOMAIN slots' : slots'[f].kind = "File" => slots'[f].path \in DOMAIN Paths
  BY <1>2, <1>3, <1>5 DEF Inv, Typed
<1>9. Typed'
  BY <1>2, <1>7, <1>8 DEF Inv, Typed
<1>10. StreamsOpen'
  BY <1>1, <1>2, <1>3 DEF Inv, StreamsOpen, StreamAt
<1> QED BY <1>9, <1>10 DEF Inv

\* What read takes from a file ends in the file.
LEMMA ReadBound ==
  ASSUME NEW len \in Absent .. MaxLen, NEW off \in 0 .. MaxLen, NEW count \in Nat
  PROVE  LET n == IF len <= off THEN 0 ELSE Min({count, len - off})
         IN  off + n \in 0 .. MaxLen
<1>1. CASE len <= off
  BY <1>1, SyscallAssumption
<1>2. CASE ~ (len <= off)
  <2>1. len - off \in Nat
    BY <1>2, SyscallAssumption DEF Absent
  <2>2. {count, len - off} \subseteq Nat /\ {count, len - off} # {}
    BY <2>1
  <2>3. PICK m : m = Min({count, len - off})
    OBVIOUS
  <2>4. m \in {count, len - off} /\ m <= len - off
    BY <2>2, <2>3, MinExists
  <2>5. off + m \in 0 .. MaxLen
    BY <2>1, <2>4, SyscallAssumption DEF Absent
  <2> QED BY <1>2, <2>3, <2>5
<1> QED BY <1>1, <1>2

\* write_bytes keeps lengths and positions inside the bound.
LEMMA WriteKeepsInv ==
  ASSUME Inv, NEW fd, CanWrite(fd), NEW n \in Nat, WriteBytes(fd, n)
  PROVE  Inv'
<1>1. IsFile(fd)
  BY DEF CanWrite
<1>2. CASE n = 0
  <2>1. UNCHANGED <<slots, files, next_fd>>
    BY <1>2 DEF WriteBytes
  <2> QED BY <2>1 DEF Inv, Typed, StreamsOpen, StreamAt
<1>3. CASE n # 0
  <2> DEFINE pos == WriteAt(fd) + n
             path == slots[fd].path
  <2>1. WriteAt(fd) \in Absent .. MaxLen
    BY <1>1, SlotFacts, SyscallAssumption DEF WriteAt, Absent
  <2>2. pos \in 0 .. MaxLen
    BY <1>3, <2>1, SyscallAssumption DEF WriteBytes, Absent
  <2>3. files' = [files EXCEPT ![path] = Mem!AtLeast(files[path], pos)]
    BY <1>3 DEF WriteBytes
  <2>4. Mem!AtLeast(files[path], pos) \in Absent .. MaxLen
    <3>1. files[path] \in Absent .. MaxLen
      BY <1>1, SlotFacts
    <3> HIDE DEF pos
    <3> QED BY <2>2, <3>1 DEF Mem!AtLeast, Absent
  <2>5. files' \in [DOMAIN Paths -> Absent .. MaxLen]
    <3> HIDE DEF pos
    <3> QED BY <2>3, <2>4 DEF Inv, Typed
  <2>6. slots' = [slots EXCEPT ![fd].off = pos] /\ UNCHANGED next_fd
    BY <1>3 DEF WriteBytes
  <2> HIDE DEF pos
  <2> QED BY <1>1, <2>2, <2>5, <2>6, MoveKeepsInv
<1> QED BY <1>2, <1>3

-----------------------------------------------------------------------------
(* The invariant holds *)

LEMMA InitInv == Init => Inv
<1> SUFFICES ASSUME Init PROVE Inv
  OBVIOUS
<1>1. DOMAIN slots = 0 .. 2 /\ \A f \in 0 .. 2 : slots[f] = StreamAt(f)
  BY DEF Init, StreamAt
<1>2. ASSUME NEW f \in 0 .. 2 PROVE StreamAt(f) \in Slot /\ StreamAt(f).kind # "File"
  <2>1. <<"Stdin", "Stdout", "Stderr">>[f + 1] \in Streams
    <3>1. CASE f = 0 BY <3>1 DEF Streams
    <3>2. CASE f = 1 BY <3>2 DEF Streams
    <3>3. CASE f = 2 BY <3>3 DEF Streams
    <3> QED BY <3>1, <3>2, <3>3
  <2>2. PICK k \in Streams : k = <<"Stdin", "Stdout", "Stderr">>[f + 1]
    BY <2>1
  <2>3. StreamAt(f) = Stream(k)
    BY <2>2 DEF StreamAt
  <2>4. Stream(k) \in Slot /\ Stream(k).kind = k
    BY SyscallAssumption DEF Stream, Slot
  <2> QED BY <2>3, <2>4 DEF Streams
<1>3. slots \in [DOMAIN slots -> Slot]
  <2>1. slots = [f \in 0 .. 2 |-> slots[f]]
    BY DEF Init
  <2> QED BY <1>1, <1>2, <2>1
<1>4. DOMAIN slots \subseteq 0 .. MaxFd
  BY <1>1, SyscallAssumption
<1>5. next_fd \in 3 .. MaxFd + 1
  BY SyscallAssumption DEF Init
<1>6. files \in [DOMAIN Paths -> Absent .. MaxLen]
  BY SyscallAssumption DEF Init, Absent
<1>7. \A f \in DOMAIN slots : slots[f].kind # "File"
  BY <1>1, <1>2
<1> QED BY <1>1, <1>3, <1>4, <1>5, <1>6, <1>7 DEF Inv, Typed, StreamsOpen

\* What open enters in the table.
NewSlot(p, flags) ==
  [kind |-> "File", path |-> p, off |-> 0, read |-> Access(flags).read,
   write |-> Access(flags).write, append |-> Access(flags).append]

LEMMA FileSlot ==
  ASSUME NEW p \in DOMAIN Paths, NEW fl
  PROVE  NewSlot(p, fl) \in Slot /\ NewSlot(p, fl).path = p
<1>1. 0 \in 0 .. MaxLen /\ "File" \in Streams \cup {"File"} /\ p \in DOMAIN Paths \cup {""}
  <2>1. MaxLen \in Nat
    BY SyscallAssumption
  <2>2. 0 \in 0 .. MaxLen
    BY <2>1
  <2>3. "File" \in Streams \cup {"File"}
    OBVIOUS
  <2>4. p \in DOMAIN Paths \cup {""}
    BY Zenon
  <2> QED BY <2>2, <2>3, <2>4
<1>2. /\ Access(fl).read = ("WRONLY" \notin fl)
      /\ Access(fl).write = (Writes(fl) \/ "APPEND" \in fl)
      /\ Access(fl).append = ("APPEND" \in fl)
  BY DEF Access
<1>3. Access(fl).read \in BOOLEAN
  <2>1. CASE "WRONLY" \in fl BY <1>2, <2>1
  <2>2. CASE "WRONLY" \notin fl BY <1>2, <2>2
  <2> QED BY <2>1, <2>2
<1>4. Access(fl).write \in BOOLEAN
  <2>1. CASE Writes(fl) \/ "APPEND" \in fl BY <1>2, <2>1
  <2>2. CASE ~ (Writes(fl) \/ "APPEND" \in fl) BY <1>2, <2>2
  <2> QED BY <2>1, <2>2
<1>5. Access(fl).append \in BOOLEAN
  <2>1. CASE "APPEND" \in fl BY <1>2, <2>1
  <2>2. CASE "APPEND" \notin fl BY <1>2, <2>2
  <2> QED BY <2>1, <2>2
<1> QED BY <1>1, <1>3, <1>4, <1>5 DEF NewSlot, Slot

LEMMA OpenTable ==
  ASSUME Inv, NEW p \in DOMAIN Paths, NEW fl, Open(p, fl)
  PROVE  /\ DOMAIN slots' = DOMAIN slots \cup {LowestFd}
         /\ \A f \in DOMAIN slots : slots'[f] = slots[f]
         /\ slots'[LowestFd] = NewSlot(p, fl)
         /\ slots' = [f \in DOMAIN slots' |-> slots'[f]]
<1>1. slots' = [f \in DOMAIN slots \cup {LowestFd} |->
                  IF f = LowestFd THEN NewSlot(p, fl) ELSE slots[f]]
  BY DEF Open, Insert, NewSlot
<1>2. LowestFd \notin DOMAIN slots
  BY LowestFdExact
<1> QED BY <1>1, <1>2

LEMMA OpenKeepsInv ==
  ASSUME Inv, NEW p \in DOMAIN Paths, NEW fl, Open(p, fl)
  PROVE  Inv'
<1>1. PICK l \in Nat : l = LowestFd
  BY LowestFdExact
<1>2. l \notin DOMAIN slots /\ 3 <= l /\ l <= Cardinality(DOMAIN slots)
  BY <1>1, LowestFdExact
<1>3. l \in 3 .. MaxFd
  <2>1. Cardinality(DOMAIN slots) < MaxFd /\ MaxFd \in Nat
    BY SyscallAssumption DEF Open
  <2>2. IsFiniteSet(DOMAIN slots)
    <3>0. MaxFd \in Int
      BY SyscallAssumption
    <3>1. IsFiniteSet(0 .. MaxFd)
      BY <3>0, FS_Interval
    <3> QED BY <3>1, FS_Subset DEF Inv, Typed
  <2>3. Cardinality(DOMAIN slots) \in Nat
    BY <2>2, FS_CardinalityType
  <2> QED BY <1>2, <2>1, <2>3
<1>4. /\ DOMAIN slots' = DOMAIN slots \cup {l}
      /\ \A f \in DOMAIN slots : slots'[f] = slots[f]
      /\ slots'[l] = NewSlot(p, fl)
      /\ slots' = [f \in DOMAIN slots' |-> slots'[f]]
  BY <1>1, OpenTable
<1>5. NewSlot(p, fl) \in Slot /\ NewSlot(p, fl).path = p
  BY FileSlot
<1>6. DOMAIN slots' \subseteq 0 .. MaxFd
  BY <1>3, <1>4 DEF Inv, Typed
<1>7. slots' \in [DOMAIN slots' -> Slot]
  <2>1. \A f \in DOMAIN slots' : slots'[f] \in Slot
    BY <1>4, <1>5 DEF Inv, Typed
  <2> QED BY <1>4, <2>1
<1>8. \A f \in DOMAIN slots' : slots'[f].kind = "File" => slots'[f].path \in DOMAIN Paths
  BY <1>4, <1>5 DEF Inv, Typed
<1>9. next_fd' \in 3 .. MaxFd + 1
  <2>1. next_fd' = Mem!AtLeast(next_fd, l + 1)
    BY <1>1 DEF Open, Insert
  <2>2. next_fd \in 3 .. MaxFd + 1
    BY DEF Inv, Typed
  <2> QED BY <1>3, <2>1, <2>2, SyscallAssumption DEF Mem!AtLeast
<1>10. files' \in [DOMAIN Paths -> Absent .. MaxLen]
  <2>1. files \in [DOMAIN Paths -> Absent .. MaxLen] /\ 0 \in Absent .. MaxLen
    BY SyscallAssumption DEF Inv, Typed, Absent
  <2>2. files' = [files EXCEPT ![p] = IF @ = Absent \/ "TRUNC" \in fl THEN 0 ELSE @]
    BY DEF Open
  <2> QED BY <2>1, <2>2
<1>11. StreamsOpen'
  BY <1>4 DEF Inv, StreamsOpen, StreamAt
<1> QED BY <1>6, <1>7, <1>8, <1>9, <1>10, <1>11 DEF Inv, Typed

LEMMA CloseTable ==
  ASSUME Inv, NEW fd, Close(fd)
  PROVE  /\ DOMAIN slots' \subseteq DOMAIN slots
         /\ \A f \in DOMAIN slots' : slots'[f] = slots[f]
         /\ slots' = [f \in DOMAIN slots' |-> slots'[f]]
         /\ \A f \in 0 .. 2 : f \in DOMAIN slots'
         /\ fd \notin DOMAIN slots => slots' = slots
<1>1. slots = [f \in DOMAIN slots |-> slots[f]] /\ \A f \in 0 .. 2 : f \in DOMAIN slots
  BY DEF Inv, Typed, StreamsOpen
<1>2. CASE fd \in 0 .. 2
  BY <1>1, <1>2 DEF Close, CloseFd
<1>3. CASE fd \notin 0 .. 2
  <2>1. slots' = [f \in DOMAIN slots \ {fd} |-> slots[f]]
    BY <1>3 DEF Close, CloseFd
  <2>2. fd \notin DOMAIN slots => DOMAIN slots \ {fd} = DOMAIN slots
    OBVIOUS
  <2>3. fd \notin DOMAIN slots => slots' = slots
    BY <1>1, <2>1, <2>2
  <2> QED BY <1>1, <1>3, <2>1, <2>3
<1> QED BY <1>2, <1>3

LEMMA CloseKeepsInv ==
  ASSUME Inv, NEW fd, Close(fd)
  PROVE  Inv'
<1>1. /\ DOMAIN slots' \subseteq DOMAIN slots
      /\ \A f \in DOMAIN slots' : slots'[f] = slots[f]
      /\ slots' = [f \in DOMAIN slots' |-> slots'[f]]
      /\ \A f \in 0 .. 2 : f \in DOMAIN slots'
  BY CloseTable
<1>2. slots' \in [DOMAIN slots' -> Slot]
  <2>1. \A f \in DOMAIN slots' : slots'[f] \in Slot
    BY <1>1 DEF Inv, Typed
  <2> QED BY <1>1, <2>1
<1>3. \A f \in DOMAIN slots' : slots'[f].kind = "File" => slots'[f].path \in DOMAIN Paths
  BY <1>1 DEF Inv, Typed
<1>4. UNCHANGED <<next_fd, files>>
  BY DEF Close
<1>5. Typed'
  BY <1>1, <1>2, <1>3, <1>4 DEF Inv, Typed
<1>6. StreamsOpen'
  BY <1>1 DEF Inv, StreamsOpen, StreamAt
<1> QED BY <1>5, <1>6 DEF Inv

\* read and lseek move one position.
LEMMA ReadMoves ==
  ASSUME Inv, NEW fd, NEW b, NEW n \in Counts, ReadFile(fd, b, n)
  PROVE  \E pos \in 0 .. MaxLen : slots' = [slots EXCEPT ![fd].off = pos]
<1>1. IsFile(fd)
  BY DEF ReadFile
<1>2. slots[fd].off \in 0 .. MaxLen /\ files[slots[fd].path] \in Absent .. MaxLen /\ n \in Nat
  BY <1>1, SlotFacts, SyscallAssumption
<1>3. PICK k : k = IF files[slots[fd].path] <= slots[fd].off THEN 0
                   ELSE Min({n, files[slots[fd].path] - slots[fd].off})
  OBVIOUS
<1>4. slots[fd].off + k \in 0 .. MaxLen
  BY <1>2, <1>3, ReadBound
<1>5. slots' = [slots EXCEPT ![fd].off = @ + k]
  BY <1>3 DEF ReadFile
<1>6. slots' = [slots EXCEPT ![fd].off = slots[fd].off + k]
  BY <1>5
<1> QED BY <1>4, <1>6

LEMMA SeekMoves ==
  ASSUME Inv, NEW fd, NEW o \in SeekOffsets, NEW w \in 0 .. 3, Lseek(fd, o, w)
  PROVE  \E pos \in 0 .. MaxLen : slots' = [slots EXCEPT ![fd].off = pos]
<1>1. slots[fd].off \in 0 .. MaxLen /\ files[slots[fd].path] \in Absent .. MaxLen /\ o \in Int
  BY SlotFacts, SyscallAssumption DEF Lseek
<1>2. SeekBase(fd, w) \in Int
  BY <1>1, SyscallAssumption DEF SeekBase, Absent
<1>3. PICK pos : pos = SeekBase(fd, w) + o
  OBVIOUS
<1>4. pos \in Int
  BY <1>1, <1>2, <1>3
<1>5. SeekOk(fd, pos) /\ slots' = [slots EXCEPT ![fd].off = pos]
  BY <1>3 DEF Lseek
<1>6. pos \in 0 .. MaxLen
  BY <1>4, <1>5, SyscallAssumption DEF SeekOk
<1> QED BY <1>5, <1>6

LEMMA NextInv == Inv /\ [Next]_vars => Inv'
<1> SUFFICES ASSUME Inv, [Next]_vars PROVE Inv'
  OBVIOUS
<1>1. CASE UNCHANGED <<slots, next_fd, files>>
  BY <1>1 DEF Inv, Typed, StreamsOpen, StreamAt
<1>2. ASSUME NEW fd, NEW b, NEW n \in Counts, ReadFile(fd, b, n) PROVE Inv'
  <2>1. PICK pos \in 0 .. MaxLen : slots' = [slots EXCEPT ![fd].off = pos]
    BY <1>2, ReadMoves
  <2>2. IsFile(fd) /\ UNCHANGED <<next_fd, files>>
    BY <1>2 DEF ReadFile
  <2>3. files' \in [DOMAIN Paths -> Absent .. MaxLen]
    BY <2>2 DEF Inv, Typed
  <2> QED BY <2>1, <2>2, <2>3, MoveKeepsInv
<1>3. ASSUME NEW fd, NEW o \in SeekOffsets, NEW w \in 0 .. 3, Lseek(fd, o, w) PROVE Inv'
  <2>1. PICK pos \in 0 .. MaxLen : slots' = [slots EXCEPT ![fd].off = pos]
    BY <1>3, SeekMoves
  <2>2. IsFile(fd) /\ UNCHANGED <<next_fd, files>>
    BY <1>3 DEF Lseek
  <2>3. files' \in [DOMAIN Paths -> Absent .. MaxLen]
    BY <2>2 DEF Inv, Typed
  <2> QED BY <2>1, <2>2, <2>3, MoveKeepsInv
<1>4. ASSUME NEW fd, WritesSome(fd) PROVE Inv'
  BY <1>1, <1>4, WriteKeepsInv DEF WritesSome
<1>6. CASE UNCHANGED vars
  BY <1>1, <1>6 DEF vars, fds
<1>7. CASE Quiet
  BY <1>1, <1>7 DEF Quiet
<1> QED BY <1>2, <1>3, <1>4, <1>6, <1>7, StepKinds, OpenKeepsInv, CloseKeepsInv

\* Descriptors 0, 1 and 2 are the standard streams after every sequence of
\* calls, and the table and the files keep their types (FdTable::close refuses
\* the streams, FdTable::insert starts above them).
THEOREM StreamsStayOpen == Spec => []StandardStreamsStay
<1>1. Inv => StandardStreamsStay
  BY DEF Inv, Typed, StreamsOpen, StreamAt, StandardStreamsStay, TypeOK, Slot
<1> QED BY <1>1, InitInv, NextInv, PTL DEF Spec

-----------------------------------------------------------------------------
(* What a call may do *)

\* open answers the lowest descriptor that is not open, whatever was opened and
\* closed before (FdTable::insert).
THEOREM OpenTakesLowest == Spec => LowestFdAnswered
<1> DEFINE P == (served'.call = "open" /\ result'.err = "")
                  => /\ result'.val \notin DOMAIN slots
                     /\ \A f \in 0 .. result'.val - 1 : f \in DOMAIN slots
<1>1. ASSUME Inv, [Next]_vars PROVE [P]_vars
  <2>1. CASE UNCHANGED vars
    BY <2>1
  <2>2. CASE Quiet
    BY <2>2 DEF Quiet
  <2>3. ASSUME NEW p \in DOMAIN Paths, NEW fl, Open(p, fl) PROVE P
    <3>1. result'.val = LowestFd
      BY <2>3, Replies DEF Open, Reply
    <3> QED BY <1>1, <3>1, LowestFdExact
  <2>4. ASSUME NEW fd, Close(fd) PROVE P
    BY <2>4 DEF Close, Enter, EnterAt
  <2>5. ASSUME NEW fd, NEW b, NEW n, ReadFile(fd, b, n) PROVE P
    BY <2>5 DEF ReadFile, Enter, EnterAt
  <2>6. ASSUME NEW fd, WritesSome(fd) PROVE P
    BY <2>6 DEF WritesSome, Enter, EnterAt
  <2>8. ASSUME NEW fd, NEW o, NEW w, Lseek(fd, o, w) PROVE P
    BY <2>8 DEF Lseek, Enter, EnterAt
  <2> HIDE DEF P
  <2> QED BY <1>1, <2>1, <2>2, <2>3, <2>4, <2>5, <2>6, <2>8, StepKinds
<1>2. Spec => [][P]_vars
  <2> HIDE DEF P
  <2> QED BY <1>1, InitInv, NextInv, PTL DEF Spec
<1> QED BY <1>2 DEF LowestFdAnswered

\* A call on one descriptor, as another one sees it.
Kept(f) ==
  /\ [slots'[f] EXCEPT !.off = 0] = [slots[f] EXCEPT !.off = 0]
  /\ slots'[f].off # slots[f].off => served'.fd = f

LEMMA MoveKeepsOthers ==
  ASSUME Inv, NEW fd, IsFile(fd), NEW pos, slots' = [slots EXCEPT ![fd].off = pos],
         served'.fd = fd, NEW f \in DOMAIN slots
  PROVE  Kept(f)
<1>1. slots[f] \in Slot
  BY DEF Inv, Typed
<1>2. CASE f # fd
  <2>1. slots'[f] = slots[f]
    BY <1>2 DEF Inv, Typed
  <2> QED BY <2>1 DEF Kept
<1>3. CASE f = fd
  <2>1. slots'[f] = [slots[f] EXCEPT !.off = pos]
    BY <1>3 DEF Inv, Typed
  <2>2. [slots'[f] EXCEPT !.off = 0] = [slots[f] EXCEPT !.off = 0]
    BY <1>1, <2>1 DEF Slot
  <2> QED BY <1>3, <2>2 DEF Kept
<1> QED BY <1>2, <1>3

LEMMA WriteKeepsOthers ==
  ASSUME Inv, NEW fd, CanWrite(fd), NEW n, WriteBytes(fd, n), served'.fd = fd,
         NEW f \in DOMAIN slots
  PROVE  Kept(f)
<1>1. CASE n = 0
  BY <1>1 DEF WriteBytes, Kept
<1>2. CASE n # 0
  <2>1. slots' = [slots EXCEPT ![fd].off = WriteAt(fd) + n]
    BY <1>2 DEF WriteBytes
  <2>2. IsFile(fd)
    BY DEF CanWrite
  <2> QED BY <2>1, <2>2, MoveKeepsOthers
<1> QED BY <1>1, <1>2

\* An open descriptor goes on naming the same file with the same access until it
\* is closed, and only a call on it moves its position.
THEOREM DescriptorsKeepTheirFile == Spec => DescriptorsIndependent
<1> DEFINE P == \A f \in DOMAIN slots : f \in DOMAIN slots' => Kept(f)
<1>1. ASSUME Inv, [Next]_vars PROVE P
  <2> SUFFICES ASSUME NEW f \in DOMAIN slots, f \in DOMAIN slots' PROVE Kept(f)
    OBVIOUS
  <2>0. CASE slots'[f] = slots[f]
    BY <2>0 DEF Kept
  <2>1. CASE UNCHANGED vars
    BY <2>0, <2>1 DEF vars, fds
  <2>2. CASE Quiet
    BY <2>0, <2>2 DEF Quiet
  <2>3. ASSUME NEW p \in DOMAIN Paths, NEW fl, Open(p, fl) PROVE Kept(f)
    BY <1>1, <2>0, <2>3, OpenTable
  <2>4. ASSUME NEW fd, Close(fd) PROVE Kept(f)
    BY <1>1, <2>0, <2>4, CloseTable
  <2>5. ASSUME NEW fd, NEW b, NEW n \in Counts, ReadFile(fd, b, n) PROVE Kept(f)
    <3>1. IsFile(fd) /\ served'.fd = fd
      BY <2>5 DEF ReadFile, Enter, EnterAt
    <3> QED BY <1>1, <2>5, <3>1, ReadMoves, MoveKeepsOthers
  <2>6. ASSUME NEW fd, WritesSome(fd) PROVE Kept(f)
    <3>1. served'.fd = fd
      BY <2>6 DEF WritesSome, Enter, EnterAt
    <3> QED BY <1>1, <2>0, <2>6, <3>1, WriteKeepsOthers DEF WritesSome
  <2>8. ASSUME NEW fd, NEW o \in SeekOffsets, NEW w \in 0 .. 3, Lseek(fd, o, w) PROVE Kept(f)
    <3>1. IsFile(fd) /\ served'.fd = fd
      BY <2>8 DEF Lseek, Enter, EnterAt
    <3> QED BY <1>1, <2>8, <3>1, SeekMoves, MoveKeepsOthers
  <2> QED BY <1>1, <2>1, <2>2, <2>3, <2>4, <2>5, <2>6, <2>8, StepKinds
<1>2. Spec => [][P]_vars
  <2> HIDE DEF P
  <2> QED BY <1>1, InitInv, NextInv, PTL DEF Spec
<1> QED BY <1>2 DEF DescriptorsIndependent, Kept

\* The effect of write_bytes that others can see.
LEMMA WriteContained ==
  ASSUME Inv, NEW fd, CanWrite(fd), NEW n \in Nat, WriteBytes(fd, n)
  PROVE  /\ DOMAIN slots' = DOMAIN slots
         /\ \A f \in DOMAIN slots : slots'[f] # slots[f] => f = fd
         /\ \A p \in DOMAIN Paths : files'[p] # files[p] =>
              files[p] < files'[p] /\ slots[fd].path = p
<1>1. CASE n = 0
  BY <1>1 DEF WriteBytes
<1>2. CASE n # 0
  <2>1. /\ slots[fd].path \in DOMAIN Paths /\ files[slots[fd].path] \in Absent .. MaxLen
        /\ slots[fd].off \in 0 .. MaxLen
    BY SlotFacts DEF CanWrite
  <2>2. PICK end : end = WriteAt(fd) + n
    OBVIOUS
  <2>3. end \in Int
    BY <2>1, <2>2, SyscallAssumption DEF WriteAt, Absent
  <2>4. /\ files' = [files EXCEPT ![slots[fd].path] = Mem!AtLeast(files[slots[fd].path], end)]
        /\ slots' = [slots EXCEPT ![fd].off = end]
    BY <1>2, <2>2 DEF WriteBytes
  <2>5. \A p \in DOMAIN Paths : files'[p] # files[p] =>
          p = slots[fd].path /\ files'[p] = Mem!AtLeast(files[p], end)
    BY <2>1, <2>4 DEF Inv, Typed
  <2>6. \A p \in DOMAIN Paths : files'[p] # files[p] => files[p] < files'[p]
    BY <2>1, <2>3, <2>5 DEF Mem!AtLeast, Absent
  <2> QED BY <2>4, <2>5, <2>6
<1> QED BY <1>1, <1>2

\* A call that reports an error opens and closes nothing; it moves at most the
\* position of its own descriptor and lengthens at most that descriptor's file,
\* where a write was stopped; it leaves every region as it was, but for the
\* protection that mprotect noted and the mapping that vm_allocate could not report.
THEOREM ErrorsAreContained == Spec => ErrorsContained
<1> DEFINE F == /\ DOMAIN slots' = DOMAIN slots
                /\ \A f \in DOMAIN slots :
                     slots'[f] # slots[f] => f = served'.fd /\ served'.call \in {"read", "write"}
                /\ \A p \in DOMAIN Paths : files'[p] # files[p] =>
                     /\ files[p] < files'[p] /\ served'.call = "write"
                     /\ CanWrite(served'.fd) /\ slots[served'.fd].path = p
           P == result'.err # "" => F /\ MemoryContained
<1>1. ASSUME Inv, [Next]_vars PROVE [P]_vars
  <2>1. CASE UNCHANGED vars
    BY <2>1
  <2>2. CASE Quiet
    BY <2>2 DEF Quiet
  <2>3. ASSUME NEW p, NEW fl, Open(p, fl) PROVE P
    BY <2>3, Replies DEF Open, Reply
  <2>4. ASSUME NEW fd, Close(fd) PROVE P
    <3>1. UNCHANGED <<memory, files>>
      BY <2>4 DEF Close
    <3>2. fd \in DOMAIN slots => result'.err = ""
      BY <2>4, Replies DEF Close, Reply
    <3>3. fd \notin DOMAIN slots => slots' = slots
      BY <1>1, <2>4, CloseTable
    <3> QED BY <3>1, <3>2, <3>3, MemoryStays
  <2>5. ASSUME NEW fd, NEW b, NEW n \in Counts, ReadFile(fd, b, n) PROVE P
    <3>1. /\ served'.fd = fd /\ served'.call = "read" /\ UNCHANGED <<memory, files>>
      BY <2>5 DEF ReadFile, Enter, EnterAt
    <3>2. PICK pos : slots' = [slots EXCEPT ![fd].off = pos]
      BY <1>1, <2>5, ReadMoves
    <3> QED BY <3>1, <3>2, MemoryStays
  <2>6. ASSUME NEW fd, WritesSome(fd) PROVE P
    <3>1. served'.fd = fd /\ served'.call = "write" /\ UNCHANGED memory
      BY <2>6 DEF WritesSome, Enter, EnterAt
    <3>2. CASE UNCHANGED <<slots, next_fd, files>>
      BY <3>1, <3>2, MemoryStays
    <3>3. CASE CanWrite(fd) /\ \E n \in Nat : WriteBytes(fd, n)
      BY <1>1, <3>1, <3>3, MemoryStays, WriteContained
    <3> QED BY <2>6, <3>2, <3>3 DEF WritesSome
  <2>8. ASSUME NEW fd, NEW o, NEW w, Lseek(fd, o, w) PROVE P
    BY <2>8, Replies DEF Lseek, Reply
  <2> HIDE DEF P
  <2> QED BY <1>1, <2>1, <2>2, <2>3, <2>4, <2>5, <2>6, <2>8, StepKinds
<1> DEFINE Q == result'.err # "" =>
       /\ DOMAIN slots' = DOMAIN slots
       /\ \A f \in DOMAIN slots :
            slots'[f] # slots[f] => f = served'.fd /\ served'.call \in {"read", "write"}
       /\ \A p \in DOMAIN Paths : files'[p] # files[p] =>
            /\ files[p] < files'[p] /\ served'.call = "write"
            /\ CanWrite(served'.fd) /\ slots[served'.fd].path = p
       /\ heap_cursor' = heap_cursor
       /\ DOMAIN regions \subseteq DOMAIN regions'
       /\ \A b \in DOMAIN regions' :
            \/ b \in DOMAIN regions /\ regions'[b] = regions[b]
            \/ /\ served'.call = "mprotect" /\ b = Mem!RegionBase(served'.at)
               /\ \E pr \in Prots : regions'[b] = [regions[b] EXCEPT !.prot = pr]
            \/ served'.call = "vm_allocate" /\ b = mmap_cursor'
<1>2. ASSUME [P]_vars PROVE [Q]_vars
  BY <1>2 DEF MemoryContained
<1>3. Spec => [][Q]_vars
  <2> HIDE DEF P, Q
  <2> QED BY <1>1, <1>2, InitInv, NextInv, PTL DEF Spec
<1> QED BY <1>3 DEF ErrorsContained

-----------------------------------------------------------------------------
(* The system image *)

\* No descriptor writes to the system image, and its files exist.
ImageSealed ==
  /\ AppendWrites
  /\ \A f \in DOMAIN slots :
       slots[f].kind = "File" /\ Paths[slots[f].path] = "system" => ~ slots[f].write
  /\ \A p \in DOMAIN Paths : Paths[p] = "system" => files[p] # Absent

ImageKept == \A p \in DOMAIN Paths : Paths[p] = "system" => files'[p] = files[p]

\* Access to a file of the image that open grants.
LEMMA ImageOpensReadOnly ==
  ASSUME AppendWrites, NEW p \in DOMAIN Paths, Paths[p] = "system", NEW fl \in OpenFlags,
         OpenError(p, fl) = ""
  PROVE  ~ Writes(fl) /\ "APPEND" \notin fl /\ "TRUNC" \notin fl
<1>1. ~ Writes(fl) /\ ~ BadOptions(fl)
  BY DEF OpenError, ReadOnlyTree
<1>2. "APPEND" \notin fl
  BY <1>1 DEF AppendWrites
<1> QED BY <1>1, <1>2 DEF BadOptions

\* A write goes to a file outside of the image.
LEMMA WriteKeepsImage ==
  ASSUME Inv, ImageSealed, NEW fd, CanWrite(fd), NEW n, WriteBytes(fd, n)
  PROVE  /\ ImageKept
         /\ DOMAIN slots' = DOMAIN slots
         /\ \A f \in DOMAIN slots :
              /\ slots'[f].kind = slots[f].kind /\ slots'[f].path = slots[f].path
              /\ slots'[f].write = slots[f].write
<1>1. CASE n = 0
  BY <1>1 DEF WriteBytes, ImageKept
<1>2. CASE n # 0
  <2>1. fd \in DOMAIN slots /\ Paths[slots[fd].path] # "system" /\ slots[fd].path \in DOMAIN Paths
    BY SlotFacts DEF CanWrite, IsFile, ImageSealed
  <2>2. PICK len : files' = [files EXCEPT ![slots[fd].path] = len]
    BY <1>2 DEF WriteBytes
  <2>3. ImageKept
    BY <2>1, <2>2 DEF ImageKept, Inv, Typed
  <2>4. PICK v : slots' = [slots EXCEPT ![fd].off = v]
    BY <1>2 DEF WriteBytes
  <2>5. \A f \in DOMAIN slots : slots[f] \in Slot
    BY DEF Inv, Typed
  <2>6. DOMAIN slots' = DOMAIN slots
    BY <2>4
  <2>7. ASSUME NEW f \in DOMAIN slots
        PROVE  /\ slots'[f].kind = slots[f].kind /\ slots'[f].path = slots[f].path
               /\ slots'[f].write = slots[f].write
    <3>1. CASE f # fd
      BY <2>4, <3>1
    <3>2. CASE f = fd
      <4>1. slots'[f] = [slots[f] EXCEPT !.off = v]
        BY <2>4, <3>2
      <4> QED BY <2>5, <4>1 DEF Slot
    <3> QED BY <3>1, <3>2
  <2> QED BY <2>3, <2>6, <2>7
<1> QED BY <1>1, <1>2

\* One step keeps the image, and keeps it sealed.
LEMMA ImageStep ==
  ASSUME Inv, ImageSealed, [Next]_vars
  PROVE  ImageKept /\ ImageSealed'
<1>0. AppendWrites'
  BY DEF ImageSealed, AppendWrites, Writes
<1>s. ASSUME ImageKept, DOMAIN slots' = DOMAIN slots,
             \A f \in DOMAIN slots :
                /\ slots'[f].kind = slots[f].kind /\ slots'[f].path = slots[f].path
                /\ slots'[f].write = slots[f].write
      PROVE  ImageSealed'
  BY <1>0, <1>s DEF ImageSealed, ImageKept
<1>m. ASSUME NEW fd \in DOMAIN slots, NEW pos, slots' = [slots EXCEPT ![fd].off = pos],
             UNCHANGED files
      PROVE  ImageKept /\ ImageSealed'
  <2>1. ImageKept
    BY <1>m DEF ImageKept
  <2>2. DOMAIN slots' = DOMAIN slots
    BY <1>m
  <2>3. ASSUME NEW f \in DOMAIN slots
        PROVE  /\ slots'[f].kind = slots[f].kind /\ slots'[f].path = slots[f].path
               /\ slots'[f].write = slots[f].write
    <3>0. slots[f] \in Slot
      BY DEF Inv, Typed
    <3>1. CASE f # fd
      BY <1>m, <3>1
    <3>2. CASE f = fd
      <4>1. slots'[f] = [slots[f] EXCEPT !.off = pos]
        BY <1>m, <3>2
      <4> QED BY <3>0, <4>1 DEF Slot
    <3> QED BY <3>1, <3>2
  <2> QED BY <1>s, <2>1, <2>2, <2>3
<1>1. CASE UNCHANGED <<slots, next_fd, files>>
  BY <1>1, <1>s DEF ImageKept
<1>2. ASSUME NEW p \in DOMAIN Paths, NEW fl \in OpenFlags, Open(p, fl)
      PROVE  ImageKept /\ ImageSealed'
  <2>1. files' = [files EXCEPT ![p] = IF @ = Absent \/ "TRUNC" \in fl THEN 0 ELSE @]
    BY <1>2 DEF Open
  <2>2. Paths[p] = "system" => ~ Writes(fl) /\ "APPEND" \notin fl /\ "TRUNC" \notin fl
    BY <1>2, ImageOpensReadOnly DEF Open, ImageSealed
  <2>3. ImageKept
    BY <2>1, <2>2 DEF ImageKept, ImageSealed, Inv, Typed
  <2>4. /\ DOMAIN slots' = DOMAIN slots \cup {LowestFd}
        /\ \A f \in DOMAIN slots : slots'[f] = slots[f]
        /\ slots'[LowestFd] = NewSlot(p, fl)
    BY <1>2, OpenTable
  <2>5. NewSlot(p, fl).path = p /\ NewSlot(p, fl).write = (Writes(fl) \/ "APPEND" \in fl)
    BY DEF NewSlot, Access
  <2>6. Paths[p] = "system" => ~ NewSlot(p, fl).write
    BY <2>2, <2>5
  <2>7. \A f \in DOMAIN slots' :
          slots'[f].kind = "File" /\ Paths[slots'[f].path] = "system" => ~ slots'[f].write
    BY <2>4, <2>5, <2>6 DEF ImageSealed
  <2>8. \A q \in DOMAIN Paths : Paths[q] = "system" => files'[q] # Absent
    BY <2>3 DEF ImageSealed, ImageKept
  <2> QED BY <1>0, <2>3, <2>7, <2>8 DEF ImageSealed
<1>3. ASSUME NEW fd, Close(fd) PROVE ImageKept /\ ImageSealed'
  <2>1. UNCHANGED files
    BY <1>3 DEF Close
  <2>2. DOMAIN slots' \subseteq DOMAIN slots /\ \A f \in DOMAIN slots' : slots'[f] = slots[f]
    BY <1>3, CloseTable
  <2> QED BY <1>0, <2>1, <2>2 DEF ImageKept, ImageSealed
<1>4. ASSUME NEW fd, NEW b, NEW n \in Counts, ReadFile(fd, b, n) PROVE ImageKept /\ ImageSealed'
  <2>1. fd \in DOMAIN slots /\ UNCHANGED files
    BY <1>4 DEF ReadFile, IsFile
  <2> QED BY <1>4, <1>m, <2>1, ReadMoves
<1>5. ASSUME NEW fd, WritesSome(fd) PROVE ImageKept /\ ImageSealed'
  BY <1>1, <1>5, <1>s, WriteKeepsImage DEF WritesSome
<1>7. ASSUME NEW fd, NEW o \in SeekOffsets, NEW w \in 0 .. 3, Lseek(fd, o, w)
      PROVE  ImageKept /\ ImageSealed'
  <2>1. fd \in DOMAIN slots /\ UNCHANGED files
    BY <1>7 DEF Lseek, IsFile
  <2> QED BY <1>7, <1>m, <2>1, SeekMoves
<1>8. CASE UNCHANGED vars
  BY <1>1, <1>8 DEF vars, fds
<1>9. CASE Quiet
  BY <1>1, <1>9 DEF Quiet
<1> QED BY <1>2, <1>3, <1>4, <1>5, <1>7, <1>8, <1>9, StepKinds

\* No sequence of calls changes a file of the shared system image, as long as
\* the guest asks for O_APPEND only with write access (open refuses the other
\* forms of writing in a read-only tree).
THEOREM SystemImageReadOnly == AppendWrites /\ Spec => SystemImageUnchanged
<1>1. AppendWrites /\ Init => ImageSealed
  <2> SUFFICES ASSUME AppendWrites, Init PROVE ImageSealed
    OBVIOUS
  <2>1. Inv
    BY InitInv
  <2>2. ASSUME NEW f \in DOMAIN slots PROVE slots[f].kind # "File"
    <3>1. f \in 0 .. 2
      BY DEF Init
    <3> QED BY <2>1, <3>1, StreamKind DEF Inv
  <2>3. \A p \in DOMAIN Paths : Paths[p] = "system" => files[p] # Absent
    BY DEF Init, Absent
  <2> QED BY <2>2, <2>3 DEF ImageSealed
<1>2. Inv /\ ImageSealed /\ [Next]_vars => ImageKept /\ ImageSealed'
  BY ImageStep
<1>3. AppendWrites /\ Spec => [][ImageKept]_vars
  BY <1>1, <1>2, InitInv, NextInv, PTL DEF Spec
<1> QED BY <1>3 DEF SystemImageUnchanged, ImageKept
=============================================================================
