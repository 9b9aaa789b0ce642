----------------------------- MODULE GuestMemory -----------------------------
(***************************************************************************)
(* The guest address-space manager: crates/memory (GuestMemory, Region,    *)
(* BumpAllocator) and the alignment helpers of crates/common.              *)
(*                                                                         *)
(* State.  regions is the BTreeMap of the code: a function from a base     *)
(* address to the region that starts there.  mmap_cursor and heap_cursor   *)
(* are the two bump pointers.  grants is a history variable: the ranges    *)
(* that heap_alloc and mmap_anon returned to the guest, in order.          *)
(*                                                                         *)
(* Abstraction.  Contents, names and log lines of a region are left out.   *)
(* A call that returns Err changes nothing in the code, but for protect,   *)
(* so every other action is enabled exactly when the call succeeds.  u64   *)
(* arithmetic is modulo Word (release build: plain + wraps, checked_add    *)
(* and checked_sub fail).                                                  *)
(***************************************************************************)
EXTENDS Integers, Sequences, FiniteSets, FiniteSetsExt

CONSTANTS
  Word,         \* 2^64: the number of guest addresses
  PageSize,     \* PAGE_SIZE
  MmapTop,      \* GuestMemory::MMAP_TOP
  HeapBase, HeapSize,       \* arguments of GuestMemory::new
  MapBases, MapSizes, MapKinds,     \* arguments of map
  SegSizes, DataLens,       \* vmsize and file length given to map_with_data
  MmapSizes,                \* arguments of mmap_anon
  AllocSizes, Aligns,       \* arguments of heap_alloc
  Prots                     \* protections callers ask for

VARIABLES regions, mmap_cursor, heap_cursor, grants

vars == <<regions, mmap_cursor, heap_cursor, grants>>

Address == 0 .. Word - 1
Flag == {"r", "w", "x"}
Kind == {"Segment", "Stack", "Heap", "Anonymous"}
RW == {"r", "w"}

ASSUME WordAssumption == Word \in Nat \ {0}
ASSUME PageAssumption == PageSize \in Nat \ {0} /\ Word % PageSize = 0
ASSUME TopAssumption == MmapTop \in Address /\ MmapTop % PageSize = 0
ASSUME InputAssumption ==
  /\ MapBases \subseteq Address /\ MapSizes \subseteq Address
  /\ SegSizes \subseteq Address /\ DataLens \subseteq Address
  /\ MmapSizes \subseteq Address /\ AllocSizes \subseteq Address
  /\ Aligns \subseteq Nat \ {0} /\ Prots \subseteq SUBSET Flag
  /\ MapKinds \subseteq Kind \ {"Heap", "Anonymous"}

-----------------------------------------------------------------------------
(* Helpers *)

AtLeast(v, least) == IF v < least THEN least ELSE v     \* v.max(least)

\* (value + (align - 1)) & !(align - 1), for align a power of two
AlignDown(v, a) == v - (v % a)
AlignUp(v, a) == AlignDown((v + (a - 1)) % Word, a)

\* Region::end, a wrapping addition
RegionEnd(b) == (b + regions[b].size) % Word

Contains(b, addr) == b <= addr /\ addr < RegionEnd(b)

\* regions.range(..bound).next_back(), the last region that starts below bound
Below(bound) == {b \in DOMAIN regions : b < bound}

\* Mutant: only the region at or below the start is looked at.
CheckFree_AtStart(base, size) ==
  /\ base + size < Word
  /\ Below(base + 1) # {} => ~ (base < RegionEnd(Max(Below(base + 1))))

\* Only the nearest region below the end of the request is looked at.
CheckFree(base, size) ==
  /\ base + size < Word                                       \* checked_add
  /\ Below(base + size) # {} => ~ (base < RegionEnd(Max(Below(base + size))))

\* The base of the region that contains addr, or -1 ("unmapped").
NoRegion == -1
\* Mutant: range(..addr), which misses the first byte of a region.
RegionBase_Exclusive(addr) ==
  IF Below(addr) # {} /\ Contains(Max(Below(addr)), addr)
  THEN Max(Below(addr)) ELSE NoRegion
RegionBase(addr) ==
  IF Below(addr + 1) # {} /\ Contains(Max(Below(addr + 1)), addr)
  THEN Max(Below(addr + 1)) ELSE NoRegion

\* Mutant: the first byte is in bounds, the last one is not looked at.
Slice_FirstByteOnly(addr, len, need) ==
  /\ RegionBase(addr) # NoRegion
  /\ need \subseteq regions[RegionBase(addr)].prot

\* slice / slice_mut followed by subslice: are len bytes at addr accessible?
Slice(addr, len, need) ==
  /\ Below(addr + 1) # {}
  /\ LET b == Max(Below(addr + 1))
     IN  (addr - b) + len <= regions[b].size /\ need \subseteq regions[b].prot

Region(size, prot, kind) == [size |-> size, prot |-> prot, kind |-> kind]

\* regions.insert(base, region): an entry with the same key is replaced.
Insert(base, region) ==
  [b \in DOMAIN regions \cup {base} |-> IF b = base THEN region ELSE regions[b]]

HeapLimit == (HeapBase + HeapSize) % Word
HeapRegionSize == AlignUp(AtLeast(AlignUp(HeapSize, PageSize), 1), PageSize)

ASSUME HeapAssumption ==
  /\ HeapBase \in Address /\ HeapSize \in Address
  /\ HeapBase + HeapRegionSize < Word
  /\ HeapSize <= HeapRegionSize

-----------------------------------------------------------------------------
(* GuestMemory::new, when it succeeds: the heap arena is mapped. *)
Init ==
  /\ regions = [b \in {HeapBase} |-> Region(HeapRegionSize, RW, "Heap")]
  /\ mmap_cursor = MmapTop
  /\ heap_cursor = HeapBase
  /\ grants = << >>

(* map: the loader's stack and stub page. *)
Map(base, size, prot, kind) ==
  LET sz == AlignUp(AtLeast(size, 1), PageSize) IN
  /\ CheckFree(base, sz)
  /\ regions' = Insert(base, Region(sz, prot, kind))
  /\ UNCHANGED <<mmap_cursor, heap_cursor, grants>>

(* map_with_data: a Mach-O segment, no lower bound on its size.  Region::new_from
   refuses initial data longer than the rounded size. *)
MapWithData(base, size, len, prot) ==
  LET sz == AlignUp(AtLeast(size, len), PageSize) IN
  /\ CheckFree(base, sz)
  /\ len <= sz
  /\ regions' = Insert(base, Region(sz, prot, "Segment"))
  /\ UNCHANGED <<mmap_cursor, heap_cursor, grants>>

\* Mutant: the cursor moves by the size before rounding.
MmapAnon_RawCursor(size, prot) ==
  LET sz == AlignUp(AtLeast(size, 1), PageSize)
      base == AlignDown(mmap_cursor - sz, PageSize) IN
  /\ sz <= mmap_cursor
  /\ CheckFree(base, sz)
  /\ regions' = Insert(base, Region(sz, prot, "Anonymous"))
  /\ mmap_cursor' = mmap_cursor - size
  /\ grants' = Append(grants, [base |-> base, len |-> size])
  /\ UNCHANGED heap_cursor

(* mmap_anon: round, step the cursor down, map (which rounds again). *)
MmapAnon(size, prot) ==
  LET sz == AlignUp(AtLeast(size, 1), PageSize)
      base == AlignDown(mmap_cursor - sz, PageSize)
      mapped == AlignUp(AtLeast(sz, 1), PageSize) IN
  /\ sz <= mmap_cursor                                        \* checked_sub
  /\ CheckFree(base, mapped)
  /\ regions' = Insert(base, Region(mapped, prot, "Anonymous"))
  /\ mmap_cursor' = base
  /\ grants' = Append(grants, [base |-> base, len |-> size])
  /\ UNCHANGED heap_cursor

(* protect: the whole region that contains addr changes.  On a device this
   happens before the kernel may refuse the protection of the native pages, so
   the action stands for Ok and for that Err; which of them the caller sees is
   its callers' to model (ProcessLoad, Syscalls). *)
Protect(addr, prot) ==
  /\ RegionBase(addr) # NoRegion
  /\ regions' = [regions EXCEPT ![RegionBase(addr)].prot = prot]
  /\ UNCHANGED <<mmap_cursor, heap_cursor, grants>>

\* Mutants: no overflow check and no limit check; no limit check; the cursor
\* moves by the size and forgets the padding.
HeapAlloc_Unchecked(size, align) ==
  LET start == AlignUp(heap_cursor, AtLeast(align, 1)) IN
  /\ heap_cursor' = start + AtLeast(size, 1)
  /\ grants' = Append(grants, [base |-> start, len |-> AtLeast(size, 1)])
  /\ UNCHANGED <<regions, mmap_cursor>>
HeapAlloc_NoLimit(size, align) ==
  HeapAlloc_Unchecked(size, align) /\ heap_cursor' < Word
HeapAlloc_NoPadding(size, align) ==
  LET start == AlignUp(heap_cursor, AtLeast(align, 1)) IN
  /\ start + AtLeast(size, 1) <= HeapLimit
  /\ heap_cursor' = heap_cursor + AtLeast(size, 1)
  /\ grants' = Append(grants, [base |-> start, len |-> AtLeast(size, 1)])
  /\ UNCHANGED <<regions, mmap_cursor>>

(* heap_alloc: BumpAllocator::alloc. *)
HeapAlloc(size, align) ==
  LET start == AlignUp(heap_cursor, AtLeast(align, 1))
      end == start + AtLeast(size, 1) IN
  /\ end < Word                                               \* checked_add
  /\ end <= HeapLimit
  /\ heap_cursor' = end
  /\ grants' = Append(grants, [base |-> start, len |-> AtLeast(size, 1)])
  /\ UNCHANGED <<regions, mmap_cursor>>

Next ==
  \/ \E base \in MapBases, size \in MapSizes, prot \in Prots, kind \in MapKinds :
        Map(base, size, prot, kind)
  \/ \E base \in MapBases, size \in SegSizes, len \in DataLens, prot \in Prots :
        MapWithData(base, size, len, prot)
  \/ \E size \in MmapSizes, prot \in Prots : MmapAnon(size, prot)
  \/ \E addr \in Address, prot \in Prots : Protect(addr, prot)
  \/ \E size \in AllocSizes, align \in Aligns : HeapAlloc(size, align)

Spec == Init /\ [][Next]_vars

-----------------------------------------------------------------------------
(* Properties *)

Bytes(base, len) == base .. base + len - 1
RegionBytes(b) == Bytes(b, regions[b].size)
MappedBytes == UNION {RegionBytes(b) : b \in DOMAIN regions}
GrantBytes(i) == Bytes(grants[i].base, grants[i].len)

\* Every variable has the type of the field of GuestMemory it stands for.
TypeOK ==
  /\ DOMAIN regions \subseteq Address
  /\ regions \in [DOMAIN regions -> [size : Address, prot : SUBSET Flag, kind : Kind]]
  /\ mmap_cursor \in Address
  /\ heap_cursor \in Address
  /\ grants \in Seq([base : Address, len : Address])

\* No two regions share a byte and none wraps around the address space,
\* although check_free only looks at the region nearest to the request.
RegionsDisjoint ==
  \A a \in DOMAIN regions :
    /\ a + regions[a].size < Word
    /\ \A b \in DOMAIN regions : a < b => a + regions[a].size <= b

\* region_base (protect, commit_to_native) finds the one region that holds a
\* byte, and reports "unmapped" exactly for the bytes that no region holds.
LookupFindsOwner ==
  \A addr \in Address :
    IF addr \in MappedBytes
    THEN RegionBase(addr) \in DOMAIN regions /\ addr \in RegionBytes(RegionBase(addr))
    ELSE RegionBase(addr) = NoRegion

\* read and write reach len bytes exactly when all of them lie in one region
\* whose protection allows the access.
AccessSound ==
  \A addr \in Address, len \in 1 .. 2 * PageSize + 1, need \in {{"r"}, {"w"}} :
    Slice(addr, len, need) <=>
      \E b \in DOMAIN regions :
        Bytes(addr, len) \subseteq RegionBytes(b) /\ need \subseteq regions[b].prot

\* Requests of ordinary sizes: rounding up does not wrap, no segment is empty, and
\* the padding of malloc stays in the address space.  The code accepts others too:
\* a length in the last page rounds to zero, an empty segment replaces the region
\* that starts at its address.
ModestRequests ==
  /\ \A s \in MmapSizes \cup MapSizes : AtLeast(s, 1) + PageSize <= Word
  /\ \A s \in SegSizes, l \in DataLens :
       0 < AtLeast(s, l) /\ AtLeast(s, l) + PageSize <= Word
  /\ \A a \in Aligns : HeapBase + HeapSize + a <= Word

\* Whatever malloc or mmap returned is backed, to the last byte that the guest
\* asked for, by the heap arena or by an anonymous region.
GrantsBacked ==
  \A i \in DOMAIN grants : \E b \in DOMAIN regions :
    /\ regions[b].kind \in {"Heap", "Anonymous"}
    /\ GrantBytes(i) \subseteq RegionBytes(b)

\* The anonymous mappings tile the arena [mmap_cursor, MMAP_TOP) without a gap
\* (a segment in the way stops the arena, it is never skipped), and no
\* anonymous mapping lies outside it.
AnonTilesArena ==
  UNION {RegionBytes(b) : b \in {a \in DOMAIN regions : regions[a].kind = "Anonymous"}}
    = mmap_cursor .. MmapTop - 1

\* The manager implements the abstract address space: a mapping keeps its bytes
\* for good, and no byte is handed out by two calls of malloc or mmap, in any mix.
Abstract == INSTANCE AddressSpace WITH
  Addresses <- Address,
  owner <- [a \in Address |-> {b \in DOMAIN regions : a \in RegionBytes(b)}],
  holder <- [a \in Address |-> {i \in DOMAIN grants : a \in GrantBytes(i)}],
  served <- Len(grants)
ImplementsAddressSpace == Abstract!Spec
=============================================================================
