------------------------- MODULE ProcessLoad_proofs -------------------------
(***************************************************************************)
(* Proofs about ProcessLoad, for every executable, layout and choice of    *)
(* addresses by the kernel.                                                *)
(***************************************************************************)
EXTENDS ProcessLoad, FiniteSetTheorems, WellFoundedInduction, TLAPS

Flags == {"r", "w", "x"}
RegionType == [size : Address, prot : SUBSET Flags,
               kind : {"Segment", "Stack", "Heap", "Anonymous"}]

\* The regions of the manager, each with a base and a size in the address space.
RegionsTyped ==
  /\ DOMAIN regions \subseteq Address
  /\ regions \in [DOMAIN regions -> RegionType]

\* The mirrors: one host buffer, native mapping and cache line for each of some
\* of the regions.
MirrorsTyped ==
  /\ DOMAIN host \subseteq DOMAIN regions
  /\ host \in [DOMAIN host -> Int]
  /\ native \in [DOMAIN host -> Int]
  /\ icache \in [DOMAIN host -> Int]
  /\ native_prot \in [DOMAIN host -> SUBSET Flags]

PlacesTyped ==
  /\ image \in Images /\ idx \in Nat \ {0}
  /\ slide \in Address /\ tramp_base \in Address /\ stack_base \in Address
  /\ next \in Int

Typed == RegionsTyped /\ MirrorsTyped /\ PlacesTyped

-----------------------------------------------------------------------------
(* The operators of the memory manager *)

\* A remainder by the word is an address.
LEMMA ModAddress ==
  ASSUME NEW v \in Int
  PROVE  v % Word \in Address
BY LayoutAssumption DEF Address

\* align_up gives an address.
LEMMA AlignUpAddress ==
  ASSUME NEW v \in Nat
  PROVE  Mem!AlignUp(v, PageSize) \in Address
<1> DEFINE w == (v + (PageSize - 1)) % Word
<1>1. w \in 0 .. Word - 1
  BY LayoutAssumption
<1> HIDE DEF w
<1>2. w % PageSize \in 0 .. PageSize - 1
  BY <1>1, LayoutAssumption
<1>3. w % PageSize <= w
  <2>1. CASE w < PageSize
    BY <2>1, <1>1, LayoutAssumption
  <2>2. CASE ~ (w < PageSize)
    BY <2>2, <1>1, <1>2, LayoutAssumption
  <2> QED BY <2>1, <2>2
<1>4. w - (w % PageSize) \in Address
  BY <1>1, <1>2, <1>3, LayoutAssumption DEF Address
<1> QED BY <1>4 DEF w, Mem!AlignUp, Mem!AlignDown

\* The base and the length of a segment are addresses.
LEMMA SegTyped ==
  ASSUME PlacesTyped, NEW i \in DOMAIN Segs
  PROVE  /\ i \in 1 .. Len(Segs)
         /\ Segs[i] \in Segment
         /\ SegBase(i) \in Address
         /\ SegBytes(i) \in Nat
         /\ FinalProt(i) \in SUBSET Flags
<1>1. Segs \in Seq(Segment)
  BY ImageAssumption DEF PlacesTyped, Segs
<1>2. Segs[i] \in Segment /\ i \in 1 .. Len(Segs)
  BY <1>1
<1>3. Segs[i].vmaddr + slide \in Int
  BY <1>2, LayoutAssumption DEF PlacesTyped, Segment, Address
<1>6. SegBase(i) \in Address
  BY <1>3, ModAddress DEF SegBase
<1>4. SegBytes(i) \in Nat
  BY <1>2 DEF SegBytes, Mem!AtLeast, Segment, Address
<1>5. FinalProt(i) \in SUBSET Flags
  BY <1>2 DEF FinalProt, Segment, Flags
<1> QED BY <1>2, <1>4, <1>5, <1>6

\* map and map_with_data of a page that is writable: the region is there, and
\* every other region is as it was.
LEMMA InsertEffect ==
  ASSUME RegionsTyped, NEW b \in Address, NEW sz \in Address,
         NEW k \in {"Segment", "Stack"},
         regions' = Mem!Insert(b, Mem!Region(sz, RW, k))
  PROVE  /\ RegionsTyped'
         /\ DOMAIN regions' = DOMAIN regions \cup {b}
         /\ regions'[b] = [size |-> sz, prot |-> RW, kind |-> k]
         /\ \A x \in DOMAIN regions \ {b} : regions'[x] = regions[x]
<1>1. [size |-> sz, prot |-> RW, kind |-> k] \in RegionType
  BY DEF RegionType, RW, Flags
<1> QED BY <1>1 DEF RegionsTyped, Mem!Insert, Mem!Region

\* A region is found by its own base, unless it has no byte.
LEMMA OwnBase ==
  ASSUME RegionsTyped, NEW b \in DOMAIN regions, Mem!RegionBase(b) # Mem!NoRegion
  PROVE  Mem!RegionBase(b) = b
<1>1. b \in Mem!Below(b + 1) /\ \A x \in Mem!Below(b + 1) : x \in Int /\ x <= b
  BY DEF Mem!Below, RegionsTyped, Address
<1>2. Mem!Max(Mem!Below(b + 1)) = b
  BY <1>1 DEF Mem!Max
<1> QED BY <1>2 DEF Mem!RegionBase

\* protect of a region by its base changes that protection and nothing else.
LEMMA ProtectEffect ==
  ASSUME RegionsTyped, NEW b \in DOMAIN regions, NEW p \in SUBSET Flags, Mem!Protect(b, p)
  PROVE  /\ RegionsTyped'
         /\ DOMAIN regions' = DOMAIN regions
         /\ regions'[b].prot = p
         /\ \A x \in DOMAIN regions : regions'[x].size = regions[x].size
         /\ \A x \in DOMAIN regions \ {b} : regions'[x] = regions[x]
<1>1. Mem!RegionBase(b) = b
  BY OwnBase DEF Mem!Protect
<1>2. regions' = [regions EXCEPT ![b].prot = p]
  BY <1>1 DEF Mem!Protect
<1>3. regions[b] \in RegionType
  BY DEF RegionsTyped
<1>4. [regions[b] EXCEPT !.prot = p] \in RegionType
  BY <1>3 DEF RegionType
<1>5. [regions[b] EXCEPT !.prot = p].prot = p /\ [regions[b] EXCEPT !.prot = p].size = regions[b].size
  BY <1>3 DEF RegionType
<1>6. regions' = [regions EXCEPT ![b] = [regions[b] EXCEPT !.prot = p]]
  BY <1>2
<1> QED BY <1>4, <1>5, <1>6 DEF RegionsTyped

-----------------------------------------------------------------------------
(* The mirrors *)

\* A new mirror is blank and writable, and every other one is as it was.
LEMMA NewMirrorEffect ==
  ASSUME MirrorsTyped, NEW b, NewMirror(b), DOMAIN regions' = DOMAIN regions \cup {b}
  PROVE  /\ MirrorsTyped'
         /\ DOMAIN host' = DOMAIN host \cup {b}
         /\ native_prot'[b] = RW
         /\ \A x \in DOMAIN host \ {b} :
              /\ host'[x] = host[x] /\ native'[x] = native[x]
              /\ icache'[x] = icache[x] /\ native_prot'[x] = native_prot[x]
<1>1. RW \in SUBSET Flags /\ Blank \in Int
  BY DEF RW, Flags, Blank
<1>2. /\ DOMAIN native = DOMAIN host /\ DOMAIN icache = DOMAIN host
      /\ DOMAIN native_prot = DOMAIN host
  BY DEF MirrorsTyped
<1>3. host' \in [DOMAIN host \cup {b} -> Int]
  BY DEF MirrorsTyped, NewMirror
<1>4. native' \in [DOMAIN host \cup {b} -> Int]
  BY <1>1, <1>2 DEF MirrorsTyped, NewMirror
<1>5. icache' \in [DOMAIN host \cup {b} -> Int]
  BY <1>1, <1>2 DEF MirrorsTyped, NewMirror
<1>6. native_prot' \in [DOMAIN host \cup {b} -> SUBSET Flags]
  BY <1>1, <1>2 DEF MirrorsTyped, NewMirror
<1>7. DOMAIN host' = DOMAIN host \cup {b}
  BY <1>3
<1>8. MirrorsTyped'
  BY <1>3, <1>4, <1>5, <1>6, <1>7 DEF MirrorsTyped
<1> QED BY <1>2, <1>7, <1>8 DEF NewMirror

\* A write to a host buffer leaves the other buffers alone.
LEMMA HostWriteEffect ==
  ASSUME MirrorsTyped, NEW b, HostWrite(b), DOMAIN regions' = DOMAIN regions,
         UNCHANGED icache, UNCHANGED native_prot, native' \in [DOMAIN host -> Int]
  PROVE  /\ MirrorsTyped'
         /\ DOMAIN host' = DOMAIN host
         /\ \A x \in DOMAIN host \ {b} : host'[x] = host[x]
<1>1. host' \in [DOMAIN host -> Int]
  <2>1. \A x \in DOMAIN host : host[x] \in Int /\ host[x] + 1 \in Int
    BY DEF MirrorsTyped
  <2> QED BY <2>1 DEF MirrorsTyped, HostWrite
<1>2. DOMAIN host' = DOMAIN host
  BY <1>1
<1> QED BY <1>1, <1>2 DEF MirrorsTyped, HostWrite

\* The device half of protect publishes the buffer under the protection.
LEMMA NativeProtectEffect ==
  ASSUME MirrorsTyped, NEW b \in DOMAIN host, NEW p \in SUBSET Flags, NativeProtect(b, p),
         DOMAIN regions' = DOMAIN regions
  PROVE  /\ MirrorsTyped' /\ host' = host
         /\ native'[b] = host[b] /\ native_prot'[b] = p
         /\ "x" \in p => icache'[b] = host[b]
         /\ \A x \in DOMAIN host \ {b} :
              /\ native'[x] = native[x] /\ icache'[x] = icache[x]
              /\ native_prot'[x] = native_prot[x]
<1>1. native' \in [DOMAIN host -> Int] /\ native_prot' \in [DOMAIN host -> SUBSET Flags]
  BY DEF MirrorsTyped, NativeProtect
<1>2. icache' \in [DOMAIN host -> Int]
  BY DEF MirrorsTyped, NativeProtect
<1> QED BY <1>1, <1>2 DEF MirrorsTyped, NativeProtect

\* When mprotect is refused the buffer is copied all the same.
LEMMA NativeRefusedEffect ==
  ASSUME MirrorsTyped, NEW b \in DOMAIN host, NativeProtectRefused(b),
         DOMAIN regions' = DOMAIN regions
  PROVE  MirrorsTyped' /\ host' = host /\ native_prot' = native_prot
BY DEF MirrorsTyped, NativeProtectRefused

-----------------------------------------------------------------------------
(* What an action does to the regions and the mirrors *)

\* map or map_with_data of a fresh, writable region at b.
Mapped(b) ==
  /\ RegionsTyped' /\ MirrorsTyped'
  /\ DOMAIN regions' = DOMAIN regions \cup {b}
  /\ DOMAIN host' = DOMAIN host \cup {b}
  /\ regions'[b].prot = RW /\ native_prot'[b] = RW
  /\ \A x \in DOMAIN regions \ {b} : regions'[x] = regions[x]
  /\ \A x \in DOMAIN host \ {b} :
       /\ host'[x] = host[x] /\ native'[x] = native[x]
       /\ icache'[x] = icache[x] /\ native_prot'[x] = native_prot[x]

LEMMA MapSegmentMaps ==
  ASSUME Typed, MapSegment, ~ IsGuard(idx)
  PROVE  idx \in DOMAIN Segs /\ Mapped(SegBase(idx))
<1> DEFINE b == SegBase(idx)
           sz == Mem!AlignUp(Mem!AtLeast(Segs[idx].vmsize, Segs[idx].filesize), PageSize)
<1>1. idx \in DOMAIN Segs
  BY ImageAssumption DEF Typed, PlacesTyped, MapSegment, Segs
<1>2. b \in Address /\ SegBytes(idx) \in Nat
  BY <1>1, SegTyped DEF Typed
<1>3. sz \in Address
  BY <1>2, AlignUpAddress DEF SegBytes
<1>4. regions' = Mem!Insert(b, Mem!Region(sz, RW, "Segment")) /\ NewMirror(b)
  BY DEF MapSegment, Mem!MapWithData
<1> HIDE DEF b, sz
<1>5. /\ RegionsTyped'
      /\ DOMAIN regions' = DOMAIN regions \cup {b}
      /\ regions'[b] = [size |-> sz, prot |-> RW, kind |-> "Segment"]
      /\ \A x \in DOMAIN regions \ {b} : regions'[x] = regions[x]
  BY <1>2, <1>3, <1>4, InsertEffect DEF Typed
<1>6. regions'[b].prot = RW
  BY <1>5
<1>7. Mapped(b)
  BY <1>4, <1>5, <1>6, NewMirrorEffect DEF Mapped, Typed
<1> QED BY <1>1, <1>7 DEF b

LEMMA MapMaps ==
  ASSUME Typed, NEW b \in Address, NEW n \in Nat, NEW k \in {"Segment", "Stack"},
         Mem!Map(b, n, RW, k), NewMirror(b)
  PROVE  Mapped(b)
<1> DEFINE sz == Mem!AlignUp(Mem!AtLeast(n, 1), PageSize)
<1>1. sz \in Address
  BY AlignUpAddress DEF Mem!AtLeast
<1>2. regions' = Mem!Insert(b, Mem!Region(sz, RW, k))
  BY DEF Mem!Map
<1> HIDE DEF sz
<1>3. /\ RegionsTyped'
      /\ DOMAIN regions' = DOMAIN regions \cup {b}
      /\ regions'[b] = [size |-> sz, prot |-> RW, kind |-> k]
      /\ \A x \in DOMAIN regions \ {b} : regions'[x] = regions[x]
  BY <1>1, <1>2, InsertEffect DEF Typed
<1>4. regions'[b].prot = RW
  BY <1>3
<1> QED BY <1>3, <1>4, NewMirrorEffect DEF Mapped, Typed

\* A write to the host buffer of region b, and no other change.
Wrote(b) ==
  /\ regions' = regions /\ MirrorsTyped'
  /\ DOMAIN host' = DOMAIN host
  /\ UNCHANGED <<icache, native_prot>>

\* protect of region b: the buffer is published under protection p.
Protected(b, p) ==
  /\ RegionsTyped' /\ MirrorsTyped'
  /\ DOMAIN regions' = DOMAIN regions /\ host' = host
  /\ regions'[b].prot = p /\ native_prot'[b] = p
  /\ native'[b] = host[b] /\ ("x" \in p => icache'[b] = host[b])
  /\ \A x \in DOMAIN regions : regions'[x].size = regions[x].size
  /\ \A x \in DOMAIN regions \ {b} : regions'[x] = regions[x]
  /\ \A x \in DOMAIN host \ {b} :
       /\ native'[x] = native[x] /\ icache'[x] = icache[x]
       /\ native_prot'[x] = native_prot[x]

LEMMA ProtectPublishes ==
  ASSUME Typed, NEW b \in DOMAIN host, NEW p \in SUBSET Flags,
         Mem!Protect(b, p), NativeProtect(b, p)
  PROVE  Protected(b, p)
<1>1. b \in DOMAIN regions
  BY DEF Typed, MirrorsTyped
<1> QED BY <1>1, ProtectEffect, NativeProtectEffect DEF Protected, Typed

\* protect of region b when the kernel refuses: the manager has the protection,
\* the native pages keep theirs.
Refused(b, p) ==
  /\ RegionsTyped' /\ MirrorsTyped'
  /\ DOMAIN regions' = DOMAIN regions /\ host' = host /\ native_prot' = native_prot
  /\ regions'[b].prot = p
  /\ \A x \in DOMAIN regions : regions'[x].size = regions[x].size
  /\ \A x \in DOMAIN regions \ {b} : regions'[x] = regions[x]

LEMMA ProtectRefused ==
  ASSUME Typed, NEW b \in DOMAIN host, NEW p \in SUBSET Flags,
         Mem!Protect(b, p), NativeProtectRefused(b)
  PROVE  Refused(b, p)
<1>1. b \in DOMAIN regions
  BY DEF Typed, MirrorsTyped
<1> QED BY <1>1, ProtectEffect, NativeRefusedEffect DEF Refused, Typed

-----------------------------------------------------------------------------
(* The inductive invariant *)

SegBases == {SegBase(i) : i \in {j \in DOMAIN Segs : ~ IsGuard(j)}}

\* Which mirrors exist at each step of the load.
Placed ==
  /\ step \in {"reserve_image", "reserve_tramp", "reserve_stack"} => DOMAIN host = {}
  /\ step = "map" =>
       /\ DOMAIN host \subseteq SegBases
       /\ \A i \in DOMAIN Segs : i < idx /\ ~ IsGuard(i) => SegBase(i) \in DOMAIN host
  /\ step \in {"rebase", "bind", "stubs"} => DOMAIN host = SegBases
  /\ step \in {"fill_stubs", "protect_stubs", "protect", "stack"} =>
       DOMAIN host = SegBases \cup {tramp_base}
  /\ step \in {"build_stack", "entry", "done"} => stack_base \in DOMAIN host

\* What ImagePublished says of one mirror.
Published(b) ==
  /\ native[b] = host[b]
  /\ native_prot[b] = regions[b].prot
  /\ "x" \in regions[b].prot => icache[b] = host[b]

\* Step 4 publishes the stubs and the segments before idx; step 6 the stack.
Publishing ==
  /\ step = "protect" =>
       \A b \in DOMAIN host :
         Published(b) \/ \E i \in DOMAIN Segs : i >= idx /\ ~ IsGuard(i) /\ b = SegBase(i)
  /\ step \in {"stack", "entry", "done"} => \A b \in DOMAIN host : Published(b)
  /\ step = "build_stack" =>
       /\ \A b \in DOMAIN host \ {stack_base} : Published(b)
       /\ native_prot[stack_base] = RW /\ regions[stack_base].prot = RW

Inv == Typed /\ Placed /\ Publishing

\* The actions that only move on: an error, the end of a loop, the last step.
Moves ==
  /\ UNCHANGED <<regions, image, slide, tramp_base, stack_base, next>>
  /\ UNCHANGED <<host, native, icache, native_prot>>
  /\ idx' = 1

LEMMA InitInv ==
  ASSUME Init
  PROVE  Inv
<1>1. /\ Mem!Init /\ image \in Images /\ step = "reserve_image" /\ idx = 1
      /\ slide = 0 /\ tramp_base = 0 /\ stack_base = 0 /\ next = 0
      /\ host = << >> /\ native = << >> /\ icache = << >> /\ native_prot = << >>
  BY DEF Init
<1>2. MirrorsTyped
  BY <1>1 DEF MirrorsTyped
<1>3. HeapBase \in Address /\ Mem!HeapRegionSize \in Address
  <2>1. Mem!AlignUp(HeapSize, PageSize) \in Address
    BY AlignUpAddress, LayoutAssumption DEF Address
  <2>2. Mem!AtLeast(Mem!AlignUp(HeapSize, PageSize), 1) \in Nat
    BY <2>1 DEF Mem!AtLeast, Address
  <2> QED BY <2>2, AlignUpAddress, LayoutAssumption DEF Mem!HeapRegionSize
<1>4. [size |-> Mem!HeapRegionSize, prot |-> Mem!RW, kind |-> "Heap"] \in RegionType
  BY <1>3 DEF RegionType, Mem!RW, Flags
<1>5. RegionsTyped
  BY <1>1, <1>3, <1>4 DEF Mem!Init, Mem!Region, RegionsTyped
<1>6. PlacesTyped
  BY <1>1, LayoutAssumption DEF PlacesTyped, Address
<1>7. DOMAIN host = {}
  BY <1>1
<1> QED BY <1>1, <1>2, <1>5, <1>6, <1>7 DEF Inv, Typed, Placed, Publishing

\* The segments stay where they are while the image and the slide do.
LEMMA SameSegs ==
  ASSUME UNCHANGED image, UNCHANGED slide
  PROVE  /\ Segs' = Segs /\ SegBases' = SegBases
         /\ \A i \in DOMAIN Segs : SegBase(i)' = SegBase(i) /\ (IsGuard(i)' <=> IsGuard(i))
BY DEF Segs, SegBases, SegBase, IsGuard

\* The segments before the end of the list are all of them.
LEMMA AllSegs ==
  ASSUME PlacesTyped
  PROVE  /\ DOMAIN Segs = 1 .. Len(Segs) /\ Len(Segs) \in Nat
         /\ idx > Len(Segs) => \A i \in DOMAIN Segs : i < idx
         /\ idx <= Len(Segs) => idx \in DOMAIN Segs
<1>1. Segs \in Seq(Segment)
  BY ImageAssumption DEF PlacesTyped, Segs
<1> QED BY <1>1 DEF PlacesTyped

\* TrampBytes is a length.
LEMMA TrampBytesTyped ==
  ASSUME Typed
  PROVE  TrampBytes \in Address /\ TrampBytes \in Nat
<1>1. Mem!AtLeast(next - tramp_base, PageSize) \in Nat
  BY LayoutAssumption DEF Typed, PlacesTyped, Address, Mem!AtLeast
<1>2. TrampBytes \in Address
  BY <1>1, AlignUpAddress DEF TrampBytes
<1> QED BY <1>2 DEF Address

\* The preferred address of __TEXT is an address.
LEMMA TextAddrTyped ==
  ASSUME PlacesTyped
  PROVE  TextAddr \in Address
<1> DEFINE texts == {i \in DOMAIN Segs : Segs[i].name = "__TEXT"}
           R == OpToRel(<, Nat)
<1>1. texts \subseteq Nat /\ \A i \in texts : Segs[i].vmaddr \in Address
  <2>1. \A i \in DOMAIN Segs : Segs[i] \in Segment /\ i \in 1 .. Len(Segs)
    BY SegTyped
  <2> QED BY <2>1 DEF Segment
<1>2. CASE texts = {}
  BY <1>2, LayoutAssumption DEF TextAddr, TextAddrOf, Segs, Address
<1>3. CASE texts # {}
  <2> HIDE DEF texts
  <2>1. IsWellFoundedOn(R, Nat)
    BY NatLessThanWellFounded
  <2>2. PICK m \in texts : \A y \in texts : ~ (<<y, m>> \in R)
    <3> HIDE DEF R
    <3> QED BY <1>1, <1>3, <2>1, WFMin
  <2>3. m \in texts /\ \A y \in texts : m <= y
    <3> SUFFICES ASSUME NEW y \in texts PROVE m <= y
      OBVIOUS
    <3>1. ~ (<<y, m>> \in R) /\ y \in Nat /\ m \in Nat
      BY <1>1, <2>2
    <3>2. ~ (y < m)
      BY <3>1 DEF OpToRel
    <3> HIDE DEF R
    <3> QED BY <3>1, <3>2
  <2>4. Min(texts) \in texts
    <3> HIDE DEF R
    <3> QED BY <2>3 DEF Min
  <2>5. TextAddr = Segs[Min(texts)].vmaddr
    BY <1>3 DEF TextAddr, TextAddrOf, Segs, texts
  <2> QED BY <1>1, <2>4, <2>5
<1> QED BY <1>2, <1>3

-----------------------------------------------------------------------------
(* The steps *)

\* A step that only moves on keeps what every step keeps.
LEMMA MovesKeep ==
  ASSUME Typed, Moves
  PROVE  /\ Typed' /\ SegBases' = SegBases /\ Segs' = Segs
         /\ \A b : Published(b) => Published(b)'
<1>1. RegionsTyped' /\ MirrorsTyped' /\ PlacesTyped'
  BY DEF Typed, Moves, RegionsTyped, MirrorsTyped, PlacesTyped
<1>2. SegBases' = SegBases /\ Segs' = Segs
  BY SameSegs DEF Moves
<1>3. \A b : Published(b) => Published(b)'
  BY DEF Moves, Published
<1> QED BY <1>1, <1>2, <1>3 DEF Typed

\* An error, and the abort of the backend, end the load.
LEMMA FailStep ==
  ASSUME Typed, Moves, step' \in {"failed", "aborted"}
  PROVE  Inv'
BY MovesKeep DEF Inv, Placed, Publishing

Failure ==
  \/ ReserveAborts \/ RefuseEncrypted \/ MapSegmentFails \/ RebaseFails \/ BindFails
  \/ MapStubsFails \/ ProtectSegmentFails \/ MapStackFails \/ NoEntry

LEMMA FailureStep ==
  ASSUME Typed, Failure
  PROVE  Moves /\ Inv'
<1>1. Moves /\ step' \in {"failed", "aborted"}
  BY DEF Failure, ReserveAborts, RefuseEncrypted, MapSegmentFails, RebaseFails, BindFails,
         MapStubsFails, ProtectSegmentFails, MapStackFails, NoEntry, Fail, Goto, Moves,
         memory, layout, stubs, mirror
<1> QED BY <1>1, FailStep

Done == MapDone \/ RebaseDone \/ BindDone \/ ProtectDone \/ Publish

LEMMA DoneStep ==
  ASSUME Inv, Done
  PROVE  Moves /\ Inv'
<1>1. Moves
  BY DEF Done, MapDone, RebaseDone, BindDone, ProtectDone, Publish, Goto, Moves,
         memory, layout, stubs, mirror
<1>2. /\ Typed' /\ SegBases' = SegBases /\ Segs' = Segs
      /\ \A b : Published(b) => Published(b)'
  BY <1>1, MovesKeep DEF Inv
<1>3. DOMAIN host' = DOMAIN host /\ tramp_base' = tramp_base /\ stack_base' = stack_base
  BY <1>1 DEF Moves
<1>4. CASE MapDone
  <2>1. step = "map" /\ idx > Len(Segs) /\ step' \in {"rebase", "bind"}
    BY <1>4 DEF MapDone, Goto
  <2>2. \A i \in DOMAIN Segs : i < idx
    BY <2>1, AllSegs DEF Inv, Typed
  <2>3. DOMAIN host = SegBases
    BY <2>1, <2>2 DEF Inv, Placed, SegBases
  <2>8. Placed'
    BY <1>2, <1>3, <2>1, <2>3 DEF Inv, Placed
  <2>9. Publishing'
    BY <1>2, <1>3, <2>1, <2>3 DEF Inv, Publishing
  <2> QED BY <1>1, <1>2, <2>8, <2>9 DEF Inv
<1>5. CASE RebaseDone \/ BindDone
  <2>1. step \in {"rebase", "bind"} /\ step' \in {"bind", "stubs"}
    BY <1>5 DEF RebaseDone, BindDone, Goto
  <2>8. Placed'
    BY <1>2, <1>3, <2>1 DEF Inv, Placed
  <2>9. Publishing'
    BY <1>2, <1>3, <2>1 DEF Inv, Publishing
  <2> QED BY <1>1, <1>2, <2>8, <2>9 DEF Inv
<1>6. CASE ProtectDone
  <2>1. step = "protect" /\ idx > Len(Segs) /\ step' = "stack"
    BY <1>6 DEF ProtectDone, Goto
  <2>2. \A i \in DOMAIN Segs : i < idx /\ ~ (i >= idx)
    BY <2>1, AllSegs DEF Inv, Typed, PlacesTyped
  <2>3. \A b \in DOMAIN host : Published(b)
    BY <2>1, <2>2 DEF Inv, Publishing
  <2>8. Placed'
    BY <1>2, <1>3, <2>1, <2>3 DEF Inv, Placed
  <2>9. Publishing'
    BY <1>2, <1>3, <2>1, <2>3 DEF Inv, Publishing
  <2> QED BY <1>1, <1>2, <2>8, <2>9 DEF Inv
<1>7. CASE Publish
  <2>1. step = "entry" /\ step' = "done"
    BY <1>7 DEF Publish, Goto
  <2>8. Placed'
    BY <1>2, <1>3, <2>1 DEF Inv, Placed
  <2>9. Publishing'
    BY <1>2, <1>3, <2>1 DEF Inv, Publishing
  <2> QED BY <1>1, <1>2, <2>8, <2>9 DEF Inv
<1> QED BY <1>1, <1>4, <1>5, <1>6, <1>7 DEF Done

\* A step that changes no region and no mirror, and places a reservation.
LEMMA ReserveStep ==
  ASSUME Inv, ReserveImage \/ ReserveTramp \/ ReserveStack
  PROVE  /\ Inv' /\ UNCHANGED <<regions, host, native, icache, native_prot>>
<1>1. UNCHANGED <<regions, host, native, icache, native_prot>>
  BY DEF ReserveImage, ReserveTramp, ReserveStack, memory, mirror
<1>2. /\ step \in {"reserve_image", "reserve_tramp", "reserve_stack"}
      /\ step' \in {"reserve_tramp", "reserve_stack", "map"}
      /\ image' = image /\ idx' = 1
  BY DEF ReserveImage, ReserveTramp, ReserveStack, Goto
<1>3. slide' \in Address
  <2>1. CASE ReserveImage
    <3>1. PICK base \in OsBases : slide' = (base - TextAddr) % Word
      BY <2>1 DEF ReserveImage
    <3>2. base - TextAddr \in Int
      BY TextAddrTyped, LayoutAssumption DEF Address, Inv, Typed
    <3> QED BY <3>1, <3>2, ModAddress
  <2> QED BY <2>1 DEF ReserveTramp, ReserveStack, Inv, Typed, PlacesTyped
<1>4. tramp_base' \in Address /\ stack_base' \in Address
  BY LayoutAssumption DEF ReserveImage, ReserveTramp, ReserveStack, Inv, Typed, PlacesTyped
<1>5. next' \in Int
  BY DEF ReserveImage, ReserveTramp, ReserveStack, stubs, Inv, Typed, PlacesTyped, Address
<1>6. PlacesTyped'
  BY <1>2, <1>3, <1>4, <1>5 DEF PlacesTyped, Inv, Typed
<1>7. RegionsTyped' /\ MirrorsTyped'
  BY <1>1 DEF Inv, Typed, RegionsTyped, MirrorsTyped
<1>8. DOMAIN host' = {}
  BY <1>1, <1>2 DEF Inv, Placed
<1>9. \A i \in DOMAIN Segs' : ~ (i < idx')
  <2>1. Segs' = Segs /\ idx' = 1
    BY <1>2 DEF Segs
  <2> QED BY <2>1, AllSegs DEF Inv, Typed
<1>10. Placed'
  BY <1>2, <1>8, <1>9 DEF Placed
<1>11. Publishing'
  BY <1>2 DEF Publishing
<1> QED BY <1>1, <1>6, <1>7, <1>10, <1>11 DEF Inv, Typed

\* Step 1: the mirrors are those of the segments seen so far.
LEMMA MapSegmentStep ==
  ASSUME Inv, MapSegment
  PROVE  Inv'
<1>1. /\ step = "map" /\ step' = "map" /\ idx <= Len(Segs) /\ idx' = idx + 1
      /\ UNCHANGED <<image, slide, tramp_base, stack_base, next>>
  BY DEF MapSegment, layout, stubs
<1>2. PlacesTyped'
  BY <1>1 DEF Inv, Typed, PlacesTyped
<1>3. /\ Segs' = Segs /\ SegBases' = SegBases
      /\ \A i \in DOMAIN Segs : SegBase(i)' = SegBase(i) /\ (IsGuard(i)' <=> IsGuard(i))
  BY <1>1, SameSegs
<1>4. \A i \in DOMAIN Segs : i < idx + 1 => i < idx \/ i = idx
  BY AllSegs DEF Inv, Typed, PlacesTyped
<1>5. /\ DOMAIN host \subseteq SegBases
      /\ \A i \in DOMAIN Segs : i < idx /\ ~ IsGuard(i) => SegBase(i) \in DOMAIN host
  BY <1>1 DEF Inv, Placed
<1>6. CASE IsGuard(idx)
  <2>1. UNCHANGED <<regions, host, native, icache, native_prot>>
    BY <1>6 DEF MapSegment, memory, mirror
  <2>2. RegionsTyped' /\ MirrorsTyped'
    BY <2>1 DEF Inv, Typed, RegionsTyped, MirrorsTyped
  <2>3. \A i \in DOMAIN Segs' : i < idx' /\ ~ IsGuard(i)' => SegBase(i)' \in DOMAIN host'
    BY <1>1, <1>3, <1>4, <1>5, <1>6, <2>1
  <2>4. Placed'
    BY <1>1, <1>3, <1>5, <2>1, <2>3 DEF Placed
  <2> QED BY <1>1, <1>2, <2>2, <2>4 DEF Inv, Typed, Publishing
<1>7. CASE ~ IsGuard(idx)
  <2>1. idx \in DOMAIN Segs /\ Mapped(SegBase(idx))
    BY <1>7, MapSegmentMaps DEF Inv
  <2>2. DOMAIN host' = DOMAIN host \cup {SegBase(idx)} /\ SegBase(idx) \in SegBases
    BY <1>7, <2>1 DEF Mapped, SegBases
  <2>3. \A i \in DOMAIN Segs' : i < idx' /\ ~ IsGuard(i)' => SegBase(i)' \in DOMAIN host'
    BY <1>1, <1>3, <1>4, <1>5, <2>2
  <2>4. Placed'
    BY <1>1, <1>3, <1>5, <2>2, <2>3 DEF Placed
  <2> QED BY <1>1, <1>2, <2>1, <2>4 DEF Inv, Typed, Publishing, Mapped
<1> QED BY <1>6, <1>7

\* Steps 1.5 and 2 only write to host buffers.
LEMMA WriteStep ==
  ASSUME Inv, Rebase \/ Bind \/ FillStubs
  PROVE  /\ Inv' /\ UNCHANGED <<regions, native, icache, native_prot>>
         /\ DOMAIN host' = DOMAIN host
<1>1. /\ UNCHANGED <<regions, native, icache, native_prot>>
      /\ UNCHANGED <<image, slide, tramp_base, stack_base>>
      /\ host' = host \/ \E b : HostWrite(b)
  BY DEF Rebase, Bind, FillStubs, memory, layout
<1>2. /\ step \in {"rebase", "bind", "fill_stubs"} /\ idx' \in {idx + 1, 1}
      /\ step' = IF step = "fill_stubs" THEN "protect_stubs" ELSE step
  BY DEF Rebase, Bind, FillStubs, Goto
<1>3. next' \in Int
  BY LayoutAssumption DEF Rebase, Bind, FillStubs, stubs, Inv, Typed, PlacesTyped
<1>4. MirrorsTyped' /\ DOMAIN host' = DOMAIN host
  <2>1. CASE host' = host
    BY <1>1, <2>1 DEF Inv, Typed, MirrorsTyped
  <2>2. CASE host' # host
    <3>1. PICK b : HostWrite(b)
      BY <1>1, <2>2
    <3>2. DOMAIN regions' = DOMAIN regions /\ native' \in [DOMAIN host -> Int]
      BY <1>1 DEF Inv, Typed, MirrorsTyped
    <3> QED BY <1>1, <3>1, <3>2, HostWriteEffect DEF Inv, Typed
  <2> QED BY <2>1, <2>2
<1>5. RegionsTyped' /\ PlacesTyped'
  BY <1>1, <1>2, <1>3 DEF Inv, Typed, RegionsTyped, PlacesTyped
<1>6. SegBases' = SegBases
  BY <1>1, SameSegs
<1>7. Placed' /\ Publishing'
  BY <1>1, <1>2, <1>4, <1>6 DEF Inv, Placed, Publishing
<1> QED BY <1>1, <1>4, <1>5, <1>7 DEF Inv, Typed

\* Step 3 maps the stub page, step 6 the stack.
LEMMA MapStubsStep ==
  ASSUME Inv, MapStubs
  PROVE  Inv' /\ Mapped(tramp_base)
<1>1. /\ step = "stubs" /\ step' = "fill_stubs" /\ idx' = 1
      /\ UNCHANGED <<image, slide, tramp_base, stack_base, next>>
  BY DEF MapStubs, Goto, layout, stubs
<1>2. Mapped(tramp_base)
  BY MapMaps, TrampBytesTyped DEF MapStubs, Inv, Typed, PlacesTyped
<1>3. PlacesTyped' /\ SegBases' = SegBases
  BY <1>1, SameSegs DEF Inv, Typed, PlacesTyped
<1>4. DOMAIN host' = SegBases \cup {tramp_base}
  BY <1>1, <1>2 DEF Mapped, Inv, Placed
<1>5. Placed' /\ Publishing'
  BY <1>1, <1>3, <1>4 DEF Placed, Publishing
<1> QED BY <1>2, <1>3, <1>5 DEF Inv, Typed, Mapped

LEMMA MapStackStep ==
  ASSUME Inv, MapStack
  PROVE  Inv' /\ Mapped(stack_base)
<1>1. /\ step = "stack" /\ step' = "build_stack" /\ idx' = 1
      /\ UNCHANGED <<image, slide, tramp_base, stack_base, next>>
  BY DEF MapStack, Goto, layout, stubs
<1>2. Mapped(stack_base)
  BY MapMaps, LayoutAssumption DEF MapStack, Inv, Typed, PlacesTyped
<1>3. PlacesTyped' /\ SegBases' = SegBases
  BY <1>1, SameSegs DEF Inv, Typed, PlacesTyped
<1>4. DOMAIN host' = DOMAIN host \cup {stack_base} /\ DOMAIN host \subseteq DOMAIN regions
  BY <1>2 DEF Mapped, Inv, Typed, MirrorsTyped
<1>5. \A b \in DOMAIN host' \ {stack_base} : Published(b)'
  BY <1>1, <1>2, <1>4 DEF Mapped, Inv, Publishing, Published
<1>6. native_prot'[stack_base] = RW /\ regions'[stack_base].prot = RW
  BY <1>2 DEF Mapped
<1>7. Placed'
  BY <1>1, <1>4 DEF Placed
<1>8. Publishing'
  BY <1>1, <1>5, <1>6 DEF Publishing
<1> QED BY <1>2, <1>3, <1>7, <1>8 DEF Inv, Typed, Mapped

\* build_initial_stack writes the buffer and commits it.
LEMMA BuildStackStep ==
  ASSUME Inv, BuildStack
  PROVE  Inv' /\ UNCHANGED <<regions, native_prot>> /\ DOMAIN host' = DOMAIN host
<1>1. /\ step = "build_stack" /\ step' = "entry" /\ idx' = 1
      /\ UNCHANGED <<image, slide, tramp_base, stack_base, next>>
      /\ UNCHANGED <<regions, icache, native_prot>>
  BY DEF BuildStack, Goto, layout, stubs, memory
<1>2. stack_base \in DOMAIN host
  BY <1>1 DEF Inv, Placed
<1>3. /\ HostWrite(stack_base)
      /\ native' = [native EXCEPT ![stack_base] = host'[stack_base]]
  BY DEF BuildStack, CommitToNative
<1>4. host' \in [DOMAIN host -> Int]
  <2>1. \A x \in DOMAIN host : host[x] \in Int /\ host[x] + 1 \in Int
    BY DEF Inv, Typed, MirrorsTyped
  <2> QED BY <1>3, <2>1 DEF Inv, Typed, MirrorsTyped, HostWrite
<1>5. native' \in [DOMAIN host -> Int]
  BY <1>2, <1>3, <1>4 DEF Inv, Typed, MirrorsTyped
<1>6. /\ MirrorsTyped' /\ DOMAIN host' = DOMAIN host
      /\ \A x \in DOMAIN host \ {stack_base} : host'[x] = host[x]
  BY <1>1, <1>3, <1>5, HostWriteEffect DEF Inv, Typed
<1>7. /\ native'[stack_base] = host'[stack_base]
      /\ \A x \in DOMAIN host \ {stack_base} : native'[x] = native[x]
  BY <1>2, <1>3 DEF Inv, Typed, MirrorsTyped
<1>8. \A b \in DOMAIN host \ {stack_base} : Published(b)'
  BY <1>1, <1>6, <1>7 DEF Inv, Publishing, Published
<1>9. \A b \in DOMAIN host' : Published(b)'
  <2>1. /\ regions'[stack_base].prot = RW /\ native_prot'[stack_base] = RW
        /\ "x" \notin RW
    BY <1>1 DEF Inv, Publishing, RW
  <2>2. \A b \in {stack_base} : Published(b)'
    BY <1>7, <2>1 DEF Published
  <2> QED BY <1>6, <1>8, <2>2
<1>10. Placed' /\ Publishing'
  BY <1>1, <1>2, <1>6, <1>9 DEF Placed, Publishing
<1>11. RegionsTyped' /\ PlacesTyped'
  BY <1>1 DEF Inv, Typed, RegionsTyped, PlacesTyped
<1> QED BY <1>1, <1>6, <1>10, <1>11 DEF Inv, Typed

\* Publishing region b publishes it, and unpublishes nothing.
LEMMA ProtectedPublished ==
  ASSUME Typed, NEW b \in DOMAIN host, NEW p, Protected(b, p)
  PROVE  Published(b)' /\ \A x \in DOMAIN host : Published(x) => Published(x)'
<1>1. Published(b)'
  BY DEF Protected, Published
<1>2. ASSUME NEW x \in DOMAIN host, Published(x), x # b
      PROVE  Published(x)'
  BY <1>2 DEF Protected, Published, Typed, MirrorsTyped
<1> QED BY <1>1, <1>2

\* Step 3 publishes the stub page.
LEMMA ProtectStubsStep ==
  ASSUME Inv, ProtectStubs
  PROVE  Inv' /\ Protected(tramp_base, RX)
<1>1. /\ step = "protect_stubs" /\ step' = "protect" /\ idx' = 1
      /\ UNCHANGED <<image, slide, tramp_base, stack_base, next>>
  BY DEF ProtectStubs, Goto, layout, stubs
<1>2. DOMAIN host = SegBases \cup {tramp_base}
  BY <1>1 DEF Inv, Placed
<1>3. Protected(tramp_base, RX)
  BY <1>2, ProtectPublishes DEF ProtectStubs, Inv, RX, Flags
<1>4. PICK t : t = tramp_base
  OBVIOUS
<1>5. Published(t)'
  BY <1>2, <1>3, <1>4, ProtectedPublished DEF Inv
<1>6. /\ Segs' = Segs /\ SegBases' = SegBases
      /\ \A i \in DOMAIN Segs : SegBase(i)' = SegBase(i) /\ (IsGuard(i)' <=> IsGuard(i))
  BY <1>1, SameSegs
<1>7. \A i \in DOMAIN Segs : i >= 1
  BY AllSegs DEF Inv, Typed
<1>8. ASSUME NEW b \in DOMAIN host, b # t
      PROVE  \E i \in DOMAIN Segs' : i >= idx' /\ ~ IsGuard(i)' /\ b = SegBase(i)'
  <2>1. b \in SegBases
    BY <1>2, <1>4, <1>8
  <2>2. PICK i \in DOMAIN Segs : ~ IsGuard(i) /\ b = SegBase(i)
    BY <2>1 DEF SegBases
  <2> QED BY <1>1, <1>6, <1>7, <2>2
<1>9. Publishing'
  BY <1>1, <1>3, <1>5, <1>8 DEF Publishing, Protected
<1>10. Placed'
  BY <1>1, <1>2, <1>3, <1>6 DEF Placed, Protected
<1>11. PlacesTyped'
  BY <1>1 DEF Inv, Typed, PlacesTyped
<1> QED BY <1>3, <1>9, <1>10, <1>11 DEF Inv, Typed, Protected

\* Step 4 publishes one segment more.
LEMMA ProtectSegmentStep ==
  ASSUME Inv, ProtectSegment
  PROVE  /\ Inv' /\ idx \in DOMAIN Segs
         /\ IF IsGuard(idx) THEN UNCHANGED <<regions, host, native, icache, native_prot>>
            ELSE SegBase(idx) \in DOMAIN host /\ Protected(SegBase(idx), FinalProt(idx))
<1>1. /\ step = "protect" /\ step' = "protect" /\ idx <= Len(Segs) /\ idx' = idx + 1
      /\ UNCHANGED <<image, slide, tramp_base, stack_base, next>>
  BY DEF ProtectSegment, layout, stubs
<1>2. PlacesTyped' /\ idx \in DOMAIN Segs
  BY <1>1, AllSegs DEF Inv, Typed, PlacesTyped
<1>3. DOMAIN host = SegBases \cup {tramp_base}
  BY <1>1 DEF Inv, Placed
<1>4. /\ Segs' = Segs /\ SegBases' = SegBases
      /\ \A i \in DOMAIN Segs : SegBase(i)' = SegBase(i) /\ (IsGuard(i)' <=> IsGuard(i))
  BY <1>1, SameSegs
<1>5. \A i \in DOMAIN Segs : i >= idx => i = idx \/ i >= idx'
  BY <1>1, AllSegs DEF Inv, Typed, PlacesTyped
<1>6. \A b \in DOMAIN host :
        Published(b) \/ \E i \in DOMAIN Segs : i >= idx /\ ~ IsGuard(i) /\ b = SegBase(i)
  BY <1>1 DEF Inv, Publishing
<1>7. CASE IsGuard(idx)
  <2>1. UNCHANGED <<regions, host, native, icache, native_prot>>
    BY <1>7 DEF ProtectSegment, memory, mirror
  <2>2. RegionsTyped' /\ MirrorsTyped'
    BY <2>1 DEF Inv, Typed, RegionsTyped, MirrorsTyped
  <2>3. ASSUME NEW b \in DOMAIN host
        PROVE  \/ Published(b)'
               \/ \E i \in DOMAIN Segs' : i >= idx' /\ ~ IsGuard(i)' /\ b = SegBase(i)'
    <3>1. CASE Published(b)
      BY <2>1, <3>1 DEF Published
    <3>2. CASE ~ Published(b)
      <4>1. PICK i \in DOMAIN Segs : i >= idx /\ ~ IsGuard(i) /\ b = SegBase(i)
        BY <1>6, <3>2
      <4> QED BY <1>4, <1>5, <1>7, <4>1
    <3> QED BY <3>1, <3>2
  <2>4. Placed'
    BY <1>1, <1>3, <1>4, <2>1 DEF Placed
  <2>5. Publishing'
    BY <1>1, <2>1, <2>3 DEF Publishing
  <2> QED BY <1>2, <1>7, <2>1, <2>2, <2>4, <2>5 DEF Inv, Typed
<1>8. CASE ~ IsGuard(idx)
  <2>1. PICK c : c = SegBase(idx)
    OBVIOUS
  <2>2. c \in DOMAIN host /\ FinalProt(idx) \in SUBSET Flags
    BY <1>2, <1>3, <1>8, <2>1, SegTyped DEF SegBases, Inv, Typed
  <2>3. Protected(c, FinalProt(idx))
    BY <1>8, <2>1, <2>2, ProtectPublishes DEF ProtectSegment, Inv
  <2>4. Published(c)' /\ \A x \in DOMAIN host : Published(x) => Published(x)'
    BY <2>2, <2>3, ProtectedPublished DEF Inv
  <2>5. ASSUME NEW b \in DOMAIN host
        PROVE  \/ Published(b)'
               \/ \E i \in DOMAIN Segs' : i >= idx' /\ ~ IsGuard(i)' /\ b = SegBase(i)'
    <3>1. CASE Published(b) \/ b = c
      BY <2>4, <3>1
    <3>2. CASE ~ Published(b) /\ b # c
      <4>1. PICK i \in DOMAIN Segs : i >= idx /\ ~ IsGuard(i) /\ b = SegBase(i)
        BY <1>6, <3>2
      <4>2. i # idx
        BY <2>1, <3>2, <4>1
      <4> QED BY <1>4, <1>5, <4>1, <4>2
    <3> QED BY <3>1, <3>2
  <2>6. Placed'
    BY <1>1, <1>3, <1>4, <2>3 DEF Placed, Protected
  <2>7. Publishing'
    BY <1>1, <2>3, <2>5 DEF Publishing, Protected
  <2> QED BY <1>2, <1>8, <2>1, <2>2, <2>3, <2>6, <2>7 DEF Inv, Typed, Protected
<1> QED BY <1>7, <1>8

\* A refused mprotect ends the load.
LEMMA RefusedStep ==
  ASSUME Inv, ProtectStubsRefused \/ ProtectSegmentRefused
  PROVE  /\ Inv'
         /\ \/ Refused(tramp_base, RX)
            \/ /\ idx \in DOMAIN Segs
               /\ Refused(SegBase(idx), FinalProt(idx))
<1>1. step' = "failed" /\ UNCHANGED <<image, slide, tramp_base, stack_base, next>> /\ idx' = 1
  BY DEF ProtectStubsRefused, ProtectSegmentRefused, Goto, layout, stubs
<1>2. PlacesTyped' /\ Placed' /\ Publishing'
  BY <1>1 DEF Inv, Typed, PlacesTyped, Placed, Publishing
<1>3. CASE ProtectStubsRefused
  <2>1. tramp_base \in DOMAIN host
    BY <1>3 DEF ProtectStubsRefused, Inv, Placed
  <2>2. Refused(tramp_base, RX)
    BY <1>3, <2>1, ProtectRefused DEF ProtectStubsRefused, Inv, RX, Flags
  <2> QED BY <1>2, <2>2 DEF Inv, Typed, Refused
<1>4. CASE ProtectSegmentRefused
  <2>1. step = "protect" /\ idx <= Len(Segs) /\ ~ IsGuard(idx)
    BY <1>4 DEF ProtectSegmentRefused
  <2>2. idx \in DOMAIN Segs
    BY <2>1, AllSegs DEF Inv, Typed
  <2>3. SegBase(idx) \in DOMAIN host /\ FinalProt(idx) \in SUBSET Flags
    BY <2>1, <2>2, SegTyped DEF Inv, Typed, Placed, SegBases
  <2>4. Refused(SegBase(idx), FinalProt(idx))
    BY <1>4, <2>3, ProtectRefused DEF ProtectSegmentRefused, Inv
  <2> QED BY <1>2, <2>2, <2>4 DEF Inv, Typed, Refused
<1> QED BY <1>3, <1>4

LEMMA StutterStep ==
  ASSUME Inv, UNCHANGED vars
  PROVE  Inv'
<1>1. /\ UNCHANGED <<regions, image, slide, tramp_base, stack_base, next, step, idx>>
      /\ UNCHANGED <<host, native, icache, native_prot>>
  BY DEF vars, memory, layout, stubs, mirror
<1>2. Typed'
  BY <1>1 DEF Inv, Typed, RegionsTyped, MirrorsTyped, PlacesTyped
<1>3. Placed' /\ Publishing'
  BY <1>1, SameSegs DEF Inv, Placed, Publishing, Published
<1> QED BY <1>2, <1>3 DEF Inv

LEMMA InvStep == Inv /\ [Next]_vars => Inv'
<1> SUFFICES ASSUME Inv, [Next]_vars PROVE Inv'
  OBVIOUS
<1>1. CASE Failure
  BY <1>1, FailureStep DEF Inv
<1>2. CASE Done
  BY <1>2, DoneStep
<1>3. CASE ReserveImage \/ ReserveTramp \/ ReserveStack
  BY <1>3, ReserveStep
<1>4. CASE MapSegment
  BY <1>4, MapSegmentStep
<1>5. CASE Rebase \/ Bind \/ FillStubs
  BY <1>5, WriteStep
<1>6. CASE MapStubs
  BY <1>6, MapStubsStep
<1>7. CASE MapStack
  BY <1>7, MapStackStep
<1>8. CASE BuildStack
  BY <1>8, BuildStackStep
<1>9. CASE ProtectStubs
  BY <1>9, ProtectStubsStep
<1>10. CASE ProtectSegment
  BY <1>10, ProtectSegmentStep
<1>11. CASE ProtectStubsRefused \/ ProtectSegmentRefused
  BY <1>11, RefusedStep
<1>12. CASE UNCHANGED vars
  BY <1>12, StutterStep
<1> QED BY <1>1, <1>2, <1>3, <1>4, <1>5, <1>6, <1>7, <1>8, <1>9, <1>10, <1>11, <1>12
        DEF Next, Failure, Done

\* When the guest starts, the native pages hold every byte that the loader wrote
\* into the host buffers, under the same protection and with no stale
\* instruction, for every image and every choice of addresses.
THEOREM ImageIsPublished == Spec => []ImagePublished
<1>1. Init => Inv
  BY InitInv
<1>2. Inv /\ [Next]_vars => Inv'
  BY InvStep
<1>3. Inv => ImagePublished
  BY DEF Inv, Publishing, Published, ImagePublished, Loaded
<1> QED BY <1>1, <1>2, <1>3, PTL DEF Spec

-----------------------------------------------------------------------------
(* Write xor execute *)

Apart(p) == ~ ({"w", "x"} \subseteq p)

LEMMA ApartProts ==
  ASSUME PlacesTyped, SeparateProts
  PROVE  Apart(RW) /\ Apart(RX) /\ \A i \in DOMAIN Segs : Apart(FinalProt(i))
<1>1. Apart(RW) /\ Apart(RX)
  BY DEF Apart, RW, RX
<1>2. ASSUME NEW i \in DOMAIN Segs
      PROVE  Apart(FinalProt(i))
  <2>1. Apart(Segs[i].prot) /\ Apart({"r"})
    BY DEF PlacesTyped, SeparateProts, Segs, Apart
  <2> QED BY <2>1 DEF FinalProt
<1> QED BY <1>1, <1>2

LEMMA ApartStep ==
  ASSUME Inv, SeparateProts, WriteXorExecute, [Next]_vars
  PROVE  WriteXorExecute'
<1>1. /\ \A b \in DOMAIN regions : Apart(regions[b].prot)
      /\ \A b \in DOMAIN native_prot : Apart(native_prot[b])
      /\ DOMAIN native_prot = DOMAIN host
  BY DEF WriteXorExecute, Apart, Inv, Typed, MirrorsTyped
<1>2. Inv'
  BY InvStep
<1>3. DOMAIN native_prot' = DOMAIN host'
  BY <1>2 DEF Inv, Typed, MirrorsTyped
<1>4. Apart(RW) /\ Apart(RX) /\ \A i \in DOMAIN Segs : Apart(FinalProt(i))
  BY ApartProts DEF Inv, Typed
<1>5. SUFFICES /\ \A b \in DOMAIN regions' : Apart(regions'[b].prot)
               /\ \A b \in DOMAIN host' : Apart(native_prot'[b])
  BY <1>3 DEF WriteXorExecute, Apart
<1>6. CASE UNCHANGED <<regions, native_prot>> /\ DOMAIN host' = DOMAIN host
  BY <1>1, <1>6
<1>7. ASSUME NEW b, Mapped(b)
      PROVE  /\ \A x \in DOMAIN regions' : Apart(regions'[x].prot)
             /\ \A x \in DOMAIN host' : Apart(native_prot'[x])
  BY <1>1, <1>4, <1>7 DEF Mapped
<1>8. ASSUME NEW b, NEW p, Protected(b, p), Apart(p)
      PROVE  /\ \A x \in DOMAIN regions' : Apart(regions'[x].prot)
             /\ \A x \in DOMAIN host' : Apart(native_prot'[x])
  BY <1>1, <1>8 DEF Protected
<1>9. ASSUME NEW b, NEW p, Refused(b, p), Apart(p)
      PROVE  /\ \A x \in DOMAIN regions' : Apart(regions'[x].prot)
             /\ \A x \in DOMAIN host' : Apart(native_prot'[x])
  BY <1>1, <1>9 DEF Refused
<1>10. CASE Failure
  BY <1>6, <1>10, FailureStep DEF Inv, Moves
<1>11. CASE Done
  BY <1>6, <1>11, DoneStep DEF Moves
<1>12. CASE ReserveImage \/ ReserveTramp \/ ReserveStack
  BY <1>6, <1>12, ReserveStep
<1>13. CASE MapSegment
  <2>1. CASE IsGuard(idx)
    <3>1. UNCHANGED <<regions, host, native_prot>>
      BY <1>13, <2>1 DEF MapSegment, memory, mirror
    <3> QED BY <3>1, <1>6
  <2>2. CASE ~ IsGuard(idx)
    BY <1>7, <1>13, <2>2, MapSegmentMaps DEF Inv
  <2> QED BY <2>1, <2>2
<1>14. CASE Rebase \/ Bind \/ FillStubs
  BY <1>6, <1>14, WriteStep
<1>15. CASE MapStubs
  BY <1>7, <1>15, MapStubsStep
<1>16. CASE MapStack
  BY <1>7, <1>16, MapStackStep
<1>17. CASE BuildStack
  BY <1>6, <1>17, BuildStackStep
<1>18. CASE ProtectStubs
  BY <1>4, <1>8, <1>18, ProtectStubsStep
<1>19. CASE ProtectSegment
  BY <1>4, <1>6, <1>8, <1>19, ProtectSegmentStep
<1>20. CASE ProtectStubsRefused \/ ProtectSegmentRefused
  BY <1>4, <1>9, <1>20, RefusedStep
<1>21. CASE UNCHANGED vars
  <2>1. UNCHANGED <<regions, host, native_prot>>
    BY <1>21 DEF vars, memory, mirror
  <2> QED BY <1>6, <2>1
<1> QED BY <1>10, <1>11, <1>12, <1>13, <1>14, <1>15, <1>16, <1>17, <1>18, <1>19, <1>20, <1>21
        DEF Next, Failure, Done

\* No region and no native page is writable and executable at any moment of the
\* load, a refused mprotect included, if no segment asks for both.
THEOREM NeverWriteAndExecute == SeparateProts /\ Spec => []WriteXorExecute
<1> DEFINE J == Inv /\ SeparateProts /\ WriteXorExecute
<1>1. SeparateProts /\ Init => J
  <2> SUFFICES ASSUME SeparateProts, Init PROVE WriteXorExecute
    BY InitInv
  <2>1. /\ regions = [b \in {HeapBase} |-> Mem!Region(Mem!HeapRegionSize, Mem!RW, "Heap")]
        /\ native_prot = << >>
    BY DEF Init, Mem!Init
  <2>2. regions[HeapBase].prot = {"r", "w"} /\ DOMAIN regions = {HeapBase}
    BY <2>1 DEF Mem!Region, Mem!RW
  <2>3. DOMAIN native_prot = {}
    BY <2>1
  <2> QED BY <2>2, <2>3 DEF WriteXorExecute
<1>2. J /\ [Next]_vars => J'
  BY InvStep, ApartStep
<1>3. J => WriteXorExecute
  OBVIOUS
<1> QED BY <1>1, <1>2, <1>3, PTL DEF Spec

-----------------------------------------------------------------------------
(* Arithmetic of pages *)

\* Quotient and remainder.
LEMMA DivMod ==
  ASSUME NEW v \in Int, NEW a \in Nat \ {0}
  PROVE  v \div a \in Int /\ v % a \in 0 .. a - 1 /\ v = a * (v \div a) + (v % a)
OBVIOUS

LEMMA ModOfMultiple ==
  ASSUME NEW q \in Int, NEW a \in Nat \ {0}
  PROVE  (a * q) % a = 0
OBVIOUS

LEMMA TimesMonotone ==
  ASSUME NEW a \in Nat, NEW x \in Int, NEW y \in Int, x <= y
  PROVE  a * x <= a * y
OBVIOUS

\* align_up, when it does not wrap, is not below its argument, is a multiple, and
\* is not above any multiple that its argument is not above.
LEMMA AlignUpFits ==
  ASSUME NEW v \in Nat, NEW top \in Nat, v <= top, top % PageSize = 0, top + PageSize <= Word
  PROVE  /\ Mem!AlignUp(v, PageSize) \in Nat
         /\ v <= Mem!AlignUp(v, PageSize) /\ Mem!AlignUp(v, PageSize) <= top
         /\ Mem!AlignUp(v, PageSize) % PageSize = 0
<1> DEFINE w == v + (PageSize - 1)
           q == w \div PageSize
           k == top \div PageSize
<1>1. PageSize \in Nat \ {0} /\ Word \in Nat \ {0} /\ w \in Nat /\ w < Word
  BY LayoutAssumption
<1>2. w % Word = w
  BY <1>1
<1>3. q \in Int /\ w % PageSize \in 0 .. PageSize - 1 /\ w = PageSize * q + (w % PageSize)
  BY <1>1, DivMod
<1>4. k \in Int /\ top = PageSize * k
  BY <1>1, DivMod
<1>5. Mem!AlignUp(v, PageSize) = w - (w % PageSize)
  BY <1>2 DEF Mem!AlignUp, Mem!AlignDown
<1> HIDE DEF q, k
<1>6. Mem!AlignUp(v, PageSize) = PageSize * q /\ PageSize * q \in Int
  <2>1. PageSize * q \in Int
    BY <1>1, <1>3
  <2> QED BY <1>1, <1>3, <1>5, <2>1
<1>7. v <= PageSize * q /\ PageSize * q <= v + (PageSize - 1)
  BY <1>1, <1>3, <1>6
<1>8. q <= k
  <2> SUFFICES ASSUME k + 1 <= q PROVE FALSE
    BY <1>3, <1>4
  <2>1. PageSize * (k + 1) <= PageSize * q
    BY <1>1, <1>3, <1>4, TimesMonotone
  <2>2. PageSize * (k + 1) = top + PageSize
    BY <1>1, <1>4
  <2> QED BY <1>1, <1>6, <1>7, <2>1, <2>2
<1>9. PageSize * q <= top
  BY <1>1, <1>3, <1>4, <1>8, TimesMonotone
<1>10. (PageSize * q) % PageSize = 0
  BY <1>1, <1>3, ModOfMultiple
<1> QED BY <1>6, <1>7, <1>9, <1>10

\* The difference of two multiples is one.
LEMMA MultipleMinus ==
  ASSUME NEW x \in Int, NEW y \in Int, x % PageSize = 0, y % PageSize = 0
  PROVE  (x - y) % PageSize = 0
<1> DEFINE p == x \div PageSize
           q == y \div PageSize
<1>1. PageSize \in Nat \ {0}
  BY LayoutAssumption
<1>2. p \in Int /\ q \in Int /\ x = PageSize * p /\ y = PageSize * q
  BY <1>1, DivMod
<1> HIDE DEF p, q
<1>3. x - y = PageSize * (p - q) /\ p - q \in Int
  BY <1>1, <1>2
<1> QED BY <1>1, <1>3, ModOfMultiple

\* A bounded non-empty set of naturals has a greatest element, and Max gives it.
LEMMA MaxExists ==
  ASSUME NEW n \in Nat, NEW S, S \subseteq 0 .. n, S # {}
  PROVE  Max(S) \in S /\ \A x \in S : x <= Max(S)
<1> DEFINE R == OpToRel(<, Nat)
           T == {n - x : x \in S}
<1>1. IsWellFoundedOn(R, Nat)
  BY NatLessThanWellFounded
<1>2. T \subseteq Nat /\ T # {}
  OBVIOUS
<1>3. PICK t \in T : \A y \in T : ~ (<<y, t>> \in R)
  <2> HIDE DEF T, R
  <2> QED BY <1>1, <1>2, WFMin
<1>4. PICK m \in S : t = n - m
  OBVIOUS
<1>5. \A x \in S : x <= m
  <2> SUFFICES ASSUME NEW x \in S PROVE x <= m
    OBVIOUS
  <2>1. ~ (<<n - x, t>> \in R) /\ n - x \in Nat /\ t \in Nat
    BY <1>2, <1>3
  <2>2. ~ (n - x < t)
    BY <2>1 DEF OpToRel
  <2> HIDE DEF R
  <2> QED BY <2>2, <1>4
<1>6. \E x \in S : \A y \in S : x >= y
  BY <1>5
<1> QED BY <1>6 DEF Max

-----------------------------------------------------------------------------
(* The reservations *)

Early == {"reserve_image", "reserve_tramp", "reserve_stack"}
Ended == {"failed", "aborted"}

\* The reservations that the load has made, each below the end of the address
\* space.
Reservations ==
  /\ reserved \subseteq [base : Address, len : 1 .. Word - 1]
  /\ \A r \in reserved : r.base + r.len < Word
  /\ step \notin {"reserve_image"} \cup Ended =>
       \E r \in reserved : r.len = ImageSpan /\ slide = (r.base - TextAddr) % Word
  /\ step \notin {"reserve_image", "reserve_tramp"} \cup Ended =>
       [base |-> tramp_base, len |-> TrampReserve] \in reserved
  /\ step \notin Early \cup Ended => [base |-> stack_base, len |-> StackSize] \in reserved

\* The stubs lie one after the other from the base of their page.
Syms == {image.binds[r].sym : r \in DOMAIN image.binds}
StubsAssigned ==
  /\ DOMAIN forward \subseteq Syms
  /\ step \in Early => DOMAIN forward = {}
  /\ \A s \in DOMAIN forward :
       forward[s] \in Int /\ tramp_base <= forward[s] /\ forward[s] + Stride <= next
  /\ step \notin Early \cup Ended => next = tramp_base + Stride * Cardinality(DOMAIN forward)
  /\ step = "done" => range = [lo |-> tramp_base, hi |-> tramp_base + TrampBytes]

\* Every region that has a mirror lies in a reservation, and so did every copy.
Inside == ~ stray /\ \A b \in DOMAIN host : Covered(b, regions[b].size)

\* The number of imports of an image is finite.
LEMMA SymsFinite ==
  ASSUME image \in Images
  PROVE  /\ IsFiniteSet(Syms)
         /\ \A S : S \subseteq Syms => /\ IsFiniteSet(S) /\ Cardinality(S) \in Nat
                                       /\ Cardinality(S) <= Cardinality(Syms)
<1> DEFINE n == Len(image.binds)
           sym(r) == image.binds[r].sym
<1>1. DOMAIN image.binds = 1 .. n /\ n \in Nat
  BY ImageAssumption
<1>2. IsFiniteSet(1 .. n)
  BY <1>1, FS_Interval
<1>3. Syms = {image.binds[r].sym : r \in 1 .. n}
  BY <1>1 DEF Syms
<1>4. IsFiniteSet(Syms)
  <2>1. [r \in 1 .. n |-> image.binds[r].sym] \in Surjection(1 .. n, Syms)
    BY <1>3 DEF Surjection
  <2> QED BY <1>2, <2>1, FS_Surjection
<1> QED BY <1>4, FS_Subset, FS_CardinalityType

\* The stub page holds every stub and fits in its reservation.
LEMMA TrampBytesFit ==
  ASSUME Typed, StubsFit, StubsAssigned, step \notin Early \cup Ended
  PROVE  /\ next <= tramp_base + TrampBytes
         /\ TrampBytes > 0 /\ TrampBytes <= TrampReserve /\ TrampBytes % PageSize = 0
<1>1. image \in Images /\ tramp_base \in Nat
  BY DEF Typed, PlacesTyped, Address
<1> DEFINE c == Cardinality(DOMAIN forward)
           n == Stride * c
<1>2. c \in Nat /\ c <= Cardinality(Syms) /\ Cardinality(Syms) \in Nat
  BY <1>1, SymsFinite DEF StubsAssigned
<1>3. Stride \in Nat /\ n \in Nat /\ Stride * Cardinality(Syms) \in Nat
  BY <1>2, LayoutAssumption
<1>4. n <= Stride * Cardinality(Syms)
  BY <1>2, <1>3, TimesMonotone
<1>5. Stride * Cardinality(Syms) <= TrampReserve
  BY <1>1 DEF StubsFit, Syms
<1>6. next = tramp_base + n
  BY DEF StubsAssigned
<1> HIDE DEF n, c
<1>7. n <= TrampReserve /\ TrampReserve \in Nat \ {0} /\ TrampReserve % PageSize = 0
      /\ TrampReserve + PageSize <= Word /\ PageSize \in Nat \ {0}
  <2>1. TrampReserve \in Nat \ {0} /\ TrampReserve % PageSize = 0
        /\ TrampReserve + PageSize <= Word /\ PageSize \in Nat \ {0}
    BY LayoutAssumption
  <2>2. PICK k : k = Stride * Cardinality(Syms)
    OBVIOUS
  <2>3. k \in Nat /\ n <= k /\ k <= TrampReserve
    BY <1>3, <1>4, <1>5, <2>2
  <2>4. n <= TrampReserve
    BY <1>3, <2>1, <2>3
  <2> QED BY <2>1, <2>4
<1>8. PageSize <= TrampReserve
  <2>1. CASE TrampReserve < PageSize
    <3>1. TrampReserve % PageSize = TrampReserve
      BY <1>7, <2>1
    <3> QED BY <1>7, <3>1
  <2> QED BY <2>1, <1>7
<1> DEFINE v == Mem!AtLeast(n, PageSize)
<1>9. v \in Nat /\ n <= v /\ PageSize <= v /\ v <= TrampReserve
  BY <1>3, <1>7, <1>8 DEF Mem!AtLeast
<1>10. next - tramp_base = n
  BY <1>1, <1>3, <1>6
<1>11. TrampBytes = Mem!AlignUp(v, PageSize)
  BY <1>10 DEF TrampBytes
<1> HIDE DEF v
<1>12. TrampBytes \in Nat /\ v <= TrampBytes /\ TrampBytes <= TrampReserve /\ TrampBytes % PageSize = 0
  BY <1>7, <1>9, <1>11, AlignUpFits
<1> QED BY <1>1, <1>3, <1>6, <1>7, <1>9, <1>12

\* image_span: the highest end of a segment, or __TEXT itself, rounded up.
LEMMA SpanTyped ==
  ASSUME PlacesTyped
  PROVE  /\ ImageSpan \in Address
         /\ \E high \in Nat :
              /\ TextAddr <= high /\ ImageSpan = Mem!AlignUp(high - TextAddr, PageSize)
              /\ \A i \in DOMAIN Segs : ~ IsGuard(i) => SegEnd(i) <= high
              /\ \/ high = TextAddr
                 \/ \E i \in DOMAIN Segs : ~ IsGuard(i) /\ high = SegEnd(i)
<1> DEFINE ends == {SegEnd(i) : i \in {j \in DOMAIN Segs : ~ IsGuard(j)}}
           E == ends \cup {TextAddr}
           high == Max(E)
<1>1. TextAddr \in Nat /\ TextAddr < Word /\ Word \in Nat
  BY TextAddrTyped, LayoutAssumption DEF Address
<1>2. ASSUME NEW i \in DOMAIN Segs
      PROVE  /\ Segs[i].vmaddr \in Nat /\ Segs[i].vmsize \in Nat
             /\ Segs[i].vmaddr < Word /\ Segs[i].vmsize < Word
  <2>1. Segs[i] \in Segment
    BY SegTyped
  <2> QED BY <1>1, <2>1 DEF Segment, Address
<1>3. E \subseteq 0 .. 2 * Word /\ TextAddr \in E
  BY <1>1, <1>2 DEF SegEnd
<1>4. /\ high \in E /\ high \in Nat /\ TextAddr <= high
      /\ \A x \in E : x <= high
  <2>1. 2 * Word \in Nat /\ E # {}
    BY <1>1, <1>3
  <2> HIDE DEF E
  <2>2. high \in E /\ \A x \in E : x <= high
    BY <1>3, <2>1, MaxExists
  <2>3. high \in Nat /\ TextAddr <= high
    <3> HIDE DEF high
    <3> QED BY <1>1, <1>3, <2>1, <2>2
  <2> QED BY <2>2, <2>3
<1>5. ImageSpan = Mem!AlignUp(high - TextAddr, PageSize)
  BY DEF ImageSpan
<1>6. \A i \in DOMAIN Segs : ~ IsGuard(i) => SegEnd(i) \in E
  OBVIOUS
<1>7. \/ high = TextAddr
      \/ \E i \in DOMAIN Segs : ~ IsGuard(i) /\ high = SegEnd(i)
  <2> HIDE DEF high
  <2> QED BY <1>4
<1> HIDE DEF high, E
<1>8. high - TextAddr \in Nat
  BY <1>1, <1>4
<1>9. ImageSpan \in Address
  BY <1>5, <1>8, AlignUpAddress
<1> QED BY <1>4, <1>5, <1>6, <1>7, <1>9

\* The segments of a linked image lie in its reservation.
LEMMA SpanCovers ==
  ASSUME PlacesTyped, LinkerLayout
  PROVE  \A i \in DOMAIN Segs : ~ IsGuard(i) =>
           /\ Segs[i].vmaddr - TextAddr \in Nat
           /\ SegBytes(i) = Segs[i].vmsize
           /\ Mem!AlignUp(SegBytes(i), PageSize) \in Nat
           /\ SegBytes(i) <= Mem!AlignUp(SegBytes(i), PageSize)
           /\ (Segs[i].vmaddr - TextAddr) + Mem!AlignUp(SegBytes(i), PageSize) <= ImageSpan
<1>1. TextAddr \in Nat /\ TextAddr < Word /\ Word \in Nat \ {0} /\ PageSize \in Nat \ {0}
      /\ Word % PageSize = 0 /\ PageSize <= Word
  <2>1. PageSize <= Word
    <3>1. TrampReserve \in Nat /\ TrampReserve + PageSize <= Word /\ Word \in Nat /\ PageSize \in Nat
      BY LayoutAssumption
    <3> QED BY <3>1
  <2> QED BY <2>1, TextAddrTyped, LayoutAssumption DEF Address
<1>2. ASSUME NEW i \in DOMAIN Segs, ~ IsGuard(i)
      PROVE  /\ Segs[i].vmaddr \in Nat /\ Segs[i].vmsize \in Nat /\ Segs[i].filesize \in Nat
             /\ Segs[i].vmaddr < Word /\ Segs[i].vmsize < Word
             /\ TextAddr <= Segs[i].vmaddr
             /\ (Segs[i].vmaddr - TextAddr) % PageSize = 0
             /\ Segs[i].filesize <= Segs[i].vmsize
             /\ Segs[i].vmaddr + Segs[i].vmsize + PageSize <= Word
  <2>1. Segs[i] \in Segment
    BY SegTyped
  <2>2. image \in Images /\ i \in DOMAIN image.segs /\ image.segs[i].name # "__PAGEZERO"
    BY <1>2 DEF PlacesTyped, Segs, IsGuard
  <2>3. /\ 0 <= image.segs[i].vmaddr - TextAddr
        /\ (image.segs[i].vmaddr - TextAddr) % PageSize = 0
        /\ image.segs[i].filesize <= image.segs[i].vmsize
        /\ image.segs[i].vmaddr + image.segs[i].vmsize + PageSize <= Word
    BY <2>2 DEF LinkerLayout, TextAddr
  <2>4. Segs = image.segs
    BY DEF Segs
  <2> HIDE DEF Segs
  <2>5. /\ Segs[i].vmaddr \in Nat /\ Segs[i].vmsize \in Nat /\ Segs[i].filesize \in Nat
        /\ Segs[i].vmaddr < Word /\ Segs[i].vmsize < Word
    BY <1>1, <2>1 DEF Segment, Address
  <2> QED BY <1>1, <2>3, <2>4, <2>5
<1>3. PICK high \in Nat :
        /\ TextAddr <= high /\ ImageSpan = Mem!AlignUp(high - TextAddr, PageSize)
        /\ \A i \in DOMAIN Segs : ~ IsGuard(i) => SegEnd(i) <= high
        /\ \/ high = TextAddr
           \/ \E i \in DOMAIN Segs : ~ IsGuard(i) /\ high = SegEnd(i)
  BY SpanTyped
<1>4. ASSUME NEW i \in DOMAIN Segs, ~ IsGuard(i)
      PROVE  SegEnd(i) = Segs[i].vmaddr + Segs[i].vmsize
  <2>1. PICK v, n : v = Segs[i].vmaddr /\ n = Segs[i].vmsize
    OBVIOUS
  <2>2. v \in Nat /\ n \in Nat /\ v + n + PageSize <= Word
    BY <1>2, <1>4, <2>1
  <2>3. v + n < Word
    BY <1>1, <2>2
  <2> QED BY <2>1, <2>3 DEF SegEnd
<1>5. (high - TextAddr) + PageSize <= Word
  <2>1. CASE high = TextAddr
    BY <1>1, <2>1
  <2>2. CASE high # TextAddr
    <3>1. PICK i \in DOMAIN Segs : ~ IsGuard(i) /\ high = SegEnd(i)
      BY <1>3, <2>2
    <3> QED BY <1>1, <1>2, <1>4, <3>1
  <2> QED BY <2>1, <2>2
<1> DEFINE h == high - TextAddr
<1>7. h \in Nat /\ h <= Word - PageSize /\ Word - PageSize \in Nat
  BY <1>1, <1>3, <1>5
<1>8. (Word - PageSize) % PageSize = 0
  <2>1. PageSize % PageSize = 0 /\ PageSize \in Int /\ Word \in Int /\ Word % PageSize = 0
    BY <1>1
  <2> QED BY <2>1, MultipleMinus
<1>9. /\ ImageSpan \in Nat /\ h <= ImageSpan /\ ImageSpan <= Word - PageSize
      /\ ImageSpan % PageSize = 0
  <2> HIDE DEF h
  <2>1. (Word - PageSize) + PageSize <= Word
    BY <1>1
  <2>2. ImageSpan = Mem!AlignUp(h, PageSize)
    BY <1>3 DEF h
  <2> QED BY <1>7, <1>8, <2>1, <2>2, AlignUpFits
<1>10. ASSUME NEW i \in DOMAIN Segs, ~ IsGuard(i)
       PROVE  /\ Segs[i].vmaddr - TextAddr \in Nat
              /\ SegBytes(i) = Segs[i].vmsize
              /\ Mem!AlignUp(SegBytes(i), PageSize) \in Nat
              /\ SegBytes(i) <= Mem!AlignUp(SegBytes(i), PageSize)
              /\ (Segs[i].vmaddr - TextAddr) + Mem!AlignUp(SegBytes(i), PageSize) <= ImageSpan
  <2>1. PICK o, s, f : o = Segs[i].vmaddr - TextAddr /\ s = Segs[i].vmsize /\ f = Segs[i].filesize
    OBVIOUS
  <2>2. o \in Nat /\ s \in Nat /\ f \in Nat /\ f <= s /\ o % PageSize = 0
    BY <1>1, <1>2, <1>10, <2>1
  <2>3. SegBytes(i) = s
    BY <2>1, <2>2 DEF SegBytes, Mem!AtLeast
  <2>4. Segs[i].vmaddr + Segs[i].vmsize <= high /\ Segs[i].vmaddr \in Nat
    BY <1>2, <1>3, <1>4, <1>10
  <2>5. o + s <= h
    <3>1. PICK e : e = Segs[i].vmaddr + Segs[i].vmsize
      OBVIOUS
    <3>2. e <= high
      BY <2>4, <3>1
    <3>3. e = (o + TextAddr) + s
      BY <1>1, <2>1, <2>4, <3>1
    <3> QED BY <1>1, <2>2, <3>2, <3>3
  <2> HIDE DEF h
  <2>6. ImageSpan - o \in Nat /\ s <= ImageSpan - o /\ (ImageSpan - o) + PageSize <= Word
    BY <1>1, <1>7, <1>9, <2>2, <2>5
  <2>7. (ImageSpan - o) % PageSize = 0
    BY <1>9, <2>2, MultipleMinus
  <2>8. /\ Mem!AlignUp(s, PageSize) \in Nat /\ s <= Mem!AlignUp(s, PageSize)
        /\ Mem!AlignUp(s, PageSize) <= ImageSpan - o
    BY <2>2, <2>6, <2>7, AlignUpFits
  <2> QED BY <1>9, <2>1, <2>2, <2>3, <2>8
<1> QED BY <1>10

\* What depends on the image stays with it; a reservation is never given up.
LEMMA SameImage ==
  ASSUME UNCHANGED image
  PROVE  ImageSpan' = ImageSpan /\ TextAddr' = TextAddr /\ Syms' = Syms
BY DEF ImageSpan, SegEnd, TextAddr, Syms, Segs, IsGuard

LEMMA CoveredStays ==
  ASSUME reserved \subseteq reserved', NEW b, NEW n, Covered(b, n)
  PROVE  Covered(b, n)'
BY DEF Covered

Reserving == ReserveImage \/ ReserveTramp \/ ReserveStack

\* After the three reservations the layout is settled, and the load moves on or
\* ends.
LEMMA Settled ==
  ASSUME Next, ~ Reserving
  PROVE  /\ UNCHANGED <<image, reserved, slide, tramp_base, stack_base>>
         /\ step' \notin Early
         /\ step' \in Ended \/ step \notin Early \cup Ended
<1>1. CASE Failure
  BY <1>1 DEF Failure, ReserveAborts, RefuseEncrypted, MapSegmentFails, RebaseFails, BindFails,
         MapStubsFails, ProtectSegmentFails, MapStackFails, NoEntry, Fail, Goto, layout,
         Early, Ended
<1>2. CASE Done
  BY <1>2 DEF Done, MapDone, RebaseDone, BindDone, ProtectDone, Publish, Goto, layout, Early, Ended
<1>3. CASE MapSegment
  BY <1>3 DEF MapSegment, layout, Early, Ended
<1>4. CASE Rebase \/ Bind \/ FillStubs
  BY <1>4 DEF Rebase, Bind, FillStubs, Goto, layout, Early, Ended
<1>5. CASE MapStubs \/ MapStack \/ BuildStack
  BY <1>5 DEF MapStubs, MapStack, BuildStack, Goto, layout, Early, Ended
<1>6. CASE ProtectStubs \/ ProtectSegment
  BY <1>6 DEF ProtectStubs, ProtectSegment, Goto, layout, Early, Ended
<1>7. CASE ProtectStubsRefused \/ ProtectSegmentRefused
  BY <1>7 DEF ProtectStubsRefused, ProtectSegmentRefused, Goto, layout, Early, Ended
<1> QED BY <1>1, <1>2, <1>3, <1>4, <1>5, <1>6, <1>7 DEF Next, Failure, Done, Reserving

\* Only binding gives out stubs.
LEMMA StubsSettled ==
  ASSUME Next, ~ Reserving, ~ Bind
  PROVE  UNCHANGED <<forward, next>>
BY DEF Next, Reserving, ReserveAborts, RefuseEncrypted, MapSegmentFails, RebaseFails, BindFails,
       MapStubsFails, ProtectSegmentFails, MapStackFails, NoEntry, Fail,
       MapDone, RebaseDone, BindDone, ProtectDone, Publish, MapSegment, Rebase, FillStubs,
       MapStubs, MapStack, BuildStack, ProtectStubs, ProtectSegment,
       ProtectStubsRefused, ProtectSegmentRefused, stubs

\* A reservation: one more, below the end of the address space.
LEMMA ReserveEffect ==
  ASSUME Reservations, NEW base \in OsBases, NEW len \in Int, Reserve(base, len)
  PROVE  /\ reserved' \subseteq [base : Address, len : 1 .. Word - 1]
         /\ \A r \in reserved' : r.base + r.len < Word
         /\ reserved \subseteq reserved' /\ [base |-> base, len |-> len] \in reserved'
<1>1. base \in Address /\ len \in 1 .. Word - 1 /\ base + len < Word
  BY LayoutAssumption DEF Reserve, Address
<1>2. [base |-> base, len |-> len] \in [base : Address, len : 1 .. Word - 1]
  BY <1>1
<1> QED BY <1>1, <1>2 DEF Reserve, Reservations

LEMMA ReservingLay ==
  ASSUME Inv, Reservations, StubsAssigned, Reserving
  PROVE  Reservations' /\ StubsAssigned'
<1>1. /\ UNCHANGED <<image, forward>>
      /\ step \in Early
  BY DEF Reserving, ReserveImage, ReserveTramp, ReserveStack, Early, stubs
<1>2. DOMAIN forward = {}
  BY <1>1 DEF StubsAssigned
<1>4. ImageSpan' = ImageSpan /\ TextAddr' = TextAddr /\ Syms' = Syms
  BY <1>1, SameImage
<1>5. /\ ImageSpan \in Int /\ TrampReserve \in Int /\ StackSize \in Int
  <2>1. ImageSpan \in Int
    BY SpanTyped DEF Inv, Typed, Address
  <2>2. TrampReserve \in Nat
    BY LayoutAssumption
  <2>3. StackSize \in Int
    BY LayoutAssumption
  <2> QED BY <2>1, <2>2, <2>3
<1>6. CASE ReserveImage
  <2>1. step = "reserve_image" /\ step' = "reserve_tramp" /\ next' = next
    BY <1>6 DEF ReserveImage, Goto, stubs
  <2>2. PICK base \in OsBases : Reserve(base, ImageSpan) /\ slide' = (base - TextAddr) % Word
    BY <1>6 DEF ReserveImage
  <2>3. /\ reserved' \subseteq [base : Address, len : 1 .. Word - 1]
        /\ \A r \in reserved' : r.base + r.len < Word
        /\ [base |-> base, len |-> ImageSpan] \in reserved'
    BY <1>5, <2>2, ReserveEffect
  <2>4. \E r \in reserved' : r.len = ImageSpan' /\ slide' = (r.base - TextAddr') % Word
    BY <1>4, <2>2, <2>3
  <2>5. Reservations'
    BY <2>1, <2>3, <2>4 DEF Reservations, Early, Ended
  <2>6. StubsAssigned'
    BY <1>1, <1>2, <2>1 DEF StubsAssigned, Early, Ended
  <2> QED BY <2>5, <2>6
<1>7. CASE ReserveTramp
  <2>1. step = "reserve_tramp" /\ step' = "reserve_stack" /\ slide' = slide
    BY <1>7 DEF ReserveTramp, Goto
  <2>2. Reserve(tramp_base', TrampReserve) /\ tramp_base' \in OsBases
    BY <1>7 DEF ReserveTramp
  <2>3. PICK t : t = tramp_base'
    OBVIOUS
  <2>4. /\ reserved' \subseteq [base : Address, len : 1 .. Word - 1]
        /\ \A r \in reserved' : r.base + r.len < Word
        /\ reserved \subseteq reserved' /\ [base |-> t, len |-> TrampReserve] \in reserved'
    BY <1>5, <2>2, <2>3, ReserveEffect
  <2>5. \E r \in reserved : r.len = ImageSpan /\ slide = (r.base - TextAddr) % Word
    BY <2>1 DEF Reservations, Ended
  <2>6. \E r \in reserved' : r.len = ImageSpan' /\ slide' = (r.base - TextAddr') % Word
    BY <1>4, <2>1, <2>4, <2>5
  <2>7. Reservations'
    BY <2>1, <2>3, <2>4, <2>6 DEF Reservations, Early, Ended
  <2>8. StubsAssigned'
    BY <1>1, <1>2, <2>1 DEF StubsAssigned, Early, Ended
  <2> QED BY <2>7, <2>8
<1>8. CASE ReserveStack
  <2>1. step = "reserve_stack" /\ step' = "map" /\ slide' = slide
        /\ tramp_base' = tramp_base /\ next' = tramp_base
    BY <1>8 DEF ReserveStack, Goto
  <2>2. Reserve(stack_base', StackSize) /\ stack_base' \in OsBases
    BY <1>8 DEF ReserveStack
  <2>3. PICK t : t = stack_base'
    OBVIOUS
  <2>4. /\ reserved' \subseteq [base : Address, len : 1 .. Word - 1]
        /\ \A r \in reserved' : r.base + r.len < Word
        /\ reserved \subseteq reserved' /\ [base |-> t, len |-> StackSize] \in reserved'
    BY <1>5, <2>2, <2>3, ReserveEffect
  <2>5. /\ \E r \in reserved : r.len = ImageSpan /\ slide = (r.base - TextAddr) % Word
        /\ [base |-> tramp_base, len |-> TrampReserve] \in reserved
    BY <2>1 DEF Reservations, Ended
  <2>6. \E r \in reserved' : r.len = ImageSpan' /\ slide' = (r.base - TextAddr') % Word
    BY <1>4, <2>1, <2>4, <2>5
  <2>7. Reservations'
    BY <2>1, <2>3, <2>4, <2>5, <2>6 DEF Reservations, Early, Ended
  <2>8. Cardinality(DOMAIN forward) = 0
    BY <1>2, FS_EmptySet
  <2>9. tramp_base' + Stride * Cardinality(DOMAIN forward') = next'
    BY <1>1, <2>1, <2>8, LayoutAssumption DEF Inv, Typed, PlacesTyped, Address
  <2>10. StubsAssigned'
    BY <1>1, <1>2, <2>1, <2>9 DEF StubsAssigned, Early, Ended
  <2> QED BY <2>7, <2>10
<1> QED BY <1>6, <1>7, <1>8 DEF Reserving

\* Binding gives a symbol that has no stub the next one.
LEMMA BindAssigns ==
  ASSUME Typed, StubsAssigned, Bind
  PROVE  StubsAssigned'
<1>1. /\ step = "bind" /\ step' = "bind" /\ idx <= Len(image.binds)
      /\ UNCHANGED <<image, tramp_base>>
  BY DEF Bind, layout
<1>2. Syms' = Syms
  BY <1>1, SameImage
<1> DEFINE sym == image.binds[idx].sym
           c == Cardinality(DOMAIN forward)
<1>3. sym \in Syms
  <2>1. idx \in DOMAIN image.binds
    BY <1>1, ImageAssumption DEF Typed, PlacesTyped
  <2> QED BY <2>1 DEF Syms
<1>4. next = tramp_base + Stride * c
  BY <1>1 DEF StubsAssigned, Early, Ended
<1>5. tramp_base \in Int /\ next \in Int /\ Stride \in Nat \ {0}
  BY LayoutAssumption DEF Typed, PlacesTyped, Address
<1>6. CASE UNCHANGED <<forward, next>>
  BY <1>1, <1>2, <1>6 DEF StubsAssigned, Early, Ended
<1>7. CASE ~ UNCHANGED <<forward, next>>
  <2>1. /\ sym \notin DOMAIN forward
        /\ forward' = [s \in DOMAIN forward \cup {sym} |-> IF s = sym THEN next ELSE forward[s]]
        /\ next' = next + Stride
    BY <1>7 DEF Bind, stubs
  <2>2. DOMAIN forward' = DOMAIN forward \cup {sym}
    BY <2>1
  <2>3. IsFiniteSet(DOMAIN forward) /\ c \in Nat
    BY SymsFinite DEF Typed, PlacesTyped, StubsAssigned
  <2>4. Cardinality(DOMAIN forward \cup {sym}) = c + 1
    BY <2>1, <2>3, FS_AddElement
  <2> HIDE DEF c, sym
  <2>5. Stride * (c + 1) = Stride * c + Stride /\ Stride * c \in Int
    BY <1>5, <2>3
  <2>6. next' = tramp_base + Stride * (c + 1)
    BY <1>4, <1>5, <2>1, <2>5
  <2>7. tramp_base <= next
    <3>1. Stride * c \in Nat
      BY <1>5, <2>3
    <3> QED BY <1>4, <1>5, <3>1
  <2>8. ASSUME NEW s \in DOMAIN forward'
        PROVE  forward'[s] \in Int /\ tramp_base <= forward'[s] /\ forward'[s] + Stride <= next'
    <3>1. CASE s = sym
      BY <1>5, <2>1, <2>2, <2>7, <3>1
    <3>2. CASE s # sym
      <4>1. s \in DOMAIN forward /\ forward'[s] = forward[s]
        BY <2>1, <2>2, <3>2
      <4>2. PICK v : v = forward[s]
        OBVIOUS
      <4>3. v \in Int /\ tramp_base <= v /\ v + Stride <= next
        BY <4>1, <4>2 DEF StubsAssigned
      <4>4. v + Stride <= next'
        BY <1>5, <2>1, <4>3
      <4> QED BY <4>1, <4>2, <4>3, <4>4
    <3> QED BY <3>1, <3>2
  <2>9. DOMAIN forward' \subseteq Syms'
    BY <1>2, <1>3, <2>2 DEF StubsAssigned
  <2> QED BY <1>1, <2>2, <2>4, <2>6, <2>8, <2>9 DEF StubsAssigned, Early, Ended
<1> QED BY <1>6, <1>7

\* A load past the reservations keeps them and the stubs.
LEMMA SettledLay ==
  ASSUME Typed, Reservations, StubsAssigned, Next, ~ Reserving
  PROVE  Reservations' /\ StubsAssigned'
<1>1. /\ UNCHANGED <<image, reserved, slide, tramp_base, stack_base>>
      /\ step' \notin Early
      /\ step' \in Ended \/ step \notin Early \cup Ended
  BY Settled
<1>2. ImageSpan' = ImageSpan /\ TextAddr' = TextAddr /\ Syms' = Syms
  BY <1>1, SameImage
<1>3. Reservations'
  BY <1>1, <1>2 DEF Reservations, Early, Ended
<1>4. CASE Bind
  BY <1>3, <1>4, BindAssigns
<1>5. CASE ~ Bind
  <2>1. UNCHANGED <<forward, next>>
    BY <1>5, StubsSettled
  <2>2. TrampBytes' = TrampBytes
    BY <1>1, <2>1 DEF TrampBytes
  <2>3. step' = "done" => Publish
    BY DEF Next, Reserving, ReserveAborts, RefuseEncrypted, MapSegmentFails, RebaseFails, BindFails,
       MapStubsFails, ProtectSegmentFails, MapStackFails, NoEntry, Fail, Goto,
       MapDone, RebaseDone, BindDone, ProtectDone, MapSegment, Rebase, Bind, FillStubs,
       MapStubs, MapStack, BuildStack, ProtectStubs, ProtectSegment,
       ProtectStubsRefused, ProtectSegmentRefused
  <2>4. step' = "done" => range' = [lo |-> tramp_base', hi |-> tramp_base' + TrampBytes']
    BY <1>1, <2>2, <2>3 DEF Publish
  <2>5. StubsAssigned'
    BY <1>1, <1>2, <2>1, <2>4 DEF StubsAssigned
  <2> QED BY <1>3, <2>5
<1> QED BY <1>4, <1>5

\* A loaded process: the handler's range holds every stub and is reserved.
LEMMA RangeCovers ==
  ASSUME Typed, StubsFit, Reservations, StubsAssigned
  PROVE  StubsPublished
<1> SUFFICES ASSUME step = "done" PROVE StubsPublished
  BY DEF StubsPublished, Loaded
<1>1. step \notin Early \cup Ended
  BY DEF Early, Ended
<1>2. range = [lo |-> tramp_base, hi |-> tramp_base + TrampBytes]
  BY DEF StubsAssigned
<1>3. /\ next <= tramp_base + TrampBytes
      /\ TrampBytes > 0 /\ TrampBytes <= TrampReserve
  BY <1>1, TrampBytesFit
<1>4. tramp_base \in Int /\ next \in Int /\ TrampBytes \in Int /\ Stride \in Nat
  BY TrampBytesTyped, LayoutAssumption DEF Typed, PlacesTyped, Address
<1>5. ASSUME NEW s \in DOMAIN forward
      PROVE  range.lo <= forward[s] /\ forward[s] + Stride <= range.hi
  <2>1. PICK v : v = forward[s]
    OBVIOUS
  <2>2. v \in Int /\ tramp_base <= v /\ v + Stride <= next
    BY <2>1 DEF StubsAssigned
  <2>3. v + Stride <= tramp_base + TrampBytes
    BY <1>3, <1>4, <2>2
  <2> QED BY <1>2, <2>1, <2>2, <2>3
<1>6. Covered(range.lo, range.hi - range.lo)
  <2>1. range.lo = tramp_base /\ range.hi - range.lo = TrampBytes
    BY <1>2, <1>4
  <2>2. [base |-> tramp_base, len |-> TrampReserve] \in reserved
    BY <1>1 DEF Reservations, Early
  <2>3. TrampReserve \in Nat
    BY LayoutAssumption
  <2>4. tramp_base <= tramp_base /\ tramp_base + TrampBytes <= tramp_base + TrampReserve
    BY <1>3, <1>4, <2>3
  <2> QED BY <2>1, <2>2, <2>4 DEF Covered
<1> QED BY <1>5, <1>6 DEF StubsPublished

LEMMA InitLay ==
  ASSUME Init
  PROVE  Reservations /\ StubsAssigned /\ Inside
<1>1. /\ step = "reserve_image" /\ reserved = {} /\ forward = << >> /\ host = << >>
      /\ stray = FALSE
  BY DEF Init
<1>2. DOMAIN forward = {} /\ DOMAIN host = {}
  BY <1>1
<1>3. Reservations /\ StubsAssigned
  BY <1>1, <1>2 DEF Reservations, StubsAssigned, Early, Ended
<1> QED BY <1>1, <1>2, <1>3 DEF Inside

LEMMA LayStep ==
  ASSUME Inv, Reservations, StubsAssigned, [Next]_vars
  PROVE  Reservations' /\ StubsAssigned'
<1>1. CASE Next /\ Reserving
  BY <1>1, ReservingLay
<1>2. CASE Next /\ ~ Reserving
  BY <1>2, SettledLay DEF Inv
<1>3. CASE UNCHANGED vars
  <2>1. UNCHANGED <<image, step, reserved, slide, tramp_base, stack_base, forward, next, range>>
    BY <1>3 DEF vars, layout, stubs
  <2>2. /\ ImageSpan' = ImageSpan /\ TextAddr' = TextAddr /\ Syms' = Syms
        /\ TrampBytes' = TrampBytes
    BY <2>1, SameImage DEF TrampBytes
  <2> QED BY <2>1, <2>2 DEF Reservations, StubsAssigned
<1> QED BY <1>1, <1>2, <1>3

\* The range that the trap handler is told holds every stub that a pointer of the
\* image may hold, and lies in the reservation, for every image whose imports fit.
THEOREM StubsArePublished == StubsFit /\ Spec => []StubsPublished
<1> DEFINE J == Inv /\ StubsFit /\ Reservations /\ StubsAssigned
<1>1. StubsFit /\ Init => J
  BY InitInv, InitLay
<1>2. J /\ [Next]_vars => J'
  BY InvStep, LayStep
<1>3. J => StubsPublished
  BY RangeCovers DEF Inv
<1> QED BY <1>1, <1>2, <1>3, PTL DEF Spec

-----------------------------------------------------------------------------
(* Copies stay in the reservations *)

\* The slide takes a segment to its place in the reservation.
LEMMA SlidePlaces ==
  ASSUME NEW v \in Address, NEW t \in Address, NEW b \in Address, v - t \in Nat,
         b + (v - t) < Word
  PROVE  (v + ((b - t) % Word)) % Word = b + (v - t)
<1>1. Word \in Nat \ {0}
  BY LayoutAssumption
<1>2. CASE t <= b
  <2>1. (b - t) % Word = b - t
    BY <1>1, <1>2 DEF Address
  <2> QED BY <1>1, <1>2, <2>1 DEF Address
<1>3. CASE ~ (t <= b)
  <2>1. (b - t) % Word = b - t + Word
    BY <1>1, <1>3 DEF Address
  <2>2. v + (b - t + Word) = (b + (v - t)) + Word
    BY <1>1 DEF Address
  <2>3. PICK x \in Nat : x = b + (v - t) /\ x < Word
    BY <1>1 DEF Address
  <2>4. (x + Word) % Word = x
    BY <1>1, <2>3
  <2> QED BY <2>1, <2>2, <2>3, <2>4
<1> QED BY <1>2, <1>3

\* A segment that map_with_data maps lies in the image's reservation.
LEMMA SegmentInside ==
  ASSUME PlacesTyped, LinkerLayout, Reservations, step \notin Early \cup Ended,
         NEW i \in DOMAIN Segs, ~ IsGuard(i)
  PROVE  Covered(SegBase(i), Mem!AlignUp(SegBytes(i), PageSize))
<1>1. PICK r \in reserved : r.len = ImageSpan /\ slide = (r.base - TextAddr) % Word
  BY DEF Reservations, Early, Ended
<1>2. PICK b, v, t, n : b = r.base /\ v = Segs[i].vmaddr /\ t = TextAddr
                        /\ n = Mem!AlignUp(SegBytes(i), PageSize)
  OBVIOUS
<1>3. b \in Address /\ v \in Address /\ t \in Address
  BY <1>2, SegTyped, TextAddrTyped DEF Reservations, Segment
<1>4. v - t \in Nat /\ n \in Nat /\ (v - t) + n <= ImageSpan /\ b + ImageSpan < Word
      /\ ImageSpan \in Nat
  BY <1>1, <1>2, SpanCovers, SpanTyped DEF Reservations, Address
<1>5. b + (v - t) < Word /\ b <= b + (v - t) /\ (b + (v - t)) + n <= b + ImageSpan
  BY <1>3, <1>4, LayoutAssumption DEF Address
<1>6. SegBase(i) = b + (v - t)
  <2>1. SegBase(i) = (v + ((b - t) % Word)) % Word
    BY <1>1, <1>2 DEF SegBase
  <2> QED BY <1>3, <1>4, <1>5, <2>1, SlidePlaces
<1> QED BY <1>1, <1>2, <1>5, <1>6 DEF Covered

\* Rounding a whole number of pages changes nothing.
LEMMA WholePages ==
  ASSUME NEW n \in Nat, n > 0, n % PageSize = 0, n + PageSize <= Word
  PROVE  Mem!AlignUp(Mem!AtLeast(n, 1), PageSize) = n
<1>1. Mem!AtLeast(n, 1) = n
  BY DEF Mem!AtLeast
<1>2. n <= Mem!AlignUp(n, PageSize) /\ Mem!AlignUp(n, PageSize) <= n
      /\ Mem!AlignUp(n, PageSize) \in Nat
  BY AlignUpFits
<1> QED BY <1>1, <1>2

\* What a step may do to the mirrors without leaving the reservations.
LEMMA InsideKept ==
  ASSUME Inv, Inside, reserved \subseteq reserved', ~ stray', DOMAIN host' \subseteq DOMAIN host,
         \A x \in DOMAIN regions : regions'[x].size = regions[x].size
  PROVE  Inside'
<1>1. ASSUME NEW b \in DOMAIN host'
      PROVE  Covered(b, regions[b].size)' /\ regions'[b].size = regions[b].size
  <2>1. b \in DOMAIN regions /\ Covered(b, regions[b].size)
    BY DEF Inv, Typed, MirrorsTyped, Inside
  <2>2. PICK n : n = regions[b].size /\ n = regions'[b].size
    BY <2>1
  <2>3. Covered(b, n)'
    BY <2>1, <2>2, CoveredStays
  <2> QED BY <2>2, <2>3 DEF Covered
<1> QED BY <1>1 DEF Inside

LEMMA InsideMapped ==
  ASSUME Inv, Inside, reserved \subseteq reserved', UNCHANGED stray,
         NEW b, NEW n, NEW k, Mapped(b), regions' = Mem!Insert(b, Mem!Region(n, RW, k)),
         Covered(b, n)
  PROVE  Inside'
<1>1. ASSUME NEW x \in DOMAIN host'
      PROVE  Covered(x, regions[x].size)'
  <2>1. PICK m : m = regions'[x].size
    OBVIOUS
  <2>2. Covered(x, m)
    <3>1. CASE x = b
      <4>1. m = n
        BY <2>1, <3>1 DEF Mem!Insert, Mem!Region
      <4> QED BY <3>1, <4>1
    <3>2. CASE x # b
      <4>1. x \in DOMAIN host /\ x \in DOMAIN regions
        BY <3>2 DEF Mapped, Inv, Typed, MirrorsTyped
      <4>2. regions'[x] = regions[x]
        BY <3>2, <4>1 DEF Mapped
      <4> QED BY <2>1, <4>1, <4>2 DEF Inside
    <3> QED BY <3>1, <3>2
  <2>3. Covered(x, m)'
    BY <2>2, CoveredStays
  <2> QED BY <2>1, <2>3 DEF Covered
<1> QED BY <1>1 DEF Inside

\* A copy of a region that lies in a reservation strays nowhere.
LEMMA CopyInside ==
  ASSUME Inside, NEW b \in DOMAIN host,
         stray' = (stray \/ ~ Covered(b, regions[b].size))
  PROVE  ~ stray'
<1>1. Covered(b, regions[b].size) /\ ~ stray
  BY DEF Inside
<1> QED BY <1>1

LEMMA InsideStep ==
  ASSUME Inv, StubsFit, LinkerLayout, Reservations, StubsAssigned, Inside, [Next]_vars
  PROVE  Inside'
<1>1. CASE Reserving
  <2>1. UNCHANGED <<regions, host, stray>> /\ step \in Early
    BY <1>1 DEF Reserving, ReserveImage, ReserveTramp, ReserveStack, memory, mirror, Early
  <2>2. DOMAIN host' = {}
    BY <2>1 DEF Inv, Placed, Early
  <2> QED BY <2>1, <2>2 DEF Inside
<1>2. CASE UNCHANGED vars
  <2>1. UNCHANGED <<regions, host, stray, reserved>>
    BY <1>2 DEF vars, memory, mirror, layout
  <2> QED BY <2>1, InsideKept DEF Inside
<1> SUFFICES ASSUME Next, ~ Reserving PROVE Inside'
  BY <1>1, <1>2
<1>3. reserved' = reserved /\ (step' \in Ended \/ step \notin Early \cup Ended)
  BY Settled
<1>4. CASE Failure
  <2>1. UNCHANGED <<regions, host, stray>>
    BY <1>4 DEF Failure, ReserveAborts, RefuseEncrypted, MapSegmentFails, RebaseFails, BindFails,
           MapStubsFails, ProtectSegmentFails, MapStackFails, NoEntry, Fail, memory, mirror
  <2> QED BY <1>3, <2>1, InsideKept DEF Inside
<1>5. CASE Done
  <2>1. UNCHANGED <<regions, host, stray>>
    BY <1>5 DEF Done, MapDone, RebaseDone, BindDone, ProtectDone, Publish, memory, mirror
  <2> QED BY <1>3, <2>1, InsideKept DEF Inside
<1>6. CASE Rebase \/ Bind \/ FillStubs
  <2>1. UNCHANGED <<regions, stray>> /\ DOMAIN host' = DOMAIN host
    BY <1>6, WriteStep DEF Rebase, Bind, FillStubs
  <2> QED BY <1>3, <2>1, InsideKept DEF Inside
<1>7. CASE MapSegment
  <2>1. stray' = stray /\ step = "map"
    BY <1>7 DEF MapSegment, mirror
  <2>2. CASE IsGuard(idx)
    <3>1. UNCHANGED <<regions, host>>
      BY <1>7, <2>2 DEF MapSegment, memory, mirror
    <3> QED BY <1>3, <2>1, <3>1, InsideKept DEF Inside
  <2>3. CASE ~ IsGuard(idx)
    <3>1. idx \in DOMAIN Segs /\ Mapped(SegBase(idx))
      BY <1>7, <2>3, MapSegmentMaps DEF Inv
    <3>2. Covered(SegBase(idx), Mem!AlignUp(SegBytes(idx), PageSize))
      BY <2>1, <2>3, <3>1, SegmentInside DEF Inv, Typed, Early, Ended
    <3>3. regions' = Mem!Insert(SegBase(idx),
                       Mem!Region(Mem!AlignUp(SegBytes(idx), PageSize), RW, "Segment"))
      BY <1>7, <2>3 DEF MapSegment, Mem!MapWithData, SegBytes
    <3> QED BY <1>3, <2>1, <3>1, <3>2, <3>3, InsideMapped
  <2> QED BY <2>2, <2>3
<1>8. CASE MapStubs
  <2>1. stray' = stray /\ Mapped(tramp_base) /\ step = "stubs"
    BY <1>8, MapStubsStep DEF MapStubs
  <2>2. /\ TrampBytes > 0 /\ TrampBytes <= TrampReserve /\ TrampBytes % PageSize = 0
        /\ TrampBytes \in Nat
    BY <2>1, TrampBytesFit, TrampBytesTyped DEF Inv, Early, Ended
  <2>3. TrampReserve \in Nat /\ TrampReserve + PageSize <= Word /\ PageSize \in Nat /\ Word \in Nat
    BY LayoutAssumption
  <2>4. Mem!AlignUp(Mem!AtLeast(TrampBytes, 1), PageSize) = TrampBytes
    BY <2>2, <2>3, WholePages
  <2>5. [base |-> tramp_base, len |-> TrampReserve] \in reserved /\ tramp_base \in Nat
    BY <2>1 DEF Reservations, Early, Ended, Inv, Typed, PlacesTyped, Address
  <2>6. Covered(tramp_base, TrampBytes)
    BY <2>2, <2>3, <2>5 DEF Covered
  <2>7. regions' = Mem!Insert(tramp_base, Mem!Region(TrampBytes, RW, "Segment"))
    BY <1>8, <2>4 DEF MapStubs, Mem!Map
  <2> QED BY <1>3, <2>1, <2>6, <2>7, InsideMapped
<1>9. CASE MapStack
  <2>1. stray' = stray /\ Mapped(stack_base) /\ step = "stack"
    BY <1>9, MapStackStep DEF MapStack
  <2>2. StackSize \in Nat /\ StackSize > 0 /\ StackSize % PageSize = 0 /\ StackSize + PageSize <= Word
    BY LayoutAssumption
  <2>3. Mem!AlignUp(Mem!AtLeast(StackSize, 1), PageSize) = StackSize
    BY <2>2, WholePages
  <2>4. [base |-> stack_base, len |-> StackSize] \in reserved /\ stack_base \in Nat
    BY <2>1 DEF Reservations, Early, Ended, Inv, Typed, PlacesTyped, Address
  <2>5. Covered(stack_base, StackSize)
    BY <2>2, <2>4 DEF Covered
  <2>6. regions' = Mem!Insert(stack_base, Mem!Region(StackSize, RW, "Stack"))
    BY <1>9, <2>3 DEF MapStack, Mem!Map
  <2> QED BY <1>3, <2>1, <2>5, <2>6, InsideMapped
<1>10. CASE BuildStack
  <2>1. /\ step = "build_stack" /\ regions' = regions /\ DOMAIN host' = DOMAIN host
        /\ stray' = (stray \/ ~ Covered(stack_base, StackSize))
    BY <1>10, BuildStackStep DEF BuildStack, CommitToNative
  <2>2. [base |-> stack_base, len |-> StackSize] \in reserved /\ stack_base \in Nat /\ StackSize \in Nat
    BY <2>1, LayoutAssumption DEF Reservations, Early, Ended, Inv, Typed, PlacesTyped, Address
  <2>3. Covered(stack_base, StackSize)
    BY <2>2 DEF Covered
  <2>4. ~ stray'
    BY <2>1, <2>3 DEF Inside
  <2> QED BY <1>3, <2>1, <2>4, InsideKept
<1>11. CASE ProtectStubs
  <2>1. /\ Protected(tramp_base, RX) /\ step = "protect_stubs"
        /\ stray' = (stray \/ ~ Covered(tramp_base, regions[tramp_base].size))
    BY <1>11, ProtectStubsStep DEF ProtectStubs, NativeProtect
  <2>2. tramp_base \in DOMAIN host
    BY <2>1 DEF Inv, Placed
  <2>3. ~ stray'
    BY <2>1, <2>2, CopyInside
  <2> QED BY <1>3, <2>1, <2>3, InsideKept DEF Protected
<1>12. CASE ProtectSegment
  <2>1. CASE IsGuard(idx)
    <3>1. UNCHANGED <<regions, host, stray>>
      BY <1>12, <2>1 DEF ProtectSegment, memory, mirror
    <3> QED BY <1>3, <3>1, InsideKept DEF Inside
  <2>2. CASE ~ IsGuard(idx)
    <3>1. SegBase(idx) \in DOMAIN host /\ Protected(SegBase(idx), FinalProt(idx))
      BY <1>12, <2>2, ProtectSegmentStep
    <3>2. stray' = (stray \/ ~ Covered(SegBase(idx), regions[SegBase(idx)].size))
      BY <1>12, <2>2 DEF ProtectSegment, NativeProtect
    <3>3. ~ stray'
      BY <3>1, <3>2, CopyInside
    <3> QED BY <1>3, <3>1, <3>3, InsideKept DEF Protected
  <2> QED BY <2>1, <2>2
<1>13. CASE ProtectStubsRefused
  <2>1. /\ step = "protect_stubs" /\ Mem!Protect(tramp_base, RX) /\ NativeProtectRefused(tramp_base)
        /\ stray' = (stray \/ ~ Covered(tramp_base, regions[tramp_base].size))
    BY <1>13 DEF ProtectStubsRefused, NativeProtectRefused
  <2>2. tramp_base \in DOMAIN host /\ RX \in SUBSET Flags
    BY <2>1 DEF Inv, Placed, RX, Flags
  <2>3. ~ stray' /\ Refused(tramp_base, RX)
    BY <2>1, <2>2, CopyInside, ProtectRefused DEF Inv
  <2> QED BY <1>3, <2>3, InsideKept DEF Refused
<1>14. CASE ProtectSegmentRefused
  <2>1. /\ step = "protect" /\ idx <= Len(Segs) /\ ~ IsGuard(idx)
        /\ Mem!Protect(SegBase(idx), FinalProt(idx)) /\ NativeProtectRefused(SegBase(idx))
        /\ stray' = (stray \/ ~ Covered(SegBase(idx), regions[SegBase(idx)].size))
    BY <1>14 DEF ProtectSegmentRefused, NativeProtectRefused
  <2>2. idx \in DOMAIN Segs
    BY <2>1, AllSegs DEF Inv, Typed
  <2>3. SegBase(idx) \in DOMAIN host /\ FinalProt(idx) \in SUBSET Flags
    BY <2>1, <2>2, SegTyped DEF Inv, Typed, Placed, SegBases
  <2>4. ~ stray' /\ Refused(SegBase(idx), FinalProt(idx))
    BY <2>1, <2>3, CopyInside, ProtectRefused DEF Inv
  <2> QED BY <1>3, <2>4, InsideKept DEF Refused
<1> QED BY <1>4, <1>5, <1>6, <1>7, <1>8, <1>9, <1>10, <1>11, <1>12, <1>13, <1>14
        DEF Next, Failure, Done, Reserving

\* A set of numbers has a least one.
LEMMA LeastExists ==
  ASSUME NEW S, S \subseteq Nat, S # {}
  PROVE  \E m \in S : \A x \in S : m <= x
<1> DEFINE R == OpToRel(<, Nat)
<1>1. IsWellFoundedOn(R, Nat)
  BY NatLessThanWellFounded
<1>2. PICK m \in S : \A y \in S : ~ (<<y, m>> \in R)
  <2> HIDE DEF R
  <2> QED BY <1>1, WFMin
<1>3. \A x \in S : m <= x
  <2> SUFFICES ASSUME NEW x \in S PROVE m <= x
    OBVIOUS
  <2>1. ~ (x < m)
    BY <1>2 DEF OpToRel
  <2> QED BY <2>1
<1> QED BY <1>3

\* What holds at 0 and is handed on holds up to n.
LEMMA Climb ==
  ASSUME NEW n \in Nat, NEW S, 0 \in S, \A k \in 1 .. n : k - 1 \in S => k \in S
  PROVE  0 .. n \subseteq S
<1> DEFINE T == (0 .. n) \ S
<1> SUFFICES ASSUME T # {} PROVE FALSE
  OBVIOUS
<1>1. PICK m \in T : \A x \in T : m <= x
  <2>1. T \subseteq Nat
    OBVIOUS
  <2> HIDE DEF T
  <2> QED BY <2>1, LeastExists
<1>2. m # 0 /\ m \in 1 .. n
  OBVIOUS
<1>3. m - 1 \notin T
  BY <1>1, <1>2
<1> QED BY <1>2, <1>3

\* A each function can be iterated n times.
Iterable(n, X, a, each) ==
  \E g \in [0 .. n -> X] : g[0] = a /\ \A k \in 1 .. n : g[k] = each[k][g[k - 1]]
LEMMA Iterates ==
  ASSUME NEW n \in Nat, NEW X, NEW a \in X, NEW each \in [1 .. n -> [X -> X]]
  PROVE  Iterable(n, X, a, each)
<1> DEFINE Up(m, g) == g[0] = a /\ \A k \in 1 .. m : g[k] = each[k][g[k - 1]]
           S == {m \in 0 .. n : \E g \in [0 .. m -> X] : Up(m, g)}
<1>1. 0 \in S
  <2> DEFINE g == [k \in 0 .. 0 |-> a]
  <2>1. g \in [0 .. 0 -> X] /\ g[0] = a /\ 1 .. 0 = {}
    OBVIOUS
  <2>2. Up(0, g)
    <3> HIDE DEF g
    <3> QED BY <2>1
  <2> HIDE DEF g, Up
  <2> QED BY <2>1, <2>2
<1>2. ASSUME NEW k \in 1 .. n, k - 1 \in S PROVE k \in S
  <2>1. PICK f \in [0 .. k - 1 -> X] : Up(k - 1, f)
    BY <1>2
  <2> DEFINE g == [i \in 0 .. k |-> IF i = k THEN each[k][f[k - 1]] ELSE f[i]]
  <2>2. f[k - 1] \in X
    OBVIOUS
  <2>3. g \in [0 .. k -> X] /\ g[k] = each[k][f[k - 1]] /\ \A i \in 0 .. k - 1 : g[i] = f[i]
    BY <2>2
  <2> HIDE DEF g
  <2>4. g[0] = a
    BY <2>1, <2>3
  <2>5. ASSUME NEW i \in 1 .. k PROVE g[i] = each[i][g[i - 1]]
    <3>1. g[i - 1] = f[i - 1]
      BY <2>3
    <3>2. CASE i = k
      BY <3>1, <3>2, <2>3
    <3>3. CASE i # k
      <4>1. i \in 1 .. k - 1 /\ g[i] = f[i]
        BY <3>3, <2>3
      <4> QED BY <3>1, <4>1, <2>1
    <3> QED BY <3>2, <3>3
  <2>6. Up(k, g)
    BY <2>4, <2>5
  <2> HIDE DEF Up
  <2> QED BY <2>3, <2>6
<1>3. n \in S
  <2> HIDE DEF S
  <2>1. 0 .. n \subseteq S
    BY <1>1, <1>2, Climb
  <2> QED BY <2>1
<1> QED BY <1>3 DEF Iterable

-----------------------------------------------------------------------------
(* parse_rebase_info *)

Location == [seg : Nat, off : Nat, rtype : Nat]
Decoding == [ok : BOOLEAN, seg : Nat, off : Nat, rtype : Nat, out : Seq(Location)]

\* times locations behind one another.
LEMMA EmitTyped ==
  ASSUME NEW d \in Decoding, NEW times \in Nat, NEW skip \in Nat
  PROVE  Dyld!Emit(d, times, skip) \in Decoding
<1> DEFINE Off(i) == (d.off + (i - 1) * (1 + skip)) % Word
           new == [i \in 1 .. times |-> [seg |-> d.seg, off |-> Off(i), rtype |-> d.rtype]]
           off == (d.off + times * (1 + skip)) % Word
<1>1. /\ d.ok \in BOOLEAN /\ d.seg \in Nat /\ d.off \in Nat /\ d.rtype \in Nat
      /\ d.out \in Seq(Location) /\ Word \in Nat \ {0}
  BY LayoutAssumption DEF Decoding
<1>2. ASSUME NEW i \in 1 .. times PROVE Off(i) \in Nat
  <2>1. PICK v \in Int : v = d.off + (i - 1) * (1 + skip)
    BY <1>1
  <2>2. v % Word \in Nat
    BY <1>1, ModAddress DEF Address
  <2> QED BY <2>1, <2>2
<1>3. off \in Nat
  <2>1. PICK v \in Int : v = d.off + times * (1 + skip)
    BY <1>1
  <2>2. v % Word \in Nat
    BY <1>1, ModAddress DEF Address
  <2> QED BY <2>1, <2>2
<1>4. new \in [1 .. times -> Location]
  <2> HIDE DEF Off
  <2> QED BY <1>1, <1>2 DEF Location
<1>5. new \in Seq(Location)
  <2> HIDE DEF new
  <2> QED BY <1>4
<1>6. d.out \o new \in Seq(Location)
  <2> HIDE DEF new
  <2> QED BY <1>1, <1>5
<1>7. Dyld!Emit(d, times, skip) = [[d EXCEPT !.out = @ \o new] EXCEPT !.off = (@ + times * (1 + skip)) % Word]
  BY DEF Dyld!Emit, Dyld!AddAddr, Dyld!Ptr
<1>8. [d EXCEPT !.out = @ \o new] \in Decoding /\ [d EXCEPT !.out = @ \o new].off = d.off
  <2> HIDE DEF new
  <2> QED BY <1>1, <1>6 DEF Decoding
<1> HIDE DEF new
<1> QED BY <1>3, <1>7, <1>8 DEF Decoding

\* One opcode.
LEMMA DecodeTyped ==
  ASSUME NEW d \in Decoding, NEW o \in Dyld!Opcode
  PROVE  Dyld!Decode(d, o) \in Decoding
<1>1. o.a \in Nat /\ o.b \in Nat
  BY DEF Dyld!Opcode
<1>2. d.off \in Nat /\ Word \in Nat \ {0}
  BY LayoutAssumption DEF Decoding
<1>3. \A x \in Nat : Dyld!AddAddr(d, x) \in Decoding
  <2> SUFFICES ASSUME NEW x \in Nat PROVE Dyld!AddAddr(d, x) \in Decoding
    OBVIOUS
  <2>1. (d.off + x) % Word \in Nat
    BY <1>2, ModAddress DEF Address
  <2> QED BY <2>1 DEF Dyld!AddAddr, Decoding
<1>4. \A x, y \in Nat : Dyld!Emit(d, x, y) \in Decoding
  BY EmitTyped
<1>5. [d EXCEPT !.rtype = o.a] \in Decoding /\ [d EXCEPT !.seg = o.a, !.off = o.b] \in Decoding
  BY <1>1 DEF Decoding
<1>6. [d EXCEPT !.ok = FALSE] \in Decoding
  BY DEF Decoding
<1>7. o.a * Dyld!Ptr \in Nat
  BY <1>1 DEF Dyld!Ptr
<1>8. \/ Dyld!Decode(d, o) \in {d, [d EXCEPT !.rtype = o.a], [d EXCEPT !.seg = o.a, !.off = o.b],
                               [d EXCEPT !.ok = FALSE]}
      \/ Dyld!Decode(d, o) \in {Dyld!AddAddr(d, o.a), Dyld!AddAddr(d, o.a * Dyld!Ptr)}
      \/ Dyld!Decode(d, o) \in {Dyld!Emit(d, o.a, 0), Dyld!Emit(d, 1, o.a), Dyld!Emit(d, o.a, o.b)}
  BY DEF Dyld!Decode
<1> QED BY <1>1, <1>3, <1>4, <1>5, <1>6, <1>7, <1>8

\* The loop over the opcodes is what its body says, and keeps its types.
LEMMA DecodedTyped ==
  ASSUME NEW s \in Seq(Dyld!Opcode)
  PROVE  Dyld!Decoded(s) \in [0 .. Len(s) -> Decoding]
<1> DEFINE n == Len(s)
           E(f) == f = [k \in 0 .. Len(s) |->
                          IF k = 0 THEN Dyld!Start ELSE Dyld!Decode(f[k - 1], s[k])]
           each == [k \in 1 .. n |-> [x \in Decoding |-> Dyld!Decode(x, s[k])]]
<1>1. n \in Nat /\ \A k \in 1 .. n : s[k] \in Dyld!Opcode
  OBVIOUS
<1>2. Dyld!Start \in Decoding
  BY DEF Dyld!Start, Decoding, Dyld!REBASE_TYPE_POINTER
<1>3. each \in [1 .. n -> [Decoding -> Decoding]]
  BY <1>1, DecodeTyped
<1>4. \A k \in 1 .. n, x \in Decoding : each[k][x] = Dyld!Decode(x, s[k])
  OBVIOUS
<1>5. PICK g \in [0 .. n -> Decoding] :
        g[0] = Dyld!Start /\ \A k \in 1 .. n : g[k] = each[k][g[k - 1]]
  <2> HIDE DEF n, each
  <2>1. Iterable(n, Decoding, Dyld!Start, each)
    BY <1>1, <1>2, <1>3, Iterates
  <2> QED BY <2>1 DEF Iterable
<1>6. ASSUME NEW k \in 1 .. n PROVE g[k] = Dyld!Decode(g[k - 1], s[k])
  <2>1. k - 1 \in 0 .. n
    OBVIOUS
  <2>2. g[k - 1] \in Decoding
    BY <2>1
  <2> QED BY <1>4, <1>5, <2>2, Zenon
<1>7. E(g)
  BY <1>1, <1>5, <1>6
<1>8. Dyld!Decoded(s) = CHOOSE f : E(f)
  BY Zenon DEF Dyld!Decoded
<1>9. E(Dyld!Decoded(s))
  <2> HIDE DEF E
  <2> QED BY <1>7, <1>8, Zenon
<1> DEFINE N == Dyld!Decoded(s)
<1>10. N = [k \in 0 .. n |-> IF k = 0 THEN Dyld!Start ELSE Dyld!Decode(N[k - 1], s[k])]
  BY <1>9
<1> HIDE DEF N
<1>11. N[0] = Dyld!Start /\ \A k \in 1 .. n : N[k] = Dyld!Decode(N[k - 1], s[k])
  <2> HIDE DEF n
  <2>1. N[0] = Dyld!Start
    BY <1>1, <1>10
  <2>2. ASSUME NEW k \in 1 .. n PROVE N[k] = Dyld!Decode(N[k - 1], s[k])
    <3>1. k \in 0 .. n /\ k # 0
      BY <1>1
    <3> QED BY <1>10, <3>1
  <2> QED BY <2>1, <2>2
<1>12. \A k \in 0 .. n : N[k] \in Decoding
  <2> DEFINE S == {k \in 0 .. n : N[k] \in Decoding}
  <2> HIDE DEF n
  <2>1. 0 \in S
    BY <1>1, <1>2, <1>11
  <2>2. ASSUME NEW k \in 1 .. n, k - 1 \in S PROVE k \in S
    <3>1. Dyld!Decode(N[k - 1], s[k]) \in Decoding
      BY <1>1, <2>2, DecodeTyped
    <3>2. N[k] \in Decoding
      BY <1>11, <3>1
    <3> QED BY <1>1, <3>2
  <2>3. 0 .. n \subseteq S
    <3> HIDE DEF S
    <3> QED BY <1>1, <2>1, <2>2, Climb
  <2> QED BY <2>3
<1> QED BY <1>10, <1>12 DEF N

\* parse_rebase_info returns a list of locations, whatever the stream.
LEMMA StreamsDecode ==
  ASSUME NEW i \in Images
  PROVE  Parsed[i.rebase].out \in Seq(Location)
<1> DEFINE s == i.rebase
<1>1. s \in Seq(Dyld!Opcode)
  BY StreamAssumption
<1>2. Parsed[s] = Dyld!Decoded(s)[Len(s)]
  BY DEF Parsed, Dyld!ParseRebaseInfo
<1> HIDE DEF s
<1>3. Len(s) \in 0 .. Len(s)
  BY <1>1
<1>4. Parsed[s] \in Decoding
  BY <1>1, <1>2, <1>3, DecodedTyped
<1> QED BY <1>4 DEF Decoding, s

\* How far each loop of the load has come.
Counting ==
  /\ step \in {"map", "protect"} => idx <= Len(Segs) + 1
  /\ step = "rebase" => idx <= Len(Rebases.out) + 1
  /\ step = "bind" => idx <= Len(image.binds) + 1
  /\ step \notin {"map", "protect", "rebase", "bind"} => idx = 1

LEMMA Lengths ==
  ASSUME PlacesTyped
  PROVE  Len(Segs) \in Nat /\ Len(Rebases.out) \in Nat /\ Len(image.binds) \in Nat
<1>1. Segs \in Seq(Segment) /\ image.binds \in Seq([loc : image.slots, sym : STRING])
  BY ImageAssumption DEF PlacesTyped, Segs
<1>2. Rebases.out \in Seq([seg : Nat, off : Nat, rtype : Nat])
  BY StreamsDecode DEF PlacesTyped, Rebases, Location
<1> QED BY <1>1, <1>2

LEMMA CountingStep ==
  ASSUME PlacesTyped, Counting, [Next]_vars
  PROVE  Counting'
<1>1. Len(Segs) \in Nat /\ Len(Rebases.out) \in Nat /\ Len(image.binds) \in Nat
      /\ idx \in Nat
  BY Lengths DEF PlacesTyped
<1>2. image' = image
  <2>1. CASE Next /\ ~ Reserving
    BY <2>1, Settled
  <2>2. CASE Reserving
    BY <2>2 DEF Reserving, ReserveImage, ReserveTramp, ReserveStack
  <2> QED BY <2>1, <2>2 DEF vars
<1>3. /\ Len(Segs)' = Len(Segs) /\ Len(Rebases.out)' = Len(Rebases.out)
      /\ Len(image.binds)' = Len(image.binds)
  BY <1>2 DEF Segs, Rebases
<1>4. CASE idx' = 1
  BY <1>1, <1>3, <1>4 DEF Counting
<1>5. CASE UNCHANGED vars
  BY <1>3, <1>5 DEF vars, Counting
<1>6. CASE MapSegment \/ ProtectSegment
  <2>1. step \in {"map", "protect"} /\ step' = step /\ idx <= Len(Segs) /\ idx' = idx + 1
    BY <1>6 DEF MapSegment, ProtectSegment
  <2> QED BY <1>1, <1>3, <2>1 DEF Counting
<1>7. CASE Rebase
  <2>1. step = "rebase" /\ step' = step /\ idx <= Len(Rebases.out) /\ idx' = idx + 1
    BY <1>7 DEF Rebase
  <2> QED BY <1>1, <1>3, <2>1 DEF Counting
<1>8. CASE Bind
  <2>1. step = "bind" /\ step' = step /\ idx <= Len(image.binds) /\ idx' = idx + 1
    BY <1>8 DEF Bind
  <2> QED BY <1>1, <1>3, <2>1 DEF Counting
<1>9. Next => \/ MapSegment \/ ProtectSegment \/ Rebase \/ Bind
              \/ idx' = 1
  BY DEF Next, ReserveImage, ReserveTramp, ReserveStack, ReserveAborts, RefuseEncrypted,
     MapSegmentFails, RebaseFails, BindFails, MapStubsFails, ProtectSegmentFails,
     MapStackFails, NoEntry, Fail, Goto, MapDone, RebaseDone, BindDone, ProtectDone, Publish,
     FillStubs, MapStubs, MapStack, BuildStack, ProtectStubs,
     ProtectStubsRefused, ProtectSegmentRefused
<1> QED BY <1>4, <1>5, <1>6, <1>7, <1>8, <1>9

LEMMA CountingTypes ==
  ASSUME Inv, Counting, Reservations
  PROVE  TypeOK
<1> DEFINE L == {Len(Segs), Len(Rebases.out), Len(image.binds)}
<1>1. Len(Segs) \in Nat /\ Len(Rebases.out) \in Nat /\ Len(image.binds) \in Nat
  BY Lengths DEF Inv, Typed
<1>2. PICK n \in Nat : L \subseteq 0 .. n
  <2>1. PICK a \in Nat, b \in Nat, c \in Nat : L = {a, b, c}
    BY <1>1, Zenon
  <2> HIDE DEF L
  <2>2. {a, b, c} \subseteq 0 .. a + b + c /\ a + b + c \in Nat
    OBVIOUS
  <2> QED BY <2>1, <2>2
<1>3. L # {}
  OBVIOUS
<1>4. Max(L) \in L /\ \A x \in L : x <= Max(L)
  <2> HIDE DEF L
  <2> QED BY <1>2, <1>3, MaxExists
<1>5. PICK m : m = Max(L)
  OBVIOUS
<1>6. /\ m \in Nat /\ Len(Segs) <= m /\ Len(Rebases.out) <= m /\ Len(image.binds) <= m
  BY <1>1, <1>4, <1>5
<1>7. idx \in Nat \ {0} /\ idx <= m + 1
  BY <1>1, <1>6 DEF Counting, Inv, Typed, PlacesTyped
<1>8. idx \in 1 .. 1 + m
  BY <1>6, <1>7
<1>9. /\ DOMAIN host = DOMAIN native /\ DOMAIN native = DOMAIN icache
      /\ DOMAIN host \subseteq DOMAIN regions
  BY DEF Inv, Typed, MirrorsTyped
<1>10. slide \in 0 .. Word - 1 /\ tramp_base \in 0 .. Word - 1 /\ stack_base \in 0 .. Word - 1
  BY DEF Inv, Typed, PlacesTyped, Address
<1>11. reserved \subseteq [base : 0 .. Word - 1, len : 1 .. Word - 1]
  BY DEF Reservations, Address
<1> QED BY <1>5, <1>8, <1>9, <1>10, <1>11 DEF TypeOK

\* copy_in never writes a byte outside the pages that the loader reserved, for
\* every image that is laid out by a linker and whose imports fit.
THEOREM CopiesStayInside ==
  StubsFit /\ LinkerLayout /\ Spec => []CopiesStayInReservation
<1> DEFINE H == StubsFit /\ LinkerLayout
           J == Inv /\ H /\ Reservations /\ StubsAssigned /\ Inside /\ Counting
<1>1. H /\ Init => J
  <2>1. Init => Counting
    BY DEF Init, Counting
  <2> QED BY <2>1, InitInv, InitLay
<1>2. J /\ [Next]_vars => J'
  <2> SUFFICES ASSUME J, [Next]_vars PROVE J'
    OBVIOUS
  <2>1. Inv' /\ Reservations' /\ StubsAssigned'
    BY InvStep, LayStep
  <2>2. Inside'
    BY InsideStep
  <2>3. Counting'
    BY CountingStep DEF Inv, Typed
  <2>4. H'
    BY DEF H
  <2> QED BY <2>1, <2>2, <2>3, <2>4
<1>3. J => CopiesStayInReservation
  BY CountingTypes DEF CopiesStayInReservation, Inside
<1> QED BY <1>1, <1>2, <1>3, PTL DEF Spec, H

-----------------------------------------------------------------------------
(* Regions never overlap *)

\* The nearest region below a bound.
LEMMA NearestBelow ==
  ASSUME RegionsTyped, NEW bound \in Nat, Mem!Below(bound) # {}
  PROVE  /\ Mem!Max(Mem!Below(bound)) \in DOMAIN regions
         /\ Mem!Max(Mem!Below(bound)) < bound
         /\ \A b \in DOMAIN regions : b < bound => b <= Mem!Max(Mem!Below(bound))
<1>1. Mem!Below(bound) \subseteq 0 .. Word /\ Word \in Nat
  BY LayoutAssumption DEF Mem!Below, RegionsTyped, Address
<1>2. Mem!Max(Mem!Below(bound)) = Max(Mem!Below(bound))
  BY DEF Mem!Max, Max
<1>3. /\ Max(Mem!Below(bound)) \in Mem!Below(bound)
      /\ \A x \in Mem!Below(bound) : x <= Max(Mem!Below(bound))
  BY <1>1, MaxExists
<1> QED BY <1>2, <1>3 DEF Mem!Below

LEMMA EndExact ==
  ASSUME RegionsTyped, Mem!RegionsDisjoint, NEW b \in DOMAIN regions
  PROVE  /\ b \in Nat /\ regions[b].size \in Nat
         /\ Mem!RegionEnd(b) = b + regions[b].size
<1>1. b \in Nat /\ regions[b].size \in Nat /\ b + regions[b].size < Word
  BY LayoutAssumption DEF RegionsTyped, RegionType, Mem!RegionsDisjoint, Address
<1>2. (b + regions[b].size) % Word = b + regions[b].size
  BY <1>1, LayoutAssumption
<1> QED BY <1>1, <1>2 DEF Mem!RegionEnd

\* check_free accepts only a range that no region meets.
LEMMA CheckFreeSound ==
  ASSUME RegionsTyped, Mem!RegionsDisjoint,
         NEW base \in Nat, NEW size \in Nat, Mem!CheckFree(base, size)
  PROVE  /\ base + size < Word
         /\ \A b \in DOMAIN regions : b + regions[b].size <= base \/ base + size <= b
<1>1. base + size < Word
  BY DEF Mem!CheckFree
<1>2. ASSUME NEW b \in DOMAIN regions, ~ (base + size <= b)
      PROVE  b + regions[b].size <= base
  <2> DEFINE m == Mem!Max(Mem!Below(base + size))
  <2>1. b \in Nat /\ regions[b].size \in Nat
    BY EndExact
  <2>2. b < base + size
    BY <1>2, <2>1
  <2>3. Mem!Below(base + size) # {}
    BY <2>2 DEF Mem!Below
  <2>4. m \in DOMAIN regions /\ b <= m
    BY <2>2, <2>3, NearestBelow
  <2>5. m \in Nat /\ regions[m].size \in Nat /\ Mem!RegionEnd(m) = m + regions[m].size
    BY <2>4, EndExact
  <2>6. m + regions[m].size <= base
    BY <2>3, <2>5 DEF Mem!CheckFree
  <2>7. b < m => b + regions[b].size <= m
    BY <2>4 DEF Mem!RegionsDisjoint
  <2> HIDE DEF m
  <2> QED BY <2>1, <2>4, <2>5, <2>6, <2>7
<1> QED BY <1>1, <1>2

LEMMA InsertDisjoint ==
  ASSUME RegionsTyped, Mem!RegionsDisjoint, NEW base \in Address, NEW size \in Address,
         NEW k, Mem!CheckFree(base, size),
         regions' = Mem!Insert(base, Mem!Region(size, RW, k))
  PROVE  Mem!RegionsDisjoint'
<1>1. base \in Nat /\ size \in Nat
  BY DEF Address
<1>2. DOMAIN regions' = DOMAIN regions \cup {base}
  BY DEF Mem!Insert
<1>3. regions'[base].size = size
  BY DEF Mem!Insert, Mem!Region
<1>4. \A b \in DOMAIN regions : b # base => regions'[b] = regions[b]
  BY DEF Mem!Insert
<1>5. /\ base + size < Word
      /\ \A b \in DOMAIN regions : b + regions[b].size <= base \/ base + size <= b
  BY <1>1, CheckFreeSound
<1>6. \A b \in DOMAIN regions : b \in Nat /\ regions[b].size \in Nat
  BY EndExact
<1>7. ASSUME NEW a \in DOMAIN regions'
      PROVE  /\ a + regions'[a].size < Word
             /\ \A b \in DOMAIN regions' : a < b => a + regions'[a].size <= b
  <2>1. CASE a = base
    BY <1>1, <1>2, <1>3, <1>5, <1>6, <2>1
  <2>2. CASE a # base
    <3>1. a \in DOMAIN regions /\ regions'[a] = regions[a]
      BY <1>2, <1>4, <2>2
    <3>2. /\ a + regions[a].size < Word
          /\ \A b \in DOMAIN regions : a < b => a + regions[a].size <= b
      BY <3>1 DEF Mem!RegionsDisjoint
    <3>3. a < base => a + regions[a].size <= base
      BY <1>1, <1>5, <1>6, <3>1
    <3> QED BY <1>2, <3>1, <3>2, <3>3
  <2> QED BY <2>1, <2>2
<1> QED BY <1>7 DEF Mem!RegionsDisjoint

LEMMA SameSizesDisjoint ==
  ASSUME Mem!RegionsDisjoint, DOMAIN regions' = DOMAIN regions,
         \A x \in DOMAIN regions : regions'[x].size = regions[x].size
  PROVE  Mem!RegionsDisjoint'
BY DEF Mem!RegionsDisjoint

\* A byte of a region is found in it.
LEMMA ByteFound ==
  ASSUME RegionsTyped, Mem!RegionsDisjoint, NEW b \in DOMAIN regions, NEW off \in Nat,
         off < regions[b].size
  PROVE  (b + off) % Word = b + off /\ Mem!RegionBase(b + off) # Mem!NoRegion
<1> DEFINE m == Mem!Max(Mem!Below(b + off + 1))
<1>1. b \in Nat /\ regions[b].size \in Nat /\ b + regions[b].size < Word
  BY EndExact DEF Mem!RegionsDisjoint
<1>2. (b + off) % Word = b + off
  <2>1. b + off \in Nat /\ b + off < Word
    <3>1. PICK z \in Nat : z = regions[b].size
      BY <1>1
    <3>2. off < z /\ b + z < Word /\ Word \in Nat
      BY <1>1, <3>1, LayoutAssumption
    <3> QED BY <1>1, <3>1, <3>2
  <2>2. PICK v : v = b + off
    OBVIOUS
  <2>3. v % Word = v
    BY <2>1, <2>2, LayoutAssumption
  <2> QED BY <2>2, <2>3
<1>3. b \in Mem!Below(b + off + 1)
  BY <1>1 DEF Mem!Below
<1>4. m \in DOMAIN regions /\ m < b + off + 1 /\ b <= m
  <2>1. b + off + 1 \in Nat /\ b < b + off + 1 /\ Mem!Below(b + off + 1) # {}
    BY <1>1, <1>3
  <2> QED BY <2>1, NearestBelow
<1>5. m = b
  <2>1. m \in Nat /\ (b < m => b + regions[b].size <= m)
    BY <1>4, EndExact DEF Mem!RegionsDisjoint
  <2> HIDE DEF m
  <2> QED BY <1>1, <1>4, <2>1
<1>6. Mem!Contains(b, b + off)
  BY <1>1, EndExact DEF Mem!Contains
<1>7. Mem!RegionBase(b + off) = b
  BY <1>3, <1>5, <1>6 DEF Mem!RegionBase
<1> QED BY <1>1, <1>2, <1>7 DEF Mem!NoRegion

\* Two segments that start at different addresses are mapped at different ones.
LEMMA SlideInjective ==
  ASSUME NEW v \in Address, NEW u \in Address, NEW s \in Address,
         (v + s) % Word = (u + s) % Word
  PROVE  v = u
<1>1. Word \in Nat \ {0}
  BY LayoutAssumption
<1>2. ASSUME NEW x \in Address
      PROVE  (x + s) % Word = IF x + s < Word THEN x + s ELSE x + s - Word
  <2>1. CASE x + s < Word
    BY <1>1, <2>1 DEF Address
  <2>2. CASE ~ (x + s < Word)
    <3>1. PICK y \in Nat : y = x + s - Word /\ y < Word /\ x + s = y + Word
      BY <1>1, <2>2 DEF Address
    <3>2. (y + Word) % Word = y
      BY <1>1, <3>1
    <3> QED BY <2>2, <3>1, <3>2
  <2> QED BY <2>1, <2>2
<1> QED BY <1>1, <1>2 DEF Address

-----------------------------------------------------------------------------
(* The pointers of the image *)

InSegment(s) == ~ IsGuard(s[1]) /\ s[2] < SegBytes(s[1])

\* The locations of the rebase stream that name slot s as a pointer.
Naming(s) ==
  {k \in DOMAIN Rebases.out : /\ <<Rebases.out[k].seg, Rebases.out[k].off>> = s
                              /\ Rebases.out[k].rtype = Dyld!REBASE_TYPE_POINTER}

Slid(n) == [stub |-> FALSE, sym |-> "", slides |-> n]

\* Slot s after the bind records before n.
Named(s, n) == {r \in DOMAIN image.binds : r < n /\ image.binds[r].loc = s}
Bound(s, n) ==
  IF Named(s, n) # {}
  THEN [stub |-> TRUE, sym |-> image.binds[Max(Named(s, n))].sym, slides |-> 0]
  ELSE Slid(IF s \in image.pointers /\ slide # 0 THEN 1 ELSE 0)

\* While the image is mapped and rebased, the region of a segment is as long as
\* the segment.
Sized ==
  step \in {"map", "rebase"} =>
    \A i \in DOMAIN Segs : ~ IsGuard(i) /\ SegBytes(i) > 0 /\ (step = "map" => i < idx) =>
      /\ SegBase(i) \in DOMAIN regions
      /\ regions[SegBase(i)].size = Mem!AlignUp(SegBytes(i), PageSize)

\* What every slot holds at each step of the load.
Slots ==
  /\ DOMAIN ptrs = image.slots
  /\ step \in Early \cup {"map"} => \A s \in image.slots : ptrs[s] = Slid(0)
  /\ step = "rebase" =>
       /\ slide # 0
       /\ \A s \in image.slots : InSegment(s) =>
            ptrs[s] = Slid(IF \E k \in Naming(s) : k < idx THEN 1 ELSE 0)
  /\ step = "bind" => \A s \in image.slots : InSegment(s) => ptrs[s] = Bound(s, idx)
  /\ step \notin Early \cup Ended \cup {"map", "rebase", "bind"} =>
       \A s \in image.slots : InSegment(s) => ptrs[s] = Bound(s, Len(image.binds) + 1)

LEMMA SlotTyped ==
  ASSUME PlacesTyped, NEW s \in image.slots
  PROVE  /\ s[1] \in DOMAIN Segs /\ s[2] \in Nat /\ s = <<s[1], s[2]>>
<1>1. s \in (DOMAIN Segs) \X Nat
  BY ImageAssumption DEF PlacesTyped, Segs
<1>2. PICK a \in DOMAIN Segs, b \in Nat : s = <<a, b>>
  BY <1>1
<1> QED BY <1>2

\* Regions and sizes: mapping a segment gives its region the size of the segment
\* and touches no region of another segment.
LEMMA SizedMap ==
  ASSUME Inv, Mem!RegionsDisjoint, DistinctStarts, Sized, MapSegment
  PROVE  Mem!RegionsDisjoint' /\ Sized'
<1>1. /\ step = "map" /\ step' = "map" /\ idx <= Len(Segs) /\ idx' = idx + 1
      /\ UNCHANGED <<image, slide>>
  BY DEF MapSegment, layout
<1>2. /\ Segs' = Segs
      /\ \A i \in DOMAIN Segs : SegBase(i)' = SegBase(i) /\ (IsGuard(i)' <=> IsGuard(i))
  BY <1>1, SameSegs
<1>3. \A i \in DOMAIN Segs : SegBytes(i)' = SegBytes(i)
  BY <1>2 DEF SegBytes
<1>4. idx \in DOMAIN Segs /\ \A i \in DOMAIN Segs : i < idx + 1 => i < idx \/ i = idx
  BY <1>1, AllSegs DEF Inv, Typed, PlacesTyped
<1>5. CASE IsGuard(idx)
  <2>1. regions' = regions
    BY <1>5 DEF MapSegment, memory
  <2>2. Mem!RegionsDisjoint'
    BY <2>1, SameSizesDisjoint
  <2>3. Sized'
    BY <1>1, <1>2, <1>3, <1>4, <1>5, <2>1 DEF Sized
  <2> QED BY <2>2, <2>3
<1>6. CASE ~ IsGuard(idx)
  <2> DEFINE b == SegBase(idx)
             sz == Mem!AlignUp(SegBytes(idx), PageSize)
  <2>1. b \in Address /\ sz \in Address
    BY <1>4, SegTyped, AlignUpAddress DEF Inv, Typed
  <2>2. Mem!CheckFree(b, sz) /\ regions' = Mem!Insert(b, Mem!Region(sz, RW, "Segment"))
    BY <1>6 DEF MapSegment, Mem!MapWithData, SegBytes
  <2>3. Mem!RegionsDisjoint'
    <3> HIDE DEF b, sz
    <3> QED BY <2>1, <2>2, InsertDisjoint DEF Inv, Typed
  <2>4. /\ DOMAIN regions' = DOMAIN regions \cup {b}
        /\ regions'[b].size = sz
        /\ \A x \in DOMAIN regions \ {b} : regions'[x] = regions[x]
    BY <2>2 DEF Mem!Insert, Mem!Region
  <2>5. ASSUME NEW i \in DOMAIN Segs, ~ IsGuard(i), SegBase(i) = b
        PROVE  i = idx
    <3>1. Segs[i] \in Segment /\ Segs[idx] \in Segment /\ slide \in Address
      BY <1>4, SegTyped DEF Inv, Typed, PlacesTyped
    <3>2. Segs[i].vmaddr = Segs[idx].vmaddr
      BY <2>5, <3>1, SlideInjective DEF SegBase, Segment
    <3>3. /\ image \in Images /\ Segs = image.segs
          /\ Segs[i].name # "__PAGEZERO" /\ Segs[idx].name # "__PAGEZERO"
      BY <1>6, <2>5 DEF Inv, Typed, PlacesTyped, Segs, IsGuard
    <3> QED BY <1>4, <3>2, <3>3 DEF DistinctStarts
  <2> HIDE DEF b
  <2>6. ASSUME NEW i \in DOMAIN Segs, ~ IsGuard(i), SegBytes(i) > 0, i < idx + 1
        PROVE  /\ SegBase(i) \in DOMAIN regions'
               /\ regions'[SegBase(i)].size = Mem!AlignUp(SegBytes(i), PageSize)
    <3>1. CASE i = idx
      BY <2>4, <3>1 DEF b
    <3>2. CASE i # idx
      <4>1. i < idx /\ SegBase(i) # b
        BY <1>4, <2>5, <2>6, <3>2
      <4>2. /\ SegBase(i) \in DOMAIN regions
            /\ regions[SegBase(i)].size = Mem!AlignUp(SegBytes(i), PageSize)
        BY <1>1, <2>6, <4>1 DEF Sized
      <4> QED BY <2>4, <4>1, <4>2
    <3> QED BY <3>1, <3>2
  <2>7. Sized'
    BY <1>1, <1>2, <1>3, <2>6 DEF Sized
  <2> QED BY <2>3, <2>7
<1> QED BY <1>5, <1>6

LEMMA SizedStep ==
  ASSUME Inv, DistinctStarts, Mem!RegionsDisjoint, Sized, [Next]_vars
  PROVE  Mem!RegionsDisjoint' /\ Sized'
<1>1. ASSUME UNCHANGED regions
      PROVE  Mem!RegionsDisjoint'
  BY <1>1, SameSizesDisjoint
<1>2. ASSUME step' \notin {"map", "rebase"}
      PROVE  Sized'
  BY <1>2 DEF Sized
<1>3. CASE Failure
  <2>1. Moves /\ step' \notin {"map", "rebase"}
    BY <1>3, FailureStep DEF Inv, Failure, ReserveAborts, RefuseEncrypted, MapSegmentFails,
       RebaseFails, BindFails, MapStubsFails, ProtectSegmentFails, MapStackFails, NoEntry, Fail, Goto
  <2> QED BY <1>1, <1>2, <2>1 DEF Moves
<1>4. CASE RebaseDone \/ BindDone \/ ProtectDone \/ Publish
  <2>1. Moves /\ step' \notin {"map", "rebase"}
    BY <1>4, DoneStep DEF Done, RebaseDone, BindDone, ProtectDone, Publish, Goto
  <2> QED BY <1>1, <1>2, <2>1 DEF Moves
<1>5. CASE MapDone
  <2>1. Moves /\ step = "map" /\ step' \in {"rebase", "bind"} /\ idx > Len(Segs)
    BY <1>5, DoneStep DEF Done, MapDone, Goto
  <2>2. UNCHANGED <<regions, image, slide>>
    BY <2>1 DEF Moves
  <2>3. /\ Segs' = Segs
        /\ \A i \in DOMAIN Segs : SegBase(i)' = SegBase(i) /\ (IsGuard(i)' <=> IsGuard(i))
        /\ \A i \in DOMAIN Segs : i < idx
    BY <2>1, <2>2, SameSegs, AllSegs DEF Inv, Typed
  <2>4. \A i \in DOMAIN Segs : SegBytes(i)' = SegBytes(i)
    BY <2>3 DEF SegBytes
  <2>5. Sized'
    BY <2>1, <2>2, <2>3, <2>4 DEF Sized
  <2> QED BY <1>1, <2>2, <2>5
<1>6. CASE ReserveImage \/ ReserveTramp \/ ReserveStack
  <2>1. UNCHANGED regions /\ idx' = 1 /\ step' # "rebase" /\ image' = image
    BY <1>6, ReserveStep DEF ReserveImage, ReserveTramp, ReserveStack, Goto
  <2>2. \A i \in DOMAIN Segs' : ~ (i < idx')
    <3>1. Segs' = Segs /\ idx' = 1
      BY <2>1 DEF Segs
    <3> QED BY <3>1, AllSegs DEF Inv, Typed
  <2>3. Sized'
    BY <2>1, <2>2 DEF Sized
  <2> QED BY <1>1, <2>1, <2>3
<1>7. CASE MapSegment
  BY <1>7, SizedMap
<1>8. CASE Rebase \/ Bind \/ FillStubs
  <2>1. /\ UNCHANGED <<regions, image, slide>> /\ step \in {"rebase", "bind", "fill_stubs"}
        /\ step' \in {"rebase", "bind", "protect_stubs"} /\ (step' = "rebase" => step = "rebase")
    BY <1>8 DEF Rebase, Bind, FillStubs, memory, layout, Goto
  <2>2. /\ Segs' = Segs
        /\ \A i \in DOMAIN Segs : SegBase(i)' = SegBase(i) /\ (IsGuard(i)' <=> IsGuard(i))
    BY <2>1, SameSegs
  <2>3. \A i \in DOMAIN Segs : SegBytes(i)' = SegBytes(i)
    BY <2>2 DEF SegBytes
  <2>4. Sized'
    BY <2>1, <2>2, <2>3 DEF Sized
  <2> QED BY <1>1, <2>1, <2>4
<1>9. CASE MapStubs
  <2> DEFINE sz == Mem!AlignUp(Mem!AtLeast(TrampBytes, 1), PageSize)
  <2>1. step' = "fill_stubs" /\ Mem!CheckFree(tramp_base, sz)
        /\ regions' = Mem!Insert(tramp_base, Mem!Region(sz, RW, "Segment"))
    BY <1>9 DEF MapStubs, Goto, Mem!Map
  <2>2. sz \in Address
    BY TrampBytesTyped, AlignUpAddress DEF Inv, Mem!AtLeast
  <2> HIDE DEF sz
  <2>3. Mem!RegionsDisjoint'
    BY <2>1, <2>2, InsertDisjoint DEF Inv, Typed, PlacesTyped
  <2> QED BY <1>2, <2>1, <2>3
<1>10. CASE MapStack
  <2> DEFINE sz == Mem!AlignUp(Mem!AtLeast(StackSize, 1), PageSize)
  <2>1. step' = "build_stack" /\ Mem!CheckFree(stack_base, sz)
        /\ regions' = Mem!Insert(stack_base, Mem!Region(sz, RW, "Stack"))
    BY <1>10 DEF MapStack, Goto, Mem!Map
  <2>2. sz \in Address
    BY LayoutAssumption, AlignUpAddress DEF Mem!AtLeast
  <2> HIDE DEF sz
  <2>3. Mem!RegionsDisjoint'
    BY <2>1, <2>2, InsertDisjoint DEF Inv, Typed, PlacesTyped
  <2> QED BY <1>2, <2>1, <2>3
<1>11. CASE BuildStack
  <2>1. UNCHANGED regions /\ step' = "entry"
    BY <1>11, BuildStackStep DEF BuildStack, Goto
  <2> QED BY <1>1, <1>2, <2>1
<1>12. CASE ProtectStubs
  <2>1. Protected(tramp_base, RX) /\ step' = "protect"
    BY <1>12, ProtectStubsStep DEF ProtectStubs, Goto
  <2> QED BY <1>2, <2>1, SameSizesDisjoint DEF Protected
<1>13. CASE ProtectSegment
  <2>1. step' = "protect"
    BY <1>13 DEF ProtectSegment
  <2>2. CASE IsGuard(idx)
    BY <1>1, <1>2, <1>13, <2>1, <2>2, ProtectSegmentStep
  <2>3. CASE ~ IsGuard(idx)
    <3>1. Protected(SegBase(idx), FinalProt(idx))
      BY <1>13, <2>3, ProtectSegmentStep
    <3> QED BY <1>2, <2>1, <3>1, SameSizesDisjoint DEF Protected
  <2> QED BY <2>2, <2>3
<1>14. CASE ProtectStubsRefused \/ ProtectSegmentRefused
  <2>1. step' = "failed"
    BY <1>14 DEF ProtectStubsRefused, ProtectSegmentRefused, Goto
  <2>2. PICK b, p : Refused(b, p)
    BY <1>14, RefusedStep
  <2> QED BY <1>2, <2>1, <2>2, SameSizesDisjoint DEF Refused
<1>15. CASE UNCHANGED vars
  <2>1. UNCHANGED <<regions, image, slide, step, idx>>
    BY <1>15 DEF vars, memory, layout
  <2>2. /\ Segs' = Segs
        /\ \A i \in DOMAIN Segs : SegBase(i)' = SegBase(i) /\ (IsGuard(i)' <=> IsGuard(i))
    BY <2>1, SameSegs
  <2>3. \A i \in DOMAIN Segs : SegBytes(i)' = SegBytes(i)
    BY <2>2 DEF SegBytes
  <2>4. Sized'
    BY <2>1, <2>2, <2>3 DEF Sized
  <2> QED BY <1>1, <2>1, <2>4
<1> QED BY <1>3, <1>4, <1>5, <1>6, <1>7, <1>8, <1>9, <1>10, <1>11, <1>12, <1>13, <1>14, <1>15
        DEF Next, Failure

LEMMA SameSlots ==
  ASSUME PlacesTyped, UNCHANGED image, UNCHANGED slide
  PROVE  \A s \in image.slots :
           /\ InSegment(s)' <=> InSegment(s)
           /\ Naming(s)' = Naming(s)
           /\ \A n : Bound(s, n)' = Bound(s, n)
<1> TAKE s \in image.slots
<1>1. s[1] \in DOMAIN Segs
  BY SlotTyped
<1>2. InSegment(s)' <=> InSegment(s)
  BY <1>1, SameSegs DEF InSegment, SegBytes
<1>3. Naming(s)' = Naming(s)
  BY DEF Naming, Rebases
<1>4. \A n : Bound(s, n)' = Bound(s, n)
  BY DEF Bound, Named, Slid
<1> QED BY <1>2, <1>3, <1>4

\* Only rebasing and binding write pointers.
LEMMA PointersSettled ==
  ASSUME Next, ~ Rebase, ~ Bind
  PROVE  UNCHANGED ptrs
BY DEF Next, ReserveImage, ReserveTramp, ReserveStack, ReserveAborts, RefuseEncrypted,
       MapSegmentFails, RebaseFails, BindFails,
       MapStubsFails, ProtectSegmentFails, MapStackFails, NoEntry, Fail,
       MapDone, RebaseDone, BindDone, ProtectDone, Publish, MapSegment, FillStubs,
       MapStubs, MapStack, BuildStack, ProtectStubs, ProtectSegment,
       ProtectStubsRefused, ProtectSegmentRefused

\* A stream that decodes names a slot of a mapped segment once if the slot is a
\* pointer, and never otherwise.
LEMMA NamingExact ==
  ASSUME PlacesTyped, NamesPointersOnce, Rebases.ok, NEW s \in image.slots, InSegment(s)
  PROVE  IF s \in image.pointers THEN \E k \in DOMAIN Rebases.out : Naming(s) = {k}
                                 ELSE Naming(s) = {}
BY DEF PlacesTyped, NamesPointersOnce, InSegment, IsGuard, Segs, Naming, Rebases

LEMMA SlideOnce ==
  ASSUME NEW st, NEW sy
  PROVE  [[stub |-> st, sym |-> sy, slides |-> 0] EXCEPT !.slides = @ + 1] =
           [stub |-> st, sym |-> sy, slides |-> 1]
OBVIOUS

\* Step 1.5 on one location: the pointer that it names was not slid before.
LEMMA RebaseSlots ==
  ASSUME Inv, Mem!RegionsDisjoint, Sized, Slots, LinkerLayout,
         NamesPointersOnce, Rebase
  PROVE  Slots'
<1> DEFINE loc == Rebases.out[idx]
           slot == <<loc.seg, loc.off>>
<1>1. /\ step = "rebase" /\ step' = "rebase" /\ Rebases.ok /\ idx <= Len(Rebases.out)
      /\ idx' = idx + 1 /\ UNCHANGED image /\ UNCHANGED slide
  BY DEF Rebase, layout
<1>2. PlacesTyped /\ idx \in Nat \ {0}
  BY DEF Inv, Typed, PlacesTyped
<1>3. /\ Rebases.out \in Seq([seg : Nat, off : Nat, rtype : Nat])
      /\ idx \in DOMAIN Rebases.out /\ DOMAIN Rebases.out \subseteq Nat
  <2>1. Rebases.out \in Seq([seg : Nat, off : Nat, rtype : Nat])
    BY <1>2, StreamsDecode DEF PlacesTyped, Rebases, Location
  <2> QED BY <1>1, <1>2, <2>1
<1>4. slide # 0 /\ DOMAIN ptrs = image.slots
      /\ \A s \in image.slots : InSegment(s) =>
           ptrs[s] = Slid(IF \E k \in Naming(s) : k < idx THEN 1 ELSE 0)
  BY <1>1 DEF Slots
<1>5. /\ DOMAIN ptrs' = DOMAIN ptrs
      /\ \A s \in DOMAIN ptrs :
           ptrs'[s] = IF Rebasable(loc) /\ s = slot THEN [ptrs[s] EXCEPT !.slides = @ + 1]
                                                    ELSE ptrs[s]
  BY DEF Rebase
<1> HIDE DEF loc, slot
<1>6. ASSUME NEW s \in image.slots, InSegment(s)
      PROVE  ptrs'[s] = Slid(IF \E k \in Naming(s) : k < idx + 1 THEN 1 ELSE 0)
  <2>1. Naming(s) \subseteq Nat
    BY <1>3 DEF Naming
  <2>2. CASE idx \in Naming(s)
    <3>1. slot = s /\ loc.rtype = Dyld!REBASE_TYPE_POINTER
      BY <2>2 DEF Naming, slot, loc
    <3>2. Naming(s) = {idx}
      BY <1>1, <1>2, <1>6, <2>2, NamingExact
    <3>3. ptrs[s] = Slid(0)
      BY <1>2, <1>4, <1>6, <3>2
    <3>4. /\ s[1] \in DOMAIN Segs /\ s[2] \in Nat /\ s[2] < SegBytes(s[1]) /\ ~ IsGuard(s[1])
          /\ loc.seg = s[1] /\ loc.off = s[2]
      BY <1>2, <1>6, <3>1, SlotTyped DEF InSegment, slot
    <3>5. /\ SegBytes(s[1]) \in Nat /\ Mem!AlignUp(SegBytes(s[1]), PageSize) \in Nat
          /\ SegBytes(s[1]) <= Mem!AlignUp(SegBytes(s[1]), PageSize)
      BY <1>2, <3>4, SegTyped, SpanCovers
    <3>6. SegBytes(s[1]) > 0
      BY <3>4, <3>5
    <3>7. /\ SegBase(s[1]) \in DOMAIN regions
          /\ regions[SegBase(s[1])].size = Mem!AlignUp(SegBytes(s[1]), PageSize)
      BY <1>1, <3>4, <3>6 DEF Sized
    <3>8. s[2] < regions[SegBase(s[1])].size
      <4>1. PICK a \in Nat, b \in Nat, c \in Nat :
              /\ a = s[2] /\ b = SegBytes(s[1]) /\ c = Mem!AlignUp(SegBytes(s[1]), PageSize)
              /\ a < b /\ b <= c
        BY <3>4, <3>5
      <4>2. a < c
        BY <4>1
      <4> QED BY <3>7, <4>1, <4>2
    <3>9. Mem!RegionBase((SegBase(s[1]) + s[2]) % Word) # Mem!NoRegion
      BY <3>4, <3>7, <3>8, ByteFound DEF Inv, Typed
    <3>10. Rebasable(loc)
      BY <3>1, <3>4, <3>9 DEF Rebasable
    <3>11. ptrs'[s] = [ptrs[s] EXCEPT !.slides = @ + 1]
      BY <1>4, <1>5, <3>1, <3>10
    <3>12. ptrs'[s] = Slid(1)
      BY <3>3, <3>11, SlideOnce DEF Slid
    <3>13. \E k \in Naming(s) : k < idx + 1
      BY <1>2, <2>2
    <3> QED BY <3>12, <3>13
  <2>3. CASE idx \notin Naming(s)
    <3>1. ~ (loc.rtype = Dyld!REBASE_TYPE_POINTER /\ slot = s)
      BY <1>3, <2>3 DEF Naming, loc, slot
    <3>2. ptrs'[s] = ptrs[s]
      BY <1>4, <1>5, <3>1 DEF Rebasable
    <3>3. (\E k \in Naming(s) : k < idx + 1) <=> (\E k \in Naming(s) : k < idx)
      BY <1>2, <2>1, <2>3
    <3> QED BY <1>4, <1>6, <3>2, <3>3
  <2> QED BY <2>2, <2>3
<1>7. \A s \in image.slots : InSegment(s)' =>
        ptrs'[s] = Slid(IF \E k \in Naming(s)' : k < idx' THEN 1 ELSE 0)
  BY <1>1, <1>2, <1>6, SameSlots
<1>8. slide' # 0 /\ DOMAIN ptrs' = image'.slots
  BY <1>1, <1>4, <1>5
<1> QED BY <1>1, <1>7, <1>8 DEF Slots, Slid, Early, Ended

\* Step 2 on one record: it is the last one, so far, that names its slot.
LEMMA BindSlots ==
  ASSUME Inv, Slots, Bind
  PROVE  Slots'
<1> DEFINE rec == image.binds[idx]
<1>1. /\ step = "bind" /\ step' = "bind" /\ idx <= Len(image.binds)
      /\ idx' = idx + 1 /\ UNCHANGED image /\ UNCHANGED slide
  BY DEF Bind, layout
<1>2. PlacesTyped /\ idx \in Nat \ {0}
  BY DEF Inv, Typed, PlacesTyped
<1>3. /\ image.binds \in Seq([loc : image.slots, sym : STRING])
      /\ idx \in DOMAIN image.binds /\ DOMAIN image.binds \subseteq Nat
  <2>1. image.binds \in Seq([loc : image.slots, sym : STRING])
    BY <1>2, ImageAssumption DEF PlacesTyped
  <2> QED BY <1>1, <1>2, <2>1
<1>4. /\ DOMAIN ptrs = image.slots
      /\ \A s \in image.slots : InSegment(s) => ptrs[s] = Bound(s, idx)
  BY <1>1 DEF Slots
<1>5. rec.loc \in image.slots
  <2>1. ASSUME NEW T, NEW q \in Seq(T), NEW n \in DOMAIN q
        PROVE  q[n] \in T
    OBVIOUS
  <2>2. rec \in [loc : image.slots, sym : STRING]
    BY <1>3, <2>1
  <2> HIDE DEF rec
  <2> QED BY <2>2
<1>6. /\ DOMAIN ptrs' = DOMAIN ptrs
      /\ \A s \in DOMAIN ptrs :
           ptrs'[s] = IF ~ IsGuard(rec.loc[1]) /\ s = rec.loc
                      THEN [stub |-> TRUE, sym |-> rec.sym, slides |-> 0] ELSE ptrs[s]
  BY <1>4, <1>5 DEF Bind
<1>7. ASSUME NEW s \in image.slots, InSegment(s)
      PROVE  ptrs'[s] = Bound(s, idx + 1)
  <2>1. CASE rec.loc = s
    <3>1. ptrs'[s] = [stub |-> TRUE, sym |-> rec.sym, slides |-> 0]
      BY <1>4, <1>6, <1>7, <2>1 DEF InSegment
    <3>2. /\ idx \in Named(s, idx + 1) /\ Named(s, idx + 1) \subseteq 0 .. idx
      BY <1>2, <1>3, <2>1 DEF Named
    <3>3. /\ Max(Named(s, idx + 1)) \in Named(s, idx + 1)
          /\ \A x \in Named(s, idx + 1) : x <= Max(Named(s, idx + 1))
      BY <1>2, <3>2, MaxExists
    <3>4. Max(Named(s, idx + 1)) = idx
      BY <1>2, <3>2, <3>3
    <3> QED BY <3>1, <3>2, <3>4 DEF Bound
  <2>2. CASE rec.loc # s
    <3>1. Named(s, idx + 1) = Named(s, idx)
      BY <1>2, <1>3, <2>2 DEF Named
    <3>2. ptrs'[s] = ptrs[s]
      BY <1>4, <1>6, <2>2
    <3>3. Bound(s, idx + 1) = Bound(s, idx)
      BY <3>1 DEF Bound
    <3> QED BY <1>4, <1>7, <3>2, <3>3
  <2> QED BY <2>1, <2>2
<1>8. \A s \in image.slots : InSegment(s)' => ptrs'[s] = Bound(s, idx)'
  <2> TAKE s \in image.slots
  <2>1. PICK n : n = idx'
    OBVIOUS
  <2>2. Bound(s, n)' = Bound(s, n) /\ (InSegment(s)' <=> InSegment(s))
    BY <1>1, <1>2, SameSlots
  <2> QED BY <1>1, <1>7, <2>1, <2>2
<1> QED BY <1>1, <1>4, <1>6, <1>8 DEF Slots, Early, Ended


\* The ends of the loops: what the loop over the records has written is what the
\* next step starts from.
LEMMA TurnSlots ==
  ASSUME Inv, Slots, Counting, NamesPointersOnce,
         MapDone \/ RebaseDone \/ BindDone
  PROVE  Slots'
<1>1. UNCHANGED <<image, slide, ptrs>> /\ idx' = 1
  BY DEF MapDone, RebaseDone, BindDone, Goto, layout
<1>2. PlacesTyped
  BY DEF Inv, Typed
<1>3. /\ DOMAIN ptrs' = image'.slots
      /\ \A s \in image.slots :
           /\ InSegment(s)' <=> InSegment(s)
           /\ Naming(s)' = Naming(s)
           /\ \A n : Bound(s, n)' = Bound(s, n)
  BY <1>1, <1>2, SameSlots DEF Slots
<1>4. /\ DOMAIN image.binds = 1 .. Len(image.binds) /\ Len(image.binds) \in Nat
      /\ DOMAIN Rebases.out = 1 .. Len(Rebases.out) /\ Len(Rebases.out) \in Nat
  <2>1. image.binds \in Seq([loc : image.slots, sym : STRING])
    BY <1>2, ImageAssumption DEF PlacesTyped
  <2>2. Rebases.out \in Seq([seg : Nat, off : Nat, rtype : Nat])
    BY <1>2, StreamsDecode DEF PlacesTyped, Rebases, Location
  <2> QED BY <2>1, <2>2
<1>5. \A s \in image.slots : Named(s, 1) = {}
  BY <1>4 DEF Named
<1>6. CASE MapDone
  <2>1. step = "map" /\ step' = IF slide # 0 THEN "rebase" ELSE "bind"
    BY <1>6 DEF MapDone, Goto
  <2>2. \A s \in image.slots : ptrs[s] = Slid(0)
    BY <2>1 DEF Slots
  <2>3. CASE slide # 0
    <3>1. \A s \in image.slots : ~ \E k \in Naming(s) : k < 1
      BY <1>4 DEF Naming
    <3> QED BY <1>1, <1>3, <2>1, <2>2, <2>3, <3>1 DEF Slots, Slid, Early, Ended
  <2>4. CASE slide = 0
    <3>1. \A s \in image.slots : ptrs[s] = Bound(s, 1)
      BY <1>5, <2>2, <2>4 DEF Bound
    <3> QED BY <1>1, <1>3, <2>1, <2>4, <3>1 DEF Slots, Early, Ended
  <2> QED BY <2>3, <2>4
<1>7. CASE RebaseDone
  <2>1. step = "rebase" /\ step' = "bind" /\ Rebases.ok /\ idx > Len(Rebases.out)
    BY <1>7 DEF RebaseDone, Goto
  <2>2. slide # 0 /\ \A s \in image.slots : InSegment(s) =>
           ptrs[s] = Slid(IF \E k \in Naming(s) : k < idx THEN 1 ELSE 0)
    BY <2>1 DEF Slots
  <2>3. ASSUME NEW s \in image.slots, InSegment(s)
        PROVE  ptrs[s] = Bound(s, 1)
    <3>1. \A k \in Naming(s) : k < idx
      BY <1>2, <1>4, <2>1 DEF Naming, PlacesTyped
    <3>2. (\E k \in Naming(s) : k < idx) <=> s \in image.pointers
      BY <1>2, <2>1, <2>3, <3>1, NamingExact
    <3> QED BY <1>5, <2>2, <2>3, <3>2 DEF Bound
  <2> QED BY <1>1, <1>3, <2>1, <2>3 DEF Slots, Early, Ended
<1>8. CASE BindDone
  <2>1. step = "bind" /\ step' = "stubs" /\ idx > Len(image.binds)
    BY <1>8 DEF BindDone, Goto
  <2>2. idx = Len(image.binds) + 1
    BY <1>2, <1>4, <2>1 DEF Counting, PlacesTyped
  <2>3. \A s \in image.slots : InSegment(s) => ptrs[s] = Bound(s, Len(image.binds) + 1)
    BY <2>1, <2>2 DEF Slots
  <2>4. ASSUME NEW s \in image.slots, InSegment(s)'
        PROVE  ptrs'[s] = Bound(s, Len(image.binds) + 1)'
    <3>1. PICK n : n = Len(image.binds) + 1 /\ n = Len(image'.binds) + 1
      BY <1>1
    <3>2. Bound(s, n)' = Bound(s, n)
      BY <1>3
    <3>3. ptrs[s] = Bound(s, n)
      BY <1>3, <2>3, <2>4, <3>1
    <3> QED BY <1>1, <3>1, <3>2, <3>3
  <2> QED BY <1>1, <1>3, <2>1, <2>4 DEF Slots, Early, Ended
<1> QED BY <1>6, <1>7, <1>8

LEMMA SlotsStep ==
  ASSUME Inv, Mem!RegionsDisjoint, Sized, Slots, Counting,
         LinkerLayout, NamesPointersOnce, [Next]_vars
  PROVE  Slots'
<1>1. CASE Rebase
  BY <1>1, RebaseSlots
<1>2. CASE Bind
  BY <1>2, BindSlots
<1>3. CASE MapDone \/ RebaseDone \/ BindDone
  BY <1>3, TurnSlots
<1>4. CASE Reserving
  <2>1. step \in Early /\ step' \in Early \cup {"map"} /\ UNCHANGED <<image, ptrs>>
    BY <1>4 DEF Reserving, ReserveImage, ReserveTramp, ReserveStack, Goto, Early
  <2> QED BY <2>1 DEF Slots, Slid, Early, Ended
<1>5. CASE \/ UNCHANGED vars
           \/ Next /\ ~ (Rebase \/ Bind \/ MapDone \/ RebaseDone \/ BindDone \/ Reserving)
  <2> DEFINE Later == {"stubs", "fill_stubs", "protect_stubs", "protect", "stack",
                       "build_stack", "entry", "done"}
  <2>1. UNCHANGED <<image, slide, ptrs>>
    BY <1>5, Settled, PointersSettled DEF vars, layout
  <2>2. \/ step' \in Ended
        \/ step' = step /\ (idx' = idx \/ step \notin {"rebase", "bind"})
        \/ step \in Later /\ step' \in Later
    BY <1>5 DEF vars, Next, Reserving, ReserveAborts, RefuseEncrypted,
       MapSegmentFails, RebaseFails, BindFails, MapStubsFails, ProtectSegmentFails,
       MapStackFails, NoEntry, Fail, ProtectDone, Publish, MapSegment, FillStubs,
       MapStubs, MapStack, BuildStack, ProtectStubs, ProtectSegment,
       ProtectStubsRefused, ProtectSegmentRefused, Goto, Ended
  <2>3. /\ DOMAIN ptrs' = image'.slots
        /\ \A s \in image.slots :
             /\ InSegment(s)' <=> InSegment(s)
             /\ Naming(s)' = Naming(s)
             /\ \A n : Bound(s, n)' = Bound(s, n)
    BY <2>1, SameSlots DEF Slots, Inv, Typed
  <2>4. ASSUME NEW s \in image.slots
        PROVE  /\ Bound(s, Len(image.binds) + 1)' = Bound(s, Len(image.binds) + 1)
               /\ idx' = idx => Bound(s, idx)' = Bound(s, idx)
    BY <2>1 DEF Bound, Named, Slid
  <2>5. CASE step' \in Ended
    BY <2>3, <2>5 DEF Slots, Early, Ended
  <2>6. CASE step' = step /\ (idx' = idx \/ step \notin {"rebase", "bind"})
    <3>1. CASE step \in Early \cup Ended \cup {"map"}
      BY <2>1, <2>3, <2>6, <3>1 DEF Slots, Slid, Early, Ended
    <3>2. CASE step = "rebase"
      <4>1. /\ step' = "rebase" /\ idx' = idx /\ slide # 0
            /\ \A s \in image.slots : InSegment(s) =>
                 ptrs[s] = Slid(IF \E k \in Naming(s) : k < idx THEN 1 ELSE 0)
        BY <2>6, <3>2 DEF Slots
      <4>2. \A s \in image.slots : InSegment(s)' =>
              ptrs'[s] = Slid(IF \E k \in Naming(s)' : k < idx' THEN 1 ELSE 0)
        BY <2>1, <2>3, <4>1
      <4> QED BY <2>1, <2>3, <4>1, <4>2 DEF Slots, Slid, Early, Ended
    <3>3. CASE step = "bind"
      BY <2>1, <2>3, <2>4, <2>6, <3>3 DEF Slots, Early, Ended
    <3>4. CASE step \notin Early \cup Ended \cup {"map", "rebase", "bind"}
      BY <2>1, <2>3, <2>4, <2>6, <3>4 DEF Slots, Early, Ended
    <3> QED BY <3>1, <3>2, <3>3, <3>4
  <2>7. CASE step \in Later /\ step' \in Later
    <3>1. \A s \in image.slots : InSegment(s) => ptrs[s] = Bound(s, Len(image.binds) + 1)
      BY <2>7 DEF Slots, Early, Ended
    <3> QED BY <2>1, <2>3, <2>4, <2>7, <3>1 DEF Slots, Early, Ended
  <2> QED BY <2>2, <2>5, <2>6, <2>7
<1> QED BY <1>1, <1>2, <1>3, <1>4, <1>5

LEMMA InitSlots ==
  ASSUME Init
  PROVE  Mem!RegionsDisjoint /\ Sized /\ Slots /\ Counting
<1>1. /\ Mem!Init /\ step = "reserve_image" /\ idx = 1
      /\ ptrs = [s \in image.slots |-> [stub |-> FALSE, sym |-> "", slides |-> 0]]
  BY DEF Init
<1>2. Sized /\ Counting
  BY <1>1 DEF Sized, Counting
<1>3. Slots
  BY <1>1 DEF Slots, Slid, Early, Ended
<1>4. /\ DOMAIN regions = {HeapBase} /\ regions[HeapBase].size = Mem!HeapRegionSize
  BY <1>1 DEF Mem!Init, Mem!Region
<1>5. Mem!RegionsDisjoint
  BY <1>4, HeapAssumption, LayoutAssumption DEF Mem!RegionsDisjoint, Address
<1> QED BY <1>2, <1>3, <1>5

\* When the guest starts, a bound slot holds the stub of the last record that
\* names it, a pointer of the image was slid exactly once when the image moved,
\* and no other slot was, for every image whose decoded rebase stream names each
\* pointer once.
THEOREM PointersAreFinal ==
  LinkerLayout /\ NamesPointersOnce /\ DistinctStarts /\ Spec
    => []PointersFinal
<1> DEFINE H == LinkerLayout /\ NamesPointersOnce /\ DistinctStarts
           J == Inv /\ H /\ Mem!RegionsDisjoint /\ Sized /\ Slots /\ Counting
<1>1. H /\ Init => J
  BY InitInv, InitSlots
<1>2. J /\ [Next]_vars => J'
  <2> SUFFICES ASSUME J, [Next]_vars PROVE J'
    OBVIOUS
  <2>1. Inv'
    BY InvStep
  <2>2. Mem!RegionsDisjoint' /\ Sized'
    BY SizedStep
  <2>3. Slots'
    BY SlotsStep
  <2>4. Counting'
    BY CountingStep DEF Inv, Typed
  <2>5. H'
    BY DEF H
  <2> QED BY <2>1, <2>2, <2>3, <2>4, <2>5
<1>3. J => PointersFinal
  <2> SUFFICES ASSUME J, Loaded, NEW s \in image.slots, InSegment(s)
               PROVE  ptrs[s] = LET named == {i \in DOMAIN image.binds : image.binds[i].loc = s}
                                IN  IF named # {}
                                    THEN [stub |-> TRUE, sym |-> image.binds[Max(named)].sym,
                                          slides |-> 0]
                                    ELSE [stub |-> FALSE, sym |-> "",
                                          slides |-> IF s \in image.pointers /\ slide # 0
                                                     THEN 1 ELSE 0]
    BY DEF PointersFinal, InSegment
  <2>1. ptrs[s] = Bound(s, Len(image.binds) + 1)
    BY DEF Slots, Loaded, Early, Ended
  <2>2. Named(s, Len(image.binds) + 1) = {i \in DOMAIN image.binds : image.binds[i].loc = s}
    <3>1. image.binds \in Seq([loc : image.slots, sym : STRING])
      BY ImageAssumption DEF Inv, Typed, PlacesTyped
    <3>2. \A i \in DOMAIN image.binds : i < Len(image.binds) + 1
      BY <3>1
    <3> QED BY <3>2 DEF Named
  <2> QED BY <2>1, <2>2 DEF Bound, Slid
<1> QED BY <1>1, <1>2, <1>3, PTL DEF Spec, H
=============================================================================
