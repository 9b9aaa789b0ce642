----------------------------- MODULE ProcessLoad -----------------------------
(***************************************************************************)
(* Loading a Mach-O image on the device: Machine::load and build_process   *)
(* (crates/core), over the address-space manager (GuestMemory) and the     *)
(* native pages of native/src/vm_bridge.c.                                 *)
(*                                                                         *)
(* Every region has a host buffer, the one the loader writes, and, on the  *)
(* device, native pages at the same address, the ones the guest runs on.   *)
(* The host buffer reaches the native pages only through protect and       *)
(* commit_to_native.  host[b] counts the writes to the buffer of region b; *)
(* native[b] and icache[b] are the count that the native pages and the     *)
(* instruction cache hold (Blank: zero-filled, never flushed).             *)
(*                                                                         *)
(* Abstraction.  An image is a record: its segments, the opcodes of its    *)
(* rebase stream (see Rebase), the decoded bind records (see DyldBind),    *)
(* which bind stream is malformed, and whether it is encrypted and has an  *)
(* entry point; pointers are the slots that the linker meant the rebase    *)
(* stream to name.  The bind records name slots inside their segments.  A  *)
(* pointer slot of the image holds its file value, moved by some number of *)
(* slides, or the stub of a symbol.  Initializers are collected in step 5  *)
(* and never run, so they are left out.                                    *)
(***************************************************************************)
EXTENDS Integers, Sequences, FiniteSets, FiniteSetsExt

CONSTANTS
  Word, PageSize, MmapTop, HeapBase, HeapSize,      \* see GuestMemory
  Images,           \* the executables that may be loaded
  OsBases,          \* addresses where the kernel's mmap may place a mapping
  StackSize, TrampReserve, Stride

Address == 0 .. Word - 1
Segment == [name : STRING, vmaddr : Address, vmsize : Address, filesize : Address,
            prot : SUBSET {"r", "w", "x"}]

ASSUME LayoutAssumption ==
  /\ Word \in Nat \ {0} /\ PageSize \in Nat \ {0} /\ Word % PageSize = 0
  /\ HeapBase \in Address /\ HeapSize \in Address
  /\ OsBases \subseteq Address
  /\ Stride \in Nat \ {0}
  /\ \A n \in {StackSize, TrampReserve} :
       n \in Nat \ {0} /\ n % PageSize = 0 /\ n + PageSize <= Word
ASSUME ImageAssumption ==
  \A i \in Images :
    /\ i.segs \in Seq(Segment)
    /\ i.slots \subseteq (DOMAIN i.segs) \X Nat
    /\ i.binds \in Seq([loc : i.slots, sym : STRING])

VARIABLES
  regions, mmap_cursor, heap_cursor, grants,        \* GuestMemory
  image,
  step,             \* where Machine::load is
  idx,              \* the segment or record that the step has reached
  reserved,         \* native reservations, [base, len]
  slide, tramp_base, stack_base,
  ptrs,             \* pointer slots written in the host buffers
  forward, next,    \* StubResolver
  host, native, icache, native_prot,
  stray,            \* a copy_in wrote outside every reservation
  range             \* g_tramp_lo, g_tramp_hi of the trap handler

memory == <<regions, mmap_cursor, heap_cursor, grants>>
layout == <<reserved, slide, tramp_base, stack_base>>
stubs == <<forward, next>>
mirror == <<host, native, icache, native_prot, stray>>
vars == <<memory, image, step, idx, layout, ptrs, stubs, mirror, range>>

Mem == INSTANCE GuestMemory WITH
         MapBases <- {}, MapSizes <- {}, MapKinds <- {}, SegSizes <- {}, DataLens <- {},
         MmapSizes <- {}, AllocSizes <- {}, Aligns <- {}, Prots <- {}

ASSUME HeapAssumption == HeapBase + Mem!HeapRegionSize < Word

Dyld == INSTANCE Rebase
Parsed == [stream \in {i.rebase : i \in Images} |-> Dyld!ParseRebaseInfo(stream)]
Rebases == Parsed[image.rebase]

ASSUME StreamAssumption == \A i \in Images : i.rebase \in Seq(Dyld!Opcode)

RW == {"r", "w"}
RX == {"r", "x"}
Blank == -1
NoRange == [lo |-> 0, hi |-> 0]

Segs == image.segs
IsGuard(i) == Segs[i].name = "__PAGEZERO"
SegBase(i) == (Segs[i].vmaddr + slide) % Word
SegBytes(i) == Mem!AtLeast(Segs[i].vmsize, Segs[i].filesize)

TextAddrOf(i) ==
  LET texts == {s \in DOMAIN i.segs : i.segs[s].name = "__TEXT"}
  IN  IF texts = {} THEN 0 ELSE i.segs[Min(texts)].vmaddr
TextAddr == TextAddrOf(image)

\* Mutant: the span ends where the highest segment starts.
ImageSpan_Starts ==
  LET starts == {Segs[i].vmaddr : i \in {j \in DOMAIN Segs : ~ IsGuard(j)}}
  IN  Mem!AlignUp(Max(starts \cup {TextAddr}) - TextAddr + 1, PageSize)

\* saturating_add: an end past the last address counts as the last address.
SegEnd(i) ==
  LET end == Segs[i].vmaddr + Segs[i].vmsize IN IF end < Word THEN end ELSE Word - 1

\* image_span: from __TEXT to the end of the highest segment.  vmsize counts,
\* the file size does not.
ImageSpan ==
  LET ends == {SegEnd(i) : i \in {j \in DOMAIN Segs : ~ IsGuard(j)}}
      high == Max(ends \cup {TextAddr})
  IN  Mem!AlignUp(high - TextAddr, PageSize)

Covered(base, len) ==
  \E r \in reserved : r.base <= base /\ base + len <= r.base + r.len

(* ios_emu_native_map_region: the kernel picks a free place. *)
Reserve(base, len) ==
  /\ len > 0 /\ base + len < Word
  /\ \A r \in reserved : base + len <= r.base \/ r.base + r.len <= base
  /\ reserved' = reserved \cup {[base |-> base, len |-> len]}

\* A new region of the manager: its host buffer is fresh, its native pages are
\* zero-filled and writable from the reservation.
NewMirror(b) ==
  /\ host' = [x \in DOMAIN host \cup {b} |-> IF x = b THEN 1 ELSE host[x]]
  /\ native' = [x \in DOMAIN native \cup {b} |-> IF x = b THEN Blank ELSE native[x]]
  /\ icache' = [x \in DOMAIN icache \cup {b} |-> IF x = b THEN Blank ELSE icache[x]]
  /\ native_prot' = [x \in DOMAIN native_prot \cup {b} |-> IF x = b THEN RW ELSE native_prot[x]]

HostWrite(b) == host' = [host EXCEPT ![b] = @ + 1]

\* Mutant: the instruction cache is not flushed.
NativeProtect_NoFlush(b, prot) ==
  /\ native' = [native EXCEPT ![b] = host[b]]
  /\ native_prot' = [native_prot EXCEPT ![b] = prot]
  /\ stray' = (stray \/ ~ Covered(b, regions[b].size))
  /\ UNCHANGED <<host, icache>>

(* The device half of protect: copy the buffer in, mprotect, flush the
   instruction cache when the pages become executable. *)
NativeProtect(b, prot) ==
  /\ native' = [native EXCEPT ![b] = host[b]]
  /\ native_prot' = [native_prot EXCEPT ![b] = prot]
  /\ icache' = IF "x" \in prot THEN [icache EXCEPT ![b] = host[b]] ELSE icache
  /\ stray' = (stray \/ ~ Covered(b, regions[b].size))
  /\ UNCHANGED host

(* The same when the kernel refuses the mprotect: the bytes are already
   copied, the protection of the native pages stays what it was. *)
NativeProtectRefused(b) ==
  /\ native' = [native EXCEPT ![b] = host[b]]
  /\ stray' = (stray \/ ~ Covered(b, regions[b].size))
  /\ UNCHANGED <<host, icache, native_prot>>

(* commit_to_native: copy the buffer in, nothing else. *)
CommitToNative(b) ==
  /\ native' = [native EXCEPT ![b] = host'[b]]
  /\ stray' = (stray \/ ~ Covered(b, StackSize))

-----------------------------------------------------------------------------
Init ==
  /\ Mem!Init
  /\ image \in Images
  /\ step = "reserve_image" /\ idx = 1
  /\ reserved = {} /\ slide = 0 /\ tramp_base = 0 /\ stack_base = 0
  /\ ptrs = [s \in image.slots |-> [stub |-> FALSE, sym |-> "", slides |-> 0]]
  /\ forward = << >> /\ next = 0
  /\ host = << >> /\ native = << >> /\ icache = << >> /\ native_prot = << >>
  /\ stray = FALSE
  /\ range = NoRange

Goto(s) == step' = s /\ idx' = 1

\* An early return with Err: load is over, nothing is undone.
Fail == Goto("failed") /\ UNCHANGED <<memory, image, layout, ptrs, stubs, mirror, range>>

(* reserve_image_and_slide *)
ReserveImage ==
  /\ step = "reserve_image"
  /\ \E base \in OsBases :
       /\ Reserve(base, ImageSpan)
       /\ slide' = (base - TextAddr) % Word
  /\ Goto("reserve_tramp")
  /\ UNCHANGED <<memory, image, tramp_base, stack_base, ptrs, stubs, mirror, range>>

(* abort() in ios_emu_native_map_region: the length is zero (an image without
   a single byte), or the kernel refuses the mapping. *)
ReserveAborts ==
  /\ step \in {"reserve_image", "reserve_tramp", "reserve_stack"}
  /\ Goto("aborted")
  /\ UNCHANGED <<memory, image, layout, ptrs, stubs, mirror, range>>

(* reserve_native_region(TRAMPOLINE_RESERVE) *)
ReserveTramp ==
  /\ step = "reserve_tramp"
  /\ \E base \in OsBases : Reserve(base, TrampReserve) /\ tramp_base' = base
  /\ Goto("reserve_stack")
  /\ UNCHANGED <<memory, image, slide, stack_base, ptrs, stubs, mirror, range>>

(* reserve_native_region(stack_size) *)
ReserveStack ==
  /\ step = "reserve_stack"
  /\ \E base \in OsBases : Reserve(base, StackSize) /\ stack_base' = base
  /\ next' = tramp_base
  /\ Goto("map")
  /\ UNCHANGED <<memory, image, slide, tramp_base, ptrs, forward, mirror, range>>

(* build_process: an encrypted executable is refused. *)
RefuseEncrypted == step = "map" /\ image.encrypted /\ idx = 1 /\ Fail

\* Mutants: the final protection is requested together with write access; the
\* loop does not step over the guard segment.
MapSegment_FinalProt ==
  /\ step = "map" /\ ~ image.encrypted /\ idx <= Len(Segs)
  /\ IF IsGuard(idx)
     THEN UNCHANGED <<memory, host, native, icache, native_prot>>
     ELSE /\ Mem!MapWithData(SegBase(idx), Segs[idx].vmsize, Segs[idx].filesize,
                             RW \cup Segs[idx].prot)
          /\ NewMirror(SegBase(idx))
  /\ idx' = idx + 1
  /\ UNCHANGED <<image, step, layout, ptrs, stubs, stray, range>>
MapSegment_StuckOnGuard ==
  /\ step = "map" /\ ~ image.encrypted /\ idx <= Len(Segs) /\ ~ IsGuard(idx)
  /\ Mem!MapWithData(SegBase(idx), Segs[idx].vmsize, Segs[idx].filesize, RW)
  /\ NewMirror(SegBase(idx))
  /\ idx' = idx + 1
  /\ UNCHANGED <<image, step, layout, ptrs, stubs, stray, range>>

(* Step 1: map a segment rw-, whatever its final protection. *)
MapSegment ==
  /\ step = "map" /\ ~ image.encrypted /\ idx <= Len(Segs)
  /\ \/ /\ IsGuard(idx)
        /\ idx' = idx + 1
        /\ UNCHANGED <<memory, image, step, layout, ptrs, stubs, mirror, range>>
     \/ /\ ~ IsGuard(idx)
        /\ Mem!MapWithData(SegBase(idx), Segs[idx].vmsize, Segs[idx].filesize, RW)
        /\ NewMirror(SegBase(idx))
        /\ idx' = idx + 1
        /\ UNCHANGED <<image, step, layout, ptrs, stubs, stray, range>>

MapSegmentFails ==
  /\ step = "map" /\ ~ image.encrypted /\ idx <= Len(Segs) /\ ~ IsGuard(idx)
  /\ ~ Mem!CheckFree(SegBase(idx), Mem!AlignUp(SegBytes(idx), PageSize))
  /\ Fail

MapDone ==
  /\ step = "map" /\ ~ image.encrypted /\ idx > Len(Segs)
  /\ Goto(IF slide # 0 THEN "rebase" ELSE "bind")
  /\ UNCHANGED <<memory, image, layout, ptrs, stubs, mirror, range>>

(* Step 1.5: the whole rebase stream is decoded first. *)
RebaseFails == step = "rebase" /\ ~ Rebases.ok /\ Fail

\* A location that is not of the pointer type, names no mapped segment, or lies
\* in no region is only logged.
Rebasable(loc) ==
  /\ loc.rtype = Dyld!REBASE_TYPE_POINTER
  /\ loc.seg \in DOMAIN Segs /\ ~ IsGuard(loc.seg)
  /\ Mem!RegionBase((SegBase(loc.seg) + loc.off) % Word) # Mem!NoRegion

(* Step 1.5: add the slide to a pointer of a mapped segment. *)
Rebase ==
  /\ step = "rebase" /\ Rebases.ok /\ idx <= Len(Rebases.out)
  /\ LET loc == Rebases.out[idx]
         slot == <<loc.seg, loc.off>> IN
       IF ~ Rebasable(loc)
       THEN UNCHANGED <<ptrs, host>>
       ELSE /\ ptrs' = [s \in DOMAIN ptrs |->
                          IF s = slot THEN [ptrs[s] EXCEPT !.slides = @ + 1] ELSE ptrs[s]]
            /\ HostWrite(Mem!RegionBase((SegBase(loc.seg) + loc.off) % Word))
  /\ idx' = idx + 1
  /\ UNCHANGED <<memory, image, step, layout, stubs, native, icache, native_prot, stray, range>>

RebaseDone ==
  /\ step = "rebase" /\ Rebases.ok /\ idx > Len(Rebases.out)
  /\ Goto("bind")
  /\ UNCHANGED <<memory, image, layout, ptrs, stubs, mirror, range>>

(* Step 2: the eager stream is decoded before its first record is applied, the
   lazy stream after the last one. *)
BindFails ==
  /\ step = "bind"
  /\ \/ image.broken = "bind" /\ idx = 1
     \/ image.broken = "lazy" /\ idx > Len(image.binds)
  /\ Fail

(* Step 2: point a slot at the stub of its symbol. *)
Bind ==
  /\ step = "bind" /\ image.broken # "bind" /\ idx <= Len(image.binds)
  /\ LET rec == image.binds[idx] IN
       IF IsGuard(rec.loc[1])
       THEN UNCHANGED <<ptrs, host, stubs>>
       ELSE /\ IF rec.sym \in DOMAIN forward
               THEN UNCHANGED stubs
               ELSE /\ forward' = [s \in DOMAIN forward \cup {rec.sym} |->
                                     IF s = rec.sym THEN next ELSE forward[s]]
                    /\ next' = next + Stride
            /\ ptrs' = [ptrs EXCEPT ![rec.loc] = [stub |-> TRUE, sym |-> rec.sym, slides |-> 0]]
            /\ HostWrite(SegBase(rec.loc[1]))
  /\ idx' = idx + 1
  /\ UNCHANGED <<memory, image, step, layout, native, icache, native_prot, stray, range>>

BindDone ==
  /\ step = "bind" /\ image.broken \notin {"bind", "lazy"} /\ idx > Len(image.binds)
  /\ Goto("stubs")
  /\ UNCHANGED <<memory, image, layout, ptrs, stubs, mirror, range>>

(* Step 3: map the stub page rw-, fill it with BRK, flip it to r-x. *)
\* Mutant: one page, whatever the number of imports.
TrampBytes_OnePage == PageSize
TrampBytes == Mem!AlignUp(Mem!AtLeast(next - tramp_base, PageSize), PageSize)

MapStubs ==
  /\ step = "stubs"
  /\ Mem!Map(tramp_base, TrampBytes, RW, "Segment")
  /\ NewMirror(tramp_base)
  /\ Goto("fill_stubs")
  /\ UNCHANGED <<image, layout, ptrs, stubs, stray, range>>

MapStubsFails ==
  step = "stubs" /\ ~ Mem!CheckFree(tramp_base, TrampBytes) /\ Fail

FillStubs ==
  /\ step = "fill_stubs"
  /\ HostWrite(tramp_base)
  /\ Goto("protect_stubs")
  /\ UNCHANGED <<memory, image, layout, ptrs, stubs, native, icache, native_prot, stray, range>>

ProtectStubs ==
  /\ step = "protect_stubs"
  /\ Mem!Protect(tramp_base, RX)
  /\ NativeProtect(tramp_base, RX)
  /\ Goto("protect")
  /\ UNCHANGED <<image, layout, ptrs, stubs, range>>

ProtectStubsRefused ==
  /\ step = "protect_stubs"
  /\ Mem!Protect(tramp_base, RX)
  /\ NativeProtectRefused(tramp_base)
  /\ Goto("failed")
  /\ UNCHANGED <<image, layout, ptrs, stubs, range>>

(* Step 4: give a segment its own protection (never none at all). *)
FinalProt(i) == IF Segs[i].prot = {} THEN {"r"} ELSE Segs[i].prot

ProtectSegment ==
  /\ step = "protect" /\ idx <= Len(Segs)
  /\ IF IsGuard(idx)
     THEN UNCHANGED <<memory, mirror>>
     ELSE /\ Mem!Protect(SegBase(idx), FinalProt(idx))
          /\ NativeProtect(SegBase(idx), FinalProt(idx))
  /\ idx' = idx + 1
  /\ UNCHANGED <<image, step, layout, ptrs, stubs, range>>

ProtectSegmentFails ==
  /\ step = "protect" /\ idx <= Len(Segs) /\ ~ IsGuard(idx)
  /\ Mem!RegionBase(SegBase(idx)) = Mem!NoRegion
  /\ Fail

ProtectSegmentRefused ==
  /\ step = "protect" /\ idx <= Len(Segs) /\ ~ IsGuard(idx)
  /\ Mem!Protect(SegBase(idx), FinalProt(idx))
  /\ NativeProtectRefused(SegBase(idx))
  /\ Goto("failed")
  /\ UNCHANGED <<image, layout, ptrs, stubs, range>>

ProtectDone ==
  /\ step = "protect" /\ idx > Len(Segs)
  /\ Goto("stack")
  /\ UNCHANGED <<memory, image, layout, ptrs, stubs, mirror, range>>

(* Step 6: map the stack, write argv, envp and apple, publish the bytes. *)
MapStack ==
  /\ step = "stack"
  /\ Mem!Map(stack_base, StackSize, RW, "Stack")
  /\ NewMirror(stack_base)
  /\ Goto("build_stack")
  /\ UNCHANGED <<image, layout, ptrs, stubs, stray, range>>

MapStackFails ==
  /\ step = "stack"
  /\ ~ Mem!CheckFree(stack_base, Mem!AlignUp(Mem!AtLeast(StackSize, 1), PageSize))
  /\ Fail

BuildStack ==
  /\ step = "build_stack"
  /\ HostWrite(stack_base)
  /\ CommitToNative(stack_base)
  /\ Goto("entry")
  /\ UNCHANGED <<memory, image, layout, ptrs, stubs, icache, native_prot, range>>

(* Steps 7 and 8, then Machine::load tells the trap handler where the stubs are. *)
NoEntry == step = "entry" /\ ~ image.entry /\ Fail

Publish ==
  /\ step = "entry" /\ image.entry
  /\ range' = [lo |-> tramp_base, hi |-> tramp_base + TrampBytes]
  /\ Goto("done")
  /\ UNCHANGED <<memory, image, layout, ptrs, stubs, mirror>>

Next ==
  \/ ReserveImage \/ ReserveAborts \/ ReserveTramp \/ ReserveStack \/ RefuseEncrypted
  \/ MapSegment \/ MapSegmentFails \/ MapDone
  \/ RebaseFails \/ Rebase \/ RebaseDone \/ BindFails \/ Bind \/ BindDone
  \/ MapStubs \/ MapStubsFails \/ FillStubs
  \/ ProtectStubs \/ ProtectStubsRefused
  \/ ProtectSegment \/ ProtectSegmentFails \/ ProtectSegmentRefused \/ ProtectDone
  \/ MapStack \/ MapStackFails \/ BuildStack \/ NoEntry \/ Publish

Spec == Init /\ [][Next]_vars /\ WF_vars(Next)

-----------------------------------------------------------------------------
(* Properties *)

Loaded == step = "done"

\* The loader's variables have the types of the fields they stand for.
TypeOK ==
  /\ reserved \subseteq [base : 0 .. Word - 1, len : 1 .. Word - 1]
  /\ slide \in 0 .. Word - 1 /\ tramp_base \in 0 .. Word - 1 /\ stack_base \in 0 .. Word - 1
  /\ idx \in 1 .. 1 + Max({Len(Segs), Len(Rebases.out), Len(image.binds)})
  /\ DOMAIN host = DOMAIN native /\ DOMAIN native = DOMAIN icache
  /\ DOMAIN host \subseteq DOMAIN regions

\* Executables whose segments are never writable and executable together.  The
\* loader gives every segment the protection that its header names.
SeparateProts ==
  \A i \in Images : \A s \in DOMAIN i.segs : ~ ({"w", "x"} \subseteq i.segs[s].prot)

\* "never request execute and write at the same time": no region, and no native
\* page, is writable and executable at any moment of the load.
WriteXorExecute ==
  /\ \A b \in DOMAIN regions : ~ ({"w", "x"} \subseteq regions[b].prot)
  /\ \A b \in DOMAIN native_prot : ~ ({"w", "x"} \subseteq native_prot[b])

\* When the guest starts, the native pages of the image, the stubs and the
\* stack hold every byte that the loader wrote into the host buffers, under
\* the same protection, and no stale instruction can be fetched from them.
ImagePublished ==
  Loaded => \A b \in DOMAIN host :
    /\ native[b] = host[b]
    /\ native_prot[b] = regions[b].prot
    /\ "x" \in regions[b].prot => icache[b] = host[b]

\* Executables whose decoded rebase stream names each of their pointers once, and
\* whose segments start at addresses of their own.
NamesPointersOnce ==
  \A i \in Images : \A s \in i.slots :
    LET out == Parsed[i.rebase].out
        naming == {k \in DOMAIN out : /\ <<out[k].seg, out[k].off>> = s
                                      /\ out[k].rtype = Dyld!REBASE_TYPE_POINTER}
    IN  Parsed[i.rebase].ok /\ i.segs[s[1]].name # "__PAGEZERO" =>
          IF s \in i.pointers THEN \E k \in DOMAIN out : naming = {k} ELSE naming = {}
DistinctStarts ==
  \A i \in Images : \A s, u \in DOMAIN i.segs :
    /\ i.segs[s].name # "__PAGEZERO" /\ i.segs[u].name # "__PAGEZERO"
    /\ i.segs[s].vmaddr = i.segs[u].vmaddr
    => s = u

\* When the guest starts, a bound slot holds the stub of the last record that
\* names it and was not slid afterwards; any other slot of a mapped segment was
\* slid once if the linker stored a pointer there, and never otherwise, however
\* the rebase stream spells it.
PointersFinal ==
  Loaded => \A s \in image.slots :
    LET named == {i \in DOMAIN image.binds : image.binds[i].loc = s}
    IN  ~ IsGuard(s[1]) /\ s[2] < SegBytes(s[1]) =>
          ptrs[s] = IF named # {}
                    THEN [stub |-> TRUE, sym |-> image.binds[Max(named)].sym, slides |-> 0]
                    ELSE [stub |-> FALSE, sym |-> "",
                          slides |-> IF s \in image.pointers /\ slide # 0 THEN 1 ELSE 0]

\* Executables with no more imports than "far beyond any real binary": a stub for
\* each of them fits in TRAMPOLINE_RESERVE, which the loader does not check.
StubsFit ==
  \A i \in Images :
    Stride * Cardinality({i.binds[r].sym : r \in DOMAIN i.binds}) <= TrampReserve

\* The range that the trap handler is told covers every stub that a pointer of
\* the image may hold, and lies in the stub reservation.
StubsPublished ==
  Loaded => /\ \A s \in DOMAIN forward : range.lo <= forward[s] /\ forward[s] + Stride <= range.hi
            /\ Covered(range.lo, range.hi - range.lo)

\* Executables as linkers lay them out: from __TEXT up, page by page, without a
\* file part longer than the segment.  The loader does not check it.
LinkerLayout ==
  \A i \in Images : \A s \in DOMAIN i.segs :
    LET seg == i.segs[s]
        offset == seg.vmaddr - TextAddrOf(i)
    IN  seg.name # "__PAGEZERO" =>
          /\ 0 <= offset /\ offset % PageSize = 0
          /\ seg.filesize <= seg.vmsize
          /\ seg.vmaddr + seg.vmsize + PageSize <= Word

\* copy_in never writes a byte outside the pages that the loader reserved.
CopiesStayInReservation == TypeOK /\ ~ stray

\* A load ends: with a process, with an error, or with the abort of the backend.
LoadTerminates == <>(step \in {"done", "failed", "aborted"})
=============================================================================
