# TLA+ verification of the iOS emulator core

These modules specify the emulator from the tap on an app to the guest's system
calls: the launch session with its archives, property lists and containers, the
Mach-O parser, the rebase and bind streams, the process loader, the guest
address space, the run loop, the native executor, the system-call layer and the
Objective-C runtime. TLC checks them on small instances; TLAPS proves
all invariants and action properties of the passing runs but half of one, and the
refinement of the address space, for every instance. `PROJECT.json`
lists the runs, the mutated definitions that show each property can fail, the
source lines behind every definition, and the findings.

## 1. The system

The program runs 64-bit iOS executables on an ARM64 Android device. The guest's
instructions run on the processor itself; control comes back to Rust at system
calls, calls of imported functions, breakpoints and faults.

| Component | State | Operations | Talks to |
|---|---|---|---|
| Guest memory (`crates/memory`) | map of regions, mmap cursor, heap cursor | map, map_with_data, mmap_anon, protect, heap_alloc, read/write | loader, system calls, HLE |
| dyld (`crates/loader/src/dyld`) | locals of the opcode readers, stub tables | parse_bind_info, parse_lazy_bind_info, resolve | loader, run loop |
| Loader (`core/src/loader.rs`, `Machine::load`) | slide, reservations, pointers, stubs | build_process and its eight steps | memory, dyld, native bridge |
| Native bridge (`native/src/vm_bridge.c`) | pages of the process, instruction cache | reserve, copy in, protect, clear cache | memory, loader |
| Run loop (`core/src/machine.rs`) | registers, exit flag, lazy table | run, service_syscall, service_trampoline, dyld_stub_binder, reset_to_entry | executor, environment |
| Native executor (`native/src/jit_exec.c`) | C statics: jump buffer, context, range, event | set range, resume, trap handler | run loop, session threads |
| System calls (`core/src/syscall`, `fd.rs`) | descriptor table, exit flag | one handler per call | memory, sandbox, host files |
| Sandbox (`crates/vfs`) | prefixes and roots | prepare, translate | system calls, session |
| HLE and Objective-C runtime (`crates/hle`) | class and instance tables, retain counts | shims per symbol, objc_msgSend | run loop, memory |
| Mach-O parser (`crates/loader/src/macho`) | the slice, the image under construction | parse, select_fat_slice, parse_thin, parse_command | loader |
| Archives and property lists (`crates/ipa`) | files in the container | scan_directory, inspect_ipa, extract_app, plist::parse | session |
| Launch session (`crates/jni`) | locals of launch_inner, the counter of container ids | scan, launch, generate_uuid | archives, sandbox, loader, run loop |
| Front end (`frontend`) | list of apps | scan at start, tap: a launch on a thread of its own | session |

What is hard here, and why tests miss it:

* *Two copies of memory.* On the device every region has a host buffer that the
  Rust code reads and writes and native pages that the guest uses. Only
  `protect` and `commit_to_native` copy, in one direction. Host tests have only
  the buffer.
* *Order of the loading steps.* Map, rebase, bind, fill, copy, protect, flush:
  a step too early or too late leaves stale bytes or wrong pointers.
* *Partial failure.* Some twenty early returns, and a kernel that may refuse.
* *Arithmetic at the edges* of the address space and of a page.
* *A signal handler with static state*, under a front end that starts every
  launch on its own thread.
* *Two readers of one stream*: the lazy bind stream is parsed by two loops that
  must agree.
* *Long sequences of calls*: descriptors reused, a machine run twice.
* *Launches at the same time*, each with its own container, while the user
  replaces archives: a launch opens its archive twice, and the host may refuse
  any file operation in between.
* *Untrusted files*: counts, offsets and references of an executable or of a
  property list are whatever the file says, cycles included; paths of a guest
  may hold `..`, blanks and empty components.

Each of these is listed in `PROJECT.json` under `hazards` with its line and the
properties that guard it.

## 2. Modules

| Module | Models | State and actions |
|---|---|---|
| `AddressSpace` | what the memory manager promises | `owner`, `holder` of each byte; Claim, Grant |
| `GuestMemory` | `crates/memory` | `regions`, the two cursors and `grants`, a history of what malloc and mmap returned; one action per method that changes state |
| `DyldBind` | `bind.rs`, `linker.rs`, steps 2 and 8 of `build_process` | the locals of the readers, their records, the stub tables, the bytes that binding writes; one step per opcode and per record |
| `Rebase` | `rebase.rs` | no state: `ParseRebaseInfo` is the loop over the opcodes of a stream, `Decoded` what it holds after each, the last with the locations to slide |
| `ProcessLoad` | `Machine::load` on the device with `vm_bridge.c` | instantiates `GuestMemory` as `Mem` and `Rebase` as `Dyld`; adds `host`, `native`, `icache`, `native_prot`, reservations; one action per step and per early return |
| `Machine` | `machine.rs` | registers, memory as the guest and as the services see it, the event; guest steps are external, one action per service |
| `NativeBackend` | `jit_exec.c` and the threads of launches | the statics, the context and position of every thread; `BackendSpec` lets launches overlap, `SerialSpec` only follow one another |
| `Syscalls` | `syscall/`, `fd.rs`, routing of `sandbox.rs` | instantiates `GuestMemory`; descriptors, host files as lengths, the reply; one action per outcome of a call, a host that refuses or stops half way included |
| `ObjcRuntime` | `hle/src/objc`, `objc_rt.rs`, the allocator of `libsystem.rs` | instantiates `GuestMemory`; class and instance tables, retain counts, the first words of objects; one action per outcome of a call |
| `MachOImage` | `macho/image.rs`, the bounds of `reader.rs` | the slice chosen, the image under construction and, as history, the records read; one step per record |
| `Sandbox` | `vfs/src/sandbox.rs` | no state: `SandboxLayout`, `Translate`, and the reference resolver (`Mounts`, `Resolvable`, `Kept`) that it is compared with, which also stands for the host's own resolution of a path |
| `Plist` | `ipa/src/plist.rs`, the value and the binary reader | no state: `ObjectAt` gives the value of every object at every depth, from the objects one level down; the reference definition `WellFormed` |
| `PlistXml` | `ipa/src/plist.rs`, the XML reader and `parse` | no state: recursive descent with the conversions of numbers and data, and the reference writer `XmlOf` |
| `Launch` | `jni/src/session.rs` with `ipa/src/discovery.rs`, `extract.rs` | extends `Sandbox`; what `plist::parse` answers (`Parsed`) and the bitwise xor are parameters, which `MCLaunch` takes from `PlistXml` and `Bitwise`; the directory of archives, the locals of every launch, directories and files, the scan; one action per step of `launch_inner` and per early return |
| `X_proofs` | theorems about module `X`: `GuestMemory`, `DyldBind`, `ProcessLoad`, `Machine` (with `NativeBackend`), `Syscalls`, `ObjcRuntime`, `MachOImage`, `Launch` (with `Sandbox` and `Plist`) | – |
| `MC*` | instances for TLC | – |

Composition: `ProcessLoad`, `Syscalls` and `ObjcRuntime` use `GuestMemory`'s actions as parts
of their own, through `INSTANCE`, so a segment is mapped, a system call maps memory
and an object is allocated exactly as the manager does. `GuestMemory` is shown to implement
`AddressSpace`. `DyldBind` is the detailed form of the bind step that
`ProcessLoad` takes record by record, and `MachOImage` the parse before it.
`Launch` takes the load and the run as one step each; `Machine` starts where `ProcessLoad`
ends, and abstracts the executor that `NativeBackend` details.

Conventions. A call of the memory manager that returns `Err` changes nothing, so
its action is enabled exactly when the call succeeds; the callers' error paths
are actions of the modules that call. The exception is `protect` on the device:
it notes the new protection before the kernel may refuse it (`memory/src/lib.rs:150`,
`:176`). `Protect` stands for both answers; `ProcessLoad` (`ProtectStubsRefused`,
`ProtectSegmentRefused`) and `Syscalls` (`Mprotect`, which answers success or
EINVAL) model what the caller makes of the second. Machine words are numbers modulo `Word`
(`OffsetWord` for offsets): plain additions wrap, as in the release build, and
checked ones fail. A definition `X_Y` in front of `X` is a mutated form of `X`,
used only to show that a property notices the change.

## 3. Runs

### Passing runs

| Run | Properties | What it shows |
|---|---|---|
| `guest_memory` | TypeOK, RegionsDisjoint, LookupFindsOwner, AccessSound, GrantsBacked, AnonTilesArena, ImplementsAddressSpace | 32 bytes in pages of 4; stacks of 5 and 20 bytes and segments of 1 byte with 0 or 6 bytes of data, at four bases, one of them not aligned, so that regions touch each other and mapped ranges would run past the end of the address space (lengths that wrap when rounded are left out, see `ModestRequests`); mmap of one and two pages, malloc of 0, 3 and too many bytes with alignment 1 and 4, in any order. No two regions overlap, a lookup finds the region of an address, and whatever was handed out is mapped and handed out once. |
| `dyld` | StubTableExact, SlotsHoldStubs, LazyTableExact | All eager streams of up to 4 opcodes, every opcode, two symbols, an unmapped segment and two that touch, pointers of two bytes; offsets that wrap, that lie across another slot, across the end of a segment or in the next one; after each, all lazy streams a linker may write, up to 8 opcodes (two complete sequences). |
| `process_load` | WriteXorExecute, ImagePublished, PointersFinal, StubsPublished, CopiesStayInReservation, LoadTerminates | 44 images (guard page, BSS, gap, overlap, empty segment, encrypted, no entry, rebase streams with every opcode, runs that wrap or skip, each stream malformed), five places the kernel may choose, one of them across the heap; every refusal of the kernel. |
| `machine` | CallArrivesIntact, BinderPaysOnce, KnownReturnsBalanced, CallsReturn | Three slots, one read-only and one with an offset the table does not hold, each holding its stub, its helper or a gap; a stack of two frames, so that it overflows; two runs. |
| `native_backend` | EventIsTheTrap, ServicedInOrder | `SerialSpec`: three launches one after another, each on either of two threads, each with three traps of any kind. |
| `syscalls` | StandardStreamsStay, LowestFdAnswered, DescriptorsIndependent, ErrorsContained, SystemImageUnchanged | Two files open at a time, a path in the container, in the system image and outside, files of up to two bytes, a mapped and an unmapped buffer. The host may refuse an operation or stop a write after any part of it, the kernel may refuse an mprotect. What a call that answers an error may leave behind is exactly what ErrorsContained lists: the position and length of its own file, the protection that mprotect asked for, and a mapping that vm_allocate could not report. |
| `objc_runtime` | HeadersOwned, ClassTablesAgree, IsaIsClass, NilRegistersNothing | A heap of nine words (four objects and a bit), two class names, one with a reserved slot, blocks of 0 and 3 words, stray receivers, a heap that is write-protected and released at any time. |
| `launch` | TranslateExact, ContainersIsolated, BundleComplete, ScanListsSteady, PlistExact, LaunchAnswers | Two archives and two launches at once, which read the same clock, an archive replaced or removed once at any moment, any file operation refused. Archives with a name stored twice, a nested app, two apps at the same depth, an app called `..`, executables named by an absolute path or through `..`, a property list that holds itself. About 190 guest paths per container, and every table of three property-list objects. |
| `macho` | ImageExact, WorkBounded | Files of five lengths with every magic, up to two slices, up to three commands of every kind, with sizes below the minimum and records that end past the file. |

Except in `GuestMemory`, whose `TypeOK` is proved, the type invariant of a module
is the first conjunct of one of the invariants named here (StubTableExact,
CopiesStayInReservation, CallArrivesIntact, EventIsTheTrap, StandardStreamsStay,
ClassTablesAgree, ContainersIsolated, WorkBounded).

### Runs that end in a violation

Each states what a comment or document of the repository says and shows a
behaviour of the code that contradicts it; `findings` quotes the line.

| Run | Property | The code |
|---|---|---|
| `machine_device_data` | BindKeepsGuestStores | publishing one pointer copies the whole region |
| `backend_threads` | JumpsToOwnFrame | two launches share the statics |
| `syscalls_append` | SystemImageUnchanged | O_RDONLY with O_APPEND writes the system image |

The passing runs leave out the inputs of these findings (the mirror, the
read-only append, two launches at once on the executor) and say what holds without
them; `SerialJumpsToOwnFrame` and `SystemImageReadOnly` prove that nothing else
violates two of the properties. `TranslateExact` says nothing of the mount points
themselves, of `/Applications` and of the access to the bundle, where the code and
its comments differ (the table below). The loop over the
slices of a universal file is modelled as it stands, but the code enters it only
with a byte-swapped magic, so no passing property is about the choice it makes.
`machine` uses an executor that
keeps the contract of the `Executor` trait (guest and services share one memory;
`Mirrored` is the device). `dyld_stub_binder` is normally a second line of
defence, because step 2 of the loader binds lazy slots too; the model starts
with any mix of slots.

### Observed in the source, without a run of their own

Reading the code for the models also showed these disagreements. Each follows
from one or two lines, or from a call that is missing, so a run would add
nothing; they limit what the passing runs say.

| Source | The code | Said |
|---|---|---|
| `memory/src/lib.rs:116` | a segment of no bytes becomes a region of size 0 and replaces one that starts at the same address; the segments of `guest_memory` are not empty, since ImplementsAddressSpace says that no mapping is lost | `syscall/unix.rs:29`: "regions are reclaimed at teardown" |
| `memory/src/lib.rs:116` | data longer than `size` makes the region longer; `guest_memory` has such a call (6 bytes in a segment of 1) | `lib.rs:106`: "`data` longer than `size` is an error" |
| `memory/src/lib.rs:150` | on the device a refused `protect` leaves the new protection in the manager and the old one in the kernel | – |
| `memory/src/lib.rs:127` | an mmap length in the last page below 2^64 rounds to 0 and succeeds with the old cursor; the lengths of `guest_memory` are smaller | `lib.rs:124-125`: "Anonymous mapping analogous to `mmap(NULL, ...)`" |
| `core/src/loader.rs:305` | the reservation counts vmsize, the region and its copy the larger of vmsize and file length; no last segment of the images of `process_load` has more file bytes than vmsize | `vm_bridge.c:65-67`: "Bounded by `dst_len` (the segment's vmsize)" |
| `core/src/loader.rs:226` | initprot rwx is applied as it stands; the images of `process_load` have none | `loader.rs:92-93`: "never request execute and write at the same time" |
| `core/src/machine.rs:101` | the heap arena has no native pages | `ARCHITECTURE.md:57-58`: "mirrors each region into an actual `mmap`" |
| `native/src/vm_bridge.c:126` | nothing calls `ios_emu_native_unmap` | same line: "Release the whole reservation at teardown." |
| `core/src/machine.rs:299` | the binder gives up without popping the frame; KnownReturnsBalanced excludes this path | `machine.rs:280-281`: "pop the two-word frame" |
| `core/src/machine.rs:335` | `reset_to_entry` keeps the exit flag, so the next run ends at its first system call | `machine.rs:332`: "(used to re-run, ..." |
| `core/src/cpu.rs:36` | main returns to address 0 and the run ends as a fault | `cpu.rs:89`: the "process exit" landing pad |
| `core/src/machine.rs:286` | on the device the pushed offset is read from the host buffer of the stack, where it never was | `machine.rs:276-277`: "`[sp]` is the lazy-binding-info offset" |
| `native/src/jit_exec.c:175`, `:49` | nothing calls `ios_emu_native_init` or `ios_emu_native_prepare_text`; `NativeBackend` assumes both calls | `ARCHITECTURE.md:16-18`: "At load time the native backend rewrites every `svc #0x80`" |
| `native/src/jit_exec.c:76` | q registers are neither captured nor restored | `machine.rs:281-282`: "`x0..x8` / `q0..q7` ... survive the binder call intact" |
| `hle/src/frameworks/objc_rt.rs:49` | objc_retain and objc_release leave the count that the messages retain and release change; nothing acts on the count | `objc/runtime.rs:33`: "best-effort ARC accounting" |
| `vfs/src/translate.rs:32`, `sandbox.rs:119-130` | the container's root and `/System`, `/usr`, `/Library` and `/private/var/db` themselves are refused: nothing is left behind the prefix, which `normalize_ios_path` calls malformed (`/System/.` is accepted). TranslateExact leaves them out | `sandbox.rs:105-107`: "paths under the container prefix -> `host_root`", "`/System`, `/usr`, ... -> the shared read-only system image" |
| `vfs/src/sandbox.rs:123` | `/Applications` is a fifth tree and is routed to the system image; TranslateExact leaves it out | `sandbox.rs:108`: "everything else is rejected" |
| `vfs/src/sandbox.rs:121` | every path below the container, the `.app` directory included, is answered as writable, so a guest can store files in its bundle; TranslateExact says nothing of that access | `vfs/src/lib.rs:8`: "unzipped IPA payload (read-only to the guest)" |
| `vfs/src/sandbox.rs:110` | a path is trimmed first, so two names that differ in blanks at the end are one file | – |
| `jni/src/session.rs:72` | every launch makes a new container and none is removed, so an app never finds its documents again | – |
| `jni/src/session.rs:82` | the executable's name is joined as it stands: an absolute one is read from the host, one with `..` from wherever it leads; `launch` has both | – |
| `jni/src/session.rs:71`, `:79` | the archive is opened once to inspect and once to extract; an archive replaced in between is extracted with the names of the old one | – |
| `loader/src/macho/image.rs:138-145` | the magic is read as little-endian, so the big-endian one of every universal file matches no arm and the file is refused; no property of `macho` is about the choice of a slice | `loader/src/lib.rs:12-13`: "universal binaries, from which the arm64 slice is selected"; `image.rs:136` |
| `loader/src/macho/image.rs:255` | `_slice_base` is not used, and `core/src/loader.rs:86`, `:110`, `:144`, `:264` index the whole file with offsets of the slice | `image.rs:247-249`: "needed to convert file offsets" |
| `loader/src/macho/image.rs:346` | room for nsects sections is allocated before the first is read, and the body of a command is not held against its cmdsize | – |
| `ipa/src/plist.rs:298` | the XML reader skips comments only before the first element, has no bound on depth, refuses `<string/>`, `<dict/>` and `<date>`, and leaves `<data>` as base64 text | same line: "ignores attributes, comments" |
| `ipa/src/plist.rs:217` | room for as many references as the file claims is allocated before they are read, and the release build aborts on failure (`Cargo.toml:47`); shared objects are expanded each time, so the work may be exponential in the depth | `discovery.rs:37-38`: "one bad archive doesn't hide the rest" |

### Bounds

`Word`, `PageSize` and the sets of sizes are chosen so that a request can be
smaller than, equal to, and larger than a page, can touch each neighbour and can
reach the end of the address space. The bounds `MaxEager`, `MaxLazy`, `MaxRuns`, `MaxPc`, `MaxFd`,
`MaxLen`, `MaxCount` and `MaxChanges` are guards of the actions that grow something: two symbols, two
descriptors, two runs, two launches are the least number for which identity, reuse and stale
state can go wrong, and each property is shown to fail on a mutated form of the
code within the same bounds. `grants` needs no bound: the arenas run out.
`MaxDepth` is the code's own limit on the nesting of a property list, 1 instead
of 128, so that tables of three objects reach it, go past it, and form cycles.
Bind streams compute addresses modulo 128 over two segments of 4 bytes, so that a
sum may wrap and two pointers may overlap in one byte.
Container ids are words of 8 values, and the clock stands still, so that only
the counter keeps two ids apart (`ContainersAreIsolated` is about any clock).

Deadlock is not checked where the system may stop: after the load, after exit,
at the end of a stream, or when a bound is reached.

### Fairness

`ProcessLoad` has `WF_vars(Next)`: the loader is one thread that never waits.
`Machine` has weak fairness of the straight-line guest steps (a processor in a
stub or a helper goes on) and of the services (the loop of `run` services each
event at once); the guest's choices have none, so a guest that loops or stops
is allowed. `Launch` has weak fairness of the steps of each launch thread, which
the front end runs on a pool of its own and which waits for no other; taps, the
end of a run, changes by the user and refusals of the host have none. The other specifications state safety only.

## 4. Proofs

Each `X_proofs` module extends `X` (`Machine_proofs` also `NativeBackend`,
`Launch_proofs` also `Plist`) and proves, for every value of its constants
that the named `ASSUME`s of `X` allow, what the runs check on one instance. The
shape is the same everywhere: an inductive invariant that is a conjunction of
named parts, one lemma for the initial states, one per action or group of
actions with the same effect, `NextInv` (or `InvStep`) that puts them together,
and theorems that read the property off the invariant.

| Module | Theorem | Property | Hypotheses |
|---|---|---|---|
| `GuestMemory` | TypeCorrect | TypeOK | – |
| | RegionsNeverOverlap | RegionsDisjoint | – |
| | LookupExact | LookupFindsOwner | – |
| | AccessExact | AccessSound | – |
| | GrantsStayBacked | GrantsBacked | ModestRequests |
| | ArenaHasNoHoles | AnonTilesArena | ModestRequests |
| | ManagerIsAnAddressSpace | ImplementsAddressSpace | ModestRequests |
| `DyldBind` | StubsExact | StubTableExact | – |
| | SlotsAreBound | SlotsHoldStubs | – |
| | LazyTableIsExact | LazyTableExact | – |
| `ProcessLoad` | ImageIsPublished | ImagePublished | – |
| | NeverWriteAndExecute | WriteXorExecute | SeparateProts |
| | StubsArePublished | StubsPublished | StubsFit |
| | CopiesStayInside | CopiesStayInReservation | StubsFit, LinkerLayout |
| | PointersAreFinal | PointersFinal | LinkerLayout, NamesPointersOnce, DistinctStarts |
| `Machine` | CallsArriveIntact | CallArrivesIntact | ~ Mirrored, LinkedImage |
| | BinderPatchesForGood | BinderPaysOnce | the same |
| | ReturnsBalanced | KnownReturnsBalanced | the same |
| `NativeBackend` | TrapReportedToItsLaunch | EventIsTheTrap | SerialSpec |
| | TrapsServicedInOrder | ServicedInOrder | SerialSpec |
| | SerialJumpsToOwnFrame | JumpsToOwnFrame | SerialSpec |
| `Syscalls` | StreamsStayOpen | StandardStreamsStay | – |
| | OpenTakesLowest | LowestFdAnswered | – |
| | DescriptorsKeepTheirFile | DescriptorsIndependent | – |
| | ErrorsAreContained | ErrorsContained | – |
| | SystemImageReadOnly | SystemImageUnchanged | AppendWrites |
| `ObjcRuntime` | ClassTablesBijective | ClassTablesAgree | – |
| | IsaStays | IsaIsClass | – |
| | HeadersAreOwned | HeadersOwned | – |
| | NilLeavesNoObject | NilRegistersNothing | – |
| `MachOImage` | WorkBoundedByFile | WorkBounded | – |
| | ImageIsTheFile | ImageExact | – |
| `Launch` | ContainersAreIsolated | ContainersIsolated | – |
| | BundlesAreComplete | BundleComplete | TrimmedNames |
| | ScanIsSteady | ScanListsSteady | – |
| `Sandbox` | TranslateAgrees | TranslateExact | – |
| | TranslateStaysInside | the host path is of plain names below the container or, read-only, below a system tree | – |
| `Plist` | BinaryReaderExact | the first half of PlistExact, AcceptsWellFormed | BinaryDocument |

### Assumptions and hypotheses

The `ASSUME`s give the constants their types and the facts that the code's own
constants satisfy: the page size (0x4000) divides the word; the stack (8 MiB) and
`TRAMPOLINE_RESERVE` are whole pages; the heap arena lies in the address space;
the numbers read from a file are natural numbers; a bind record names a slot of
the image. Bases need not be aligned, sizes may wrap when rounded. TLC evaluates
them in the runs. For `Launch`:

* `NamesAssumption`: the names that the code spells out are strings, and no
  special component holds a NUL.
* `ArchiveAssumption`: archives are sequences of entries whose paths are not
  empty; the names that property lists give are strings, of which
  `SanitizeComponent` makes a plain file name. The executable may be any path:
  `Path::join` takes an absolute one in place of the bundle directory, and the
  host walks `..`. Where that leads out of the container, what is read is any
  file of the model or of `HostData`, and `BundleComplete` claims nothing.
* `UuidAssumption`: the multiplier of `generate_uuid` has an inverse (it is odd,
  and the word is a power of two), the hexadecimal digits tell two pairs of words
  apart, xor with a word undoes itself, and a process launches fewer than 2^64
  times. That ids differ is proved from these, not assumed.

A hypothesis of a theorem is something the code does *not* guarantee, so that the
theorem says what it takes for the property to hold. The passing runs satisfy all
of them, so none is empty: `ModestRequests`, `LinkedImage`, `TrimmedNames`, `BinaryDocument` and the hypotheses about
images (but for `NamesPointersOnce`, see below) are `ASSUME`s of the MC modules, the
others are the constants or the specification of the cfg.

* `ModestRequests`: requests leave a page below the word when they are rounded,
  and segments are not empty. Without it a length in the last page rounds to 0
  (section 3, observed in the source).
* `SeparateProts`: no segment header asks for write and execute; the loader
  applies what the header names.
* `StubsFit`: the imports fit in `TRAMPOLINE_RESERVE`, "far beyond any real
  binary" (`machine.rs:79-80`); the loader does not check it.
* `LinkerLayout`, `DistinctStarts`: segments lie at or above `__TEXT`, page by
  page, end a page below the word, start at different addresses, and hold no more
  file bytes than vmsize. An end that overflows saturates in `image_span`
  (`SegEnd`), and the reservation is then too short.
* `NamesPointersOnce`: the locations that the decoder returns name each pointer
  slot once. That it returns a list of locations is proved, for every stream
  (`StreamsDecode`); that it reads the streams of the run as they were meant is
  what PointersFinal checks with TLC, and the theorem is about everything behind
  the decoder. `MCProcessLoad` therefore does not assume `NamesPointersOnce`; its
  images satisfy it.
* `~ Mirrored`: guest and services share one memory, the contract of the
  `Executor` trait. On the device they do not, which `machine_device_data` shows.
* `LinkedImage`: the entries of the lazy stream start at different offsets, and
  no stub is the binder's own.
* `SerialSpec`: no image is loaded while the guest of another thread has not
  stopped. The front end does not ensure it, which `backend_threads` shows.
* `AppendWrites`: O_APPEND only with write access; `syscalls_append` shows the
  other case.
* `TrimmedNames`: no executable's name begins or ends with a blank. The host
  opens the name as it is, `translate` trims a path, so a guest would not find
  its own executable otherwise.
* `BinaryDocument`: what the byte decoder hands on is a table of objects with
  numbers as references, any numbers.

### The arguments

*GuestMemory.* `Inv == TypeOK /\ RegionsDisjoint`. Neither half is inductive
alone: that `check_free` is right needs disjoint regions that do not wrap
(`EndExact`: the wrapping `Region::end` is then the true end), and that sizes
stay words needs their type. `CheckFreeSound` is the heart: when the last region
that starts below the end of a request ends at or before its start, then every
region does, or starts behind the request. `MaxExists` (a non-empty bounded set
has a maximum) rests on the well-foundedness of the natural numbers, because
`Max` is a `CHOOSE`. `GrantInv` adds where the heap and the mmap arena stand:
the arena is tiled from its top to the cursor, every block lies below the heap
cursor or in one tile. The refinement maps a byte to the region and the block
that hold it; each call is a Claim or a Grant of `AddressSpace`, or a stutter.

*DyldBind.* The invariant ties the reader to its records (`Reader`,
`OwnSequences`: an entry of the table has the offset of its own sequence), the
resolver to the records applied so far (`Stubs`, `AllApplied`), and the lazy
entries to the eager records of the same stream (`Pairs`, `AllLazyBound`): the
second parser is right because both read the same cursor at each DO_BIND. Memory
is kept by the byte, so the invariant says of each byte which applied record is
the last to cover it; that a lazy slot keeps all of its bytes uses that a linker's
lazy slots lie apart (`LazyShape`), not that eager ones do.

*ProcessLoad.* `Inv == Typed /\ Placed /\ Publishing`: which mirrors exist at
each step, and that every mirror is published or belongs to a segment that step
4 has still to visit; a second segment at the same base is why the last visit
counts. `Reservations` and `StubsAssigned` follow the layout and the stubs;
`SpanCovers` shows that `image_span` bounds every segment after rounding, and
`SlidePlaces` that the wrapping slide puts each segment at its offset from the
reservation; with these `Inside` is inductive. For the pointers, `Sized` keeps a
region as long as its segment until the rebase is over, so that no pointer is
skipped as unmapped (`ByteFound`), and `Slots` gives each slot's value at every
step: slid if a location before `idx` names it, then the last record before
`idx`.

*Machine.* `Position` says for each place of the program counter what the
registers and the stack hold of the call in flight; `ServedSound` that the
environment was asked for it, `EventSound` that the event is that of the place.

*NativeBackend.* At most one thread is between its load and its end, and the
statics (`g_return`, `g_ctx`, `g_range`) are those of that thread, with a clause
for each place where it may be.

*Syscalls.* `Inv` is the type and the three streams. `StepKinds` sorts the calls
by what they may touch, and ErrorsAreContained follows kind by kind. `LowestFdExact` shows that
the search from 3 on finds the lowest free descriptor of all;
`ImageSealed`, the invariant of `SystemImageReadOnly`, that no open descriptor of
the system image takes writes and that its files exist.

*ObjcRuntime.* `HeapInv` (blocks lie one behind the other below the cursor) and
`Blocks` (each object is the start of a block of its own, long enough for a
header) are what make ClassTablesAgree and IsaIsClass inductive: a fresh block
is no object, and `realloc` copies only into a fresh block.

*MachOImage.* `Filled` states the image for the commands read so far; `Room` that the records read lie one behind the other
below the end of the file.

*Loops over data.* The library's induction theorems take an operator, which no
installed prover can instantiate. Two lemmas replace them: `Climb` (a set of
numbers that holds 0 and, with each number, the next, holds all up to n) and
`Iterates` (a step function can be iterated n times, so the equation of a
recursive function over `0 .. n` has a solution and its `CHOOSE` is one). With
them a loop that is written as a recursive function is what its body says
(`NormalizedLoop`, `DecodedTyped`, `TotalTyped`, `LevelLoop`, `ObjectAtRows`), and an
invariant of the loop is a set that climbs.

*Sandbox.* `Resolved` relates the clean path after n components to the reference:
as many names as the depth of the walk, and at each depth the last name that was
pushed there; refused exactly when the depth was negative once or a name held a
NUL. `TranslateResolves` then takes the branches of `translate` one by one, each
with the mounted tree whose prefix it tests, and the last one, which refuses,
with a path that no tree is a prefix of.

*Launch.* `SessionInv` has one part per variable, and two that matter.
`IdsDistinct`: as many launches have drawn an id as the counter says, each with a
turn below it. Two ids are then different because their turns are
(`IdTellsTurn`: equal first words give equal clocks, equal second words then
equal products, and the multiplier has an inverse). `FilesOwned`: a file lies in
the container of its writer, and its parents are directories; that a store stays
there is `TranslateStaysInside` for a guest and the absence of `..` in an entry
for the unzip. `ScanInv` accounts for every steady archive: still to be looked
at, refused, or listed once; an archive that the host would not read is no longer
steady. `BundleInv` says that the entries before `i` are
unzipped, the last of each name; another launch cannot disturb it, because the
two containers have no path in common (`RootsApart`), and the guest of the launch
itself can only have saved over a file. That the guest finds the code that was
loaded is `TranslateRelative`, the sandbox's path for a relative name, against
`ExePlace`, the host's walk of the same name from the bundle directory.

*Plist.* An object decodes at a depth exactly if it is sound and what it refers to
decodes one level down (`AcceptedStep`). Down the levels from the top this gives
soundness of all that is in reach, and up from the level below the bound, where
nothing decodes, it gives the value.

### Only model-checked

Liveness (LoadTerminates, CallsReturn, LaunchAnswers) and ENABLED are outside the
prover's reach. Of the invariants only the second half of PlistExact is: that the
XML reader reads back what was written. Its three functions call each other
through `RECURSIVE` operators, and the prover loses its SMT backend where one is
in reach; `PlistXml` stands apart for that reason.

## 5. Not modelled

* Contents of regions other than pointer slots and publication counts; names,
  log lines and error messages.
* LEB128 and string decoding; the fields of Mach-O commands (a command is its
  number), names of segments and sections.
* The bytes of a property list: offset tables, escapes, digits of numbers, dates.
  Icons, version strings and the JSON answers; the zip crate, which is external.
* Paths are sequences of components: the splitting of strings is left out, what
  blanks, `.`, `..` and empty components mean is not.
* Decoding of `x16`, values of time, entropy, ids and ports.
* The HLE shims other than the allocator and the Objective-C runtime; in
  `Machine` an environment call returns any value. `ExecEvent::Exited`, which no backend reports, and the initializers,
  which the loader collects and nothing runs.
* The user interface, beyond its one thread per launch.

## 6. Plan

1. Done: `GuestMemory`, `AddressSpace`, `DyldBind`, `Rebase`, `ProcessLoad`,
   `Machine`, `NativeBackend`, `Syscalls`, `ObjcRuntime`, `MachOImage`,
   `Sandbox`, `Plist`, `PlistXml`, `Launch`; the proofs of section 4, in eight
   modules.
2. Compositions that are left: `Syscalls` inside `Machine` (exit, descriptors
   across reset_to_entry), `Machine` over `NativeBackend` as its executor,
   `Launch` over `ProcessLoad`; then the decoding of the system-call selector.
3. Proofs that are left: the XML reader, with its mutual recursion written as one
   function over the elements that remain; and a smaller hypothesis for
   `PointersAreFinal`: that `Emit` names pairwise different offsets when a run
   does not wrap is provable for one opcode, and would reduce NamesPointersOnce
   to the stream as a whole.
