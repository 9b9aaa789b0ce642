------------------------------- MODULE Machine -------------------------------
(***************************************************************************)
(* The execute/dispatch loop of crates/core/src/machine.rs: the guest runs *)
(* until an event, Machine::run services it and resumes the guest.         *)
(*                                                                         *)
(* The executor is external.  Either it honours the Executor trait, and    *)
(* the guest and the services share one memory, or (Mirrored) it is the    *)
(* device, where the guest runs on native pages and the services read and  *)
(* write the host buffers of GuestMemory; only commit_to_native copies the *)
(* second over the first.                                                  *)
(*                                                                         *)
(* Abstraction.  An address is a pair <<part, name>>.  The guest is any    *)
(* program that stores to its data, enters and leaves functions, makes     *)
(* system calls and calls imports through the pointer slots of __DATA; a   *)
(* slot holds the stub of its symbol, the __stub_helper entry of the slot, *)
(* or an address of the stub page that belongs to no symbol.  One unit of  *)
(* sp is a two-word frame.  x0 stands for x0..x8.                          *)
(***************************************************************************)
EXTENDS Integers

CONSTANTS
  Slots,            \* pointer slots of the image
  SymbolOf,         \* [Slots -> symbols]
  OffsetOf,         \* [Slots -> Nat]: the offset that the slot's helper pushes
  KnownOffsets,     \* the offsets that the lazy table holds
  ReadOnlySlots,    \* slots in a segment without write access
  StackTop,         \* frames of stack
  Args, Codes,      \* arguments and return values, exit codes
  MaxRuns,          \* bound on the runs of one Machine
  Mirrored          \* whether the guest runs on native pages

ASSUME MachineAssumption ==
  /\ SymbolOf \in [Slots -> STRING]
  /\ OffsetOf \in [Slots -> Nat] /\ KnownOffsets \subseteq Nat
  /\ ReadOnlySlots \subseteq Slots
  /\ StackTop \in Nat /\ MaxRuns \in Nat \ {0} /\ Mirrored \in BOOLEAN

VARIABLES
  cpu,              \* CpuContext: [pc, lr, sp, x0]
  guest,            \* memory as the guest sees it: [stack, slots, global]
  host,             \* memory as the services see it when Mirrored
  event,            \* the ExecEvent that run is servicing
  exit,             \* Machine::exit
  outcome,          \* what run returned
  runs,
  call,             \* history: the import call in flight, or the last one
  served            \* history: what the environment was asked for in that call

vars == <<cpu, guest, host, event, exit, outcome, runs, call, served>>

None == [kind |-> "none"]
NoExit == -1

Main == <<"text", "main">>
After == <<"text", "after">>                  \* the instruction after a call
Null == <<"null", "">>
Stub(s) == <<"stub", s>>
Helper(k) == <<"helper", k>>
Gap == <<"stub", "">>                         \* in the stub page, no symbol's stub
Binder == "dyld_stub_binder"
Targets(k) == {Stub(SymbolOf[k]), Helper(k), Gap}

View == IF Mirrored THEN host ELSE guest

Running == outcome = None
InGuest == Running /\ event = None
InText == InGuest /\ cpu.pc[1] = "text"

-----------------------------------------------------------------------------
(* CpuContext::entry: lr is left zero. *)
Entry == [pc |-> Main, lr |-> Null, sp |-> StackTop, x0 |-> 0]

Init ==
  /\ cpu = Entry
  /\ \E p \in [Slots -> UNION {Targets(k) : k \in Slots}] :
       /\ \A k \in Slots : p[k] \in Targets(k)
       /\ guest = [stack |-> [i \in 0 .. StackTop - 1 |-> 0], slots |-> p, global |-> 0]
  /\ host = guest
  /\ event = None /\ exit = NoExit /\ outcome = None /\ runs = 1
  /\ call = None /\ served = None

(* The guest *)

Raise(ev) == event' = ev /\ UNCHANGED <<guest, host, exit, outcome, runs, call, served>>

Store(v) ==
  /\ InText
  /\ guest' = [guest EXCEPT !.global = v]
  /\ UNCHANGED <<cpu, host, event, exit, outcome, runs, call, served>>

EnterFunction ==
  /\ InText /\ cpu.sp > 0
  /\ guest' = [guest EXCEPT !.stack[cpu.sp - 1] = 0]
  /\ cpu' = [cpu EXCEPT !.sp = @ - 1]
  /\ UNCHANGED <<host, event, exit, outcome, runs, call, served>>

LeaveFunction ==
  /\ InText /\ cpu.sp < StackTop
  /\ cpu' = [cpu EXCEPT !.sp = @ + 1]
  /\ UNCHANGED <<guest, host, event, exit, outcome, runs, call, served>>

\* main returns to the lr it was entered with.
ReturnFromMain ==
  /\ InText /\ cpu.sp = StackTop
  /\ cpu' = [cpu EXCEPT !.pc = Null]
  /\ Raise([kind |-> "fault"])

\* __stubs: jump to what the slot holds.
CallImport(k, a) ==
  /\ InText
  /\ cpu' = [cpu EXCEPT !.pc = guest.slots[k], !.lr = After, !.x0 = a]
  /\ call' = [kind |-> "call", slot |-> k, arg |-> a, sp |-> cpu.sp, ret |-> After]
  /\ served' = None
  /\ UNCHANGED <<guest, host, event, exit, outcome, runs>>

\* __stub_helper: push the slot's offset (and the cookie), jump to the binder.
StubHelper ==
  /\ InGuest /\ cpu.pc[1] = "helper" /\ cpu.sp > 0
  /\ guest' = [guest EXCEPT !.stack[cpu.sp - 1] = OffsetOf[cpu.pc[2]]]
  /\ cpu' = [cpu EXCEPT !.sp = @ - 1, !.pc = Stub(Binder)]
  /\ UNCHANGED <<host, event, exit, outcome, runs, call, served>>

StackOverflow ==
  /\ InGuest /\ cpu.pc[1] = "helper" /\ cpu.sp = 0
  /\ UNCHANGED cpu
  /\ Raise([kind |-> "fault"])

\* A branch into the stub page: ExecEvent::TrampolineCall.
Trap ==
  /\ InGuest /\ cpu.pc[1] = "stub"
  /\ UNCHANGED cpu
  /\ Raise([kind |-> "trampoline", addr |-> cpu.pc])

\* A system call; x16 selects exit or any other one.
Svc == InText /\ UNCHANGED cpu /\ Raise([kind |-> "syscall", nr |-> "other"])
SvcExit(code) ==
  /\ InText
  /\ cpu' = [cpu EXCEPT !.x0 = code]
  /\ Raise([kind |-> "syscall", nr |-> "exit"])

Brk == InText /\ UNCHANGED cpu /\ Raise([kind |-> "breakpoint"])

-----------------------------------------------------------------------------
(* Machine::run *)

(* service_syscall, then the test of self.exit. *)
ServiceSyscall ==
  /\ Running /\ event.kind = "syscall"
  /\ exit' = IF event.nr = "exit" THEN cpu.x0 ELSE exit
  /\ \E r \in Args \cup {0} : cpu' = [cpu EXCEPT !.x0 = r]
  /\ outcome' = IF exit' # NoExit THEN [kind |-> "exited", code |-> exit'] ELSE None
  /\ event' = None
  /\ UNCHANGED <<guest, host, runs, call, served>>

Trampoline == Running /\ event.kind = "trampoline"

\* Mutant: the early return leaves pc at the stub.
ServiceUnmapped_KeepPc ==
  /\ Trampoline /\ event.addr = Gap
  /\ event' = None
  /\ UNCHANGED <<cpu, guest, host, exit, outcome, runs, call, served>>

(* service_trampoline, an address of the page without a symbol. *)
ServiceUnmapped ==
  /\ Trampoline /\ event.addr = Gap
  /\ cpu' = [cpu EXCEPT !.pc = cpu.lr]
  /\ event' = None
  /\ UNCHANGED <<guest, host, exit, outcome, runs, call, served>>

(* service_trampoline, an import: the environment returns a value, or the
   fallback returns 0. *)
ServiceCall ==
  /\ Trampoline /\ event.addr \notin {Gap, Stub(Binder)}
  /\ served' = [kind |-> "served", sym |-> event.addr[2], arg |-> cpu.x0, sp |-> cpu.sp]
  /\ \E r \in Args \cup {0} : cpu' = [cpu EXCEPT !.x0 = r, !.pc = cpu.lr]
  /\ event' = None
  /\ UNCHANGED <<guest, host, exit, outcome, runs, call>>

(* The lazy table: the slot whose entry starts at an offset. *)
InBinder == Trampoline /\ event.addr = Stub(Binder)
Pushed == View.stack[cpu.sp]
LazySlots == {k \in Slots : OffsetOf[k] = Pushed /\ Pushed \in KnownOffsets}

\* write_u64 on the slot, and commit_to_native of the whole region around it.
Patch(k) ==
  IF k \in ReadOnlySlots
  THEN UNCHANGED <<guest, host>>
  ELSE LET new == [View EXCEPT !.slots[k] = Stub(SymbolOf[k])]
       IN  /\ guest' = [guest EXCEPT !.slots = new.slots, !.global = new.global]
           /\ host' = IF Mirrored THEN new ELSE host

\* Mutants: the frame of __stub_helper is not popped; x0 is cleared as by the
\* fallback of an import; the slot is not patched.
BindLazy_NoPop ==
  /\ InBinder
  /\ \E k \in LazySlots :
       /\ Patch(k)
       /\ cpu' = [cpu EXCEPT !.pc = Stub(SymbolOf[k])]
  /\ event' = None
  /\ UNCHANGED <<exit, outcome, runs, call, served>>
BindLazy_ClearX0 ==
  /\ InBinder
  /\ \E k \in LazySlots :
       /\ Patch(k)
       /\ cpu' = [cpu EXCEPT !.sp = @ + 1, !.x0 = 0, !.pc = Stub(SymbolOf[k])]
  /\ event' = None
  /\ UNCHANGED <<exit, outcome, runs, call, served>>
BindLazy_NoPatch ==
  /\ InBinder
  /\ \E k \in LazySlots :
       /\ UNCHANGED <<guest, host>>
       /\ cpu' = [cpu EXCEPT !.sp = @ + 1, !.pc = Stub(SymbolOf[k])]
  /\ event' = None
  /\ UNCHANGED <<exit, outcome, runs, call, served>>

(* dyld_stub_binder: patch the slot, pop the frame, tail-jump to the stub. *)
BindLazy ==
  /\ InBinder
  /\ \E k \in LazySlots :
       /\ Patch(k)
       /\ cpu' = [cpu EXCEPT !.sp = @ + 1, !.pc = Stub(SymbolOf[k])]
  /\ event' = None
  /\ UNCHANGED <<exit, outcome, runs, call, served>>

(* dyld_stub_binder without an entry for the offset: return to the caller. *)
BindGivesUp ==
  /\ InBinder /\ LazySlots = {}
  /\ cpu' = [cpu EXCEPT !.pc = cpu.lr]
  /\ event' = None
  /\ UNCHANGED <<guest, host, exit, outcome, runs, call, served>>

(* run returns: BRK is exit code 133, a fault is an error. *)
StopOnBreakpoint ==
  /\ Running /\ event.kind = "breakpoint"
  /\ outcome' = [kind |-> "exited", code |-> 133] /\ event' = None
  /\ UNCHANGED <<cpu, guest, host, exit, runs, call, served>>

StopOnFault ==
  /\ Running /\ event.kind = "fault"
  /\ outcome' = [kind |-> "error"] /\ event' = None
  /\ UNCHANGED <<cpu, guest, host, exit, runs, call, served>>

(* reset_to_entry, then run again. *)
ResetToEntry ==
  /\ ~ Running /\ runs < MaxRuns
  /\ cpu' = Entry /\ outcome' = None /\ runs' = runs + 1
  /\ call' = None /\ served' = None
  /\ UNCHANGED <<guest, host, event, exit>>

-----------------------------------------------------------------------------
GuestChooses ==
  \/ \E v \in Args : Store(v)
  \/ EnterFunction \/ LeaveFunction \/ ReturnFromMain \/ Svc \/ Brk
  \/ \E k \in Slots, a \in Args : CallImport(k, a)
  \/ \E c \in Codes : SvcExit(c)

\* Straight-line code: the processor takes these steps without being asked.
GuestContinues == StubHelper \/ StackOverflow \/ Trap

Service ==
  \/ ServiceSyscall \/ ServiceUnmapped \/ ServiceCall \/ BindLazy \/ BindGivesUp
  \/ StopOnBreakpoint \/ StopOnFault

Next == GuestChooses \/ GuestContinues \/ Service \/ ResetToEntry

Fairness == WF_vars(GuestContinues) /\ WF_vars(Service)

Spec == Init /\ [][Next]_vars /\ Fairness

-----------------------------------------------------------------------------
(* Properties *)

\* The fields of Machine have their types, and the guest's stack pointer stays
\* in the stack.
TypeOK ==
  /\ cpu.pc[1] \in {"text", "stub", "helper", "null"} /\ cpu.sp \in 0 .. StackTop
  /\ cpu.lr \in {After, Null}
  /\ \A k \in Slots : guest.slots[k] \in Targets(k) /\ host.slots[k] \in Targets(k)
  /\ event.kind \in {"none", "syscall", "trampoline", "breakpoint", "fault"}
  /\ exit \in Codes \cup {NoExit}
  /\ runs \in 1 .. MaxRuns

\* What the linker guarantees: the entries of the lazy stream start at different
\* offsets, and no __stubs entry calls the binder itself.
LinkedImage ==
  /\ \A j, k \in Slots : OffsetOf[j] = OffsetOf[k] => j = k
  /\ \A k \in Slots : SymbolOf[k] \notin {"", Binder}

InFlight == Running /\ call # None /\ (cpu.pc[1] # "text" \/ event.kind = "trampoline")

\* "x0..x8 are never touched": whichever way a call takes, straight or through
\* the lazy binder, the environment is asked for the symbol of the slot that
\* was called, with the caller's arguments and the caller's stack pointer.
CallArrivesIntact ==
  /\ TypeOK
  /\ served # None => /\ served.sym = SymbolOf[call.slot]
                      /\ served.arg = call.arg /\ served.sp = call.sp

\* "then return to the caller": the service of a call ends at the instruction
\* behind it and, unless the binder gave up on an offset that the lazy table
\* does not hold, with the stack pointer of the call.
KnownReturnsBalanced ==
  [][(InFlight /\ event # None /\ cpu'.pc[1] = "text")
       => /\ cpu'.pc = call.ret
          /\ OffsetOf[call.slot] \in KnownOffsets => cpu'.sp = call.sp]_vars

\* "so subsequent calls bypass the binder": once a call through a writable slot
\* was served, the guest finds the stub of the symbol in the slot for good.
BinderPaysOnce ==
  (served # None /\ call.slot \notin ReadOnlySlots)
    => guest.slots[call.slot] = Stub(SymbolOf[call.slot])

\* An import call is answered: the guest gets back to its own code, or the run
\* is over.
CallsReturn == InFlight ~> ~ InFlight

\* A service changes what the guest stored in its data only through the slots.
BindKeepsGuestStores ==
  [][event.kind = "trampoline" => guest'.global = guest.global]_vars
=============================================================================
