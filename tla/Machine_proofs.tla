--------------------------- MODULE Machine_proofs ---------------------------
(***************************************************************************)
(* Proofs about Machine, for every image, stack, program and number of     *)
(* runs, with an executor that honours the Executor trait (~ Mirrored);    *)
(* and about its executor on the device, NativeBackend, for launches that  *)
(* follow one another, on any number of threads.                           *)
(***************************************************************************)
EXTENDS Machine, NativeBackend, TLAPS

(* Types *)

Locations ==
  {Main, After, Null, Gap, Stub(Binder)} \cup {Stub(SymbolOf[k]) : k \in Slots}
    \cup {Helper(k) : k \in Slots}
Words == Args \cup Codes \cup {0}

Cpus == [pc : Locations, lr : {After, Null}, sp : 0 .. StackTop, x0 : Words]
Memories == [stack : [0 .. StackTop - 1 -> Nat], slots : [Slots -> Locations], global : Words]
Events ==
  {None, [kind |-> "fault"], [kind |-> "breakpoint"]}
    \cup [kind : {"syscall"}, nr : {"exit", "other"}]
    \cup [kind : {"trampoline"}, addr : Locations]
Calls == [kind : {"call"}, slot : Slots, arg : Args, sp : 0 .. StackTop, ret : {After}]

Typed ==
  /\ cpu \in Cpus /\ guest \in Memories /\ host \in Memories /\ event \in Events
  /\ exit \in Codes \cup {NoExit} /\ runs \in 1 .. MaxRuns
  /\ \A k \in Slots : guest.slots[k] \in Targets(k) /\ host.slots[k] \in Targets(k)
  /\ call \in Calls \cup {None}

\* What an event says about the processor that raised it.
EventSound ==
  /\ event.kind = "syscall" =>
       cpu.pc \in {Main, After} /\ (event.nr = "exit" => cpu.x0 \in Codes)
  /\ event.kind = "trampoline" => cpu.pc[1] = "stub" /\ event.addr = cpu.pc

\* A machine that has stopped services nothing.
Idle == ~ Running => event = None

\* Outside the program's own text the processor is on the way of the call in
\* flight: in the helper of the slot, in the binder with the slot's offset on
\* the stack, at an address without a symbol, or at the stub of the symbol, and
\* then the slot has been patched.
Bound(k) == k \notin ReadOnlySlots => guest.slots[k] = Stub(SymbolOf[k])
InCall == call # None /\ served = None /\ cpu.lr = After /\ cpu.x0 = call.arg
Position ==
  \/ cpu.pc \in {Main, After}
  \/ cpu.pc = Null /\ (event.kind = "fault" \/ ~ Running)
  \/ InCall /\ cpu.sp = call.sp /\ cpu.pc \in {Helper(call.slot), Gap}
  \/ InCall /\ cpu.sp = call.sp /\ cpu.pc = Stub(SymbolOf[call.slot]) /\ Bound(call.slot)
  \/ /\ InCall /\ cpu.sp = call.sp - 1 /\ cpu.pc = Stub(Binder)
     /\ guest.stack[cpu.sp] = OffsetOf[call.slot]

\* What the environment was asked for is what the guest called.
ServedSound ==
  served # None =>
    /\ call # None /\ Bound(call.slot)
    /\ served.sym = SymbolOf[call.slot] /\ served.arg = call.arg /\ served.sp = call.sp

\* The inductive invariant.
Inv == ~ Mirrored /\ LinkedImage /\ Typed /\ EventSound /\ Idle /\ Position /\ ServedSound

\* The parts of an address tell the locations apart.
LEMMA LocationsApart ==
  ASSUME LinkedImage
  PROVE  /\ \A k \in Slots : /\ Stub(SymbolOf[k]) \notin {Main, After, Null, Gap, Stub(Binder)}
                             /\ Helper(k) \notin {Main, After, Null, Gap, Stub(Binder)}
                             /\ \A j \in Slots : Stub(SymbolOf[k]) # Helper(j)
                             /\ \A j \in Slots : Helper(k) = Helper(j) => k = j
         /\ Gap # Stub(Binder)
         /\ {Gap, Stub(Binder)} \cap {Main, After, Null} = {}
         /\ Main[1] = "text" /\ After[1] = "text" /\ Null[1] = "null" /\ Gap[1] = "stub"
         /\ \A s : Stub(s)[1] = "stub" /\ Stub(s)[2] = s
         /\ \A k : Helper(k)[1] = "helper" /\ Helper(k)[2] = k
<1>1. \A s : Stub(s)[1] = "stub" /\ Stub(s)[2] = s
  BY DEF Stub
<1>2. \A k : Helper(k)[1] = "helper" /\ Helper(k)[2] = k
  BY DEF Helper
<1>3. /\ Main[1] = "text" /\ After[1] = "text" /\ Null[1] = "null"
      /\ Gap[1] = "stub" /\ Gap[2] = "" /\ "" # Binder
  BY DEF Main, After, Null, Gap, Binder
<1>4. \A k \in Slots : SymbolOf[k] # "" /\ SymbolOf[k] # Binder
  BY DEF LinkedImage
<1>5. ASSUME NEW k \in Slots
      PROVE  /\ Stub(SymbolOf[k]) \notin {Main, After, Null, Gap, Stub(Binder)}
             /\ \A j \in Slots : Stub(SymbolOf[k]) # Helper(j)
  <2>1. Stub(SymbolOf[k])[1] = "stub" /\ Stub(SymbolOf[k])[2] = SymbolOf[k]
    BY <1>1
  <2>2. Stub(Binder)[2] = Binder
    BY <1>1
  <2>3. \A j \in Slots : Helper(j)[1] = "helper"
    BY <1>2
  <2>4. Stub(SymbolOf[k]) \notin {Main, After, Null}
    BY <2>1, <1>3
  <2>5. Stub(SymbolOf[k]) # Gap /\ Stub(SymbolOf[k]) # Stub(Binder)
    BY <2>1, <2>2, <1>3, <1>4
  <2> QED BY <2>1, <2>3, <2>4, <2>5
<1>6. ASSUME NEW k \in Slots
      PROVE  /\ Helper(k) \notin {Main, After, Null, Gap, Stub(Binder)}
             /\ \A j \in Slots : Helper(k) = Helper(j) => k = j
  <2>1. Helper(k)[1] = "helper" /\ Stub(Binder)[1] = "stub"
    BY <1>1, <1>2
  <2>2. \A j \in Slots : Helper(k) = Helper(j) => k = j
    BY DEF Helper
  <2> QED BY <2>1, <2>2, <1>3
<1>7. Gap # Stub(Binder) /\ {Gap, Stub(Binder)} \cap {Main, After, Null} = {}
  BY <1>1, <1>3
<1> QED BY <1>1, <1>2, <1>3, <1>5, <1>6, <1>7

\* CpuContext::entry and the image as the loader leaves it.
LEMMA InitInv == ~ Mirrored /\ LinkedImage /\ Init => Inv
<1> SUFFICES ASSUME ~ Mirrored, LinkedImage, Init PROVE Inv
  OBVIOUS
<1>1. PICK p \in [Slots -> UNION {Targets(k) : k \in Slots}] :
        /\ \A k \in Slots : p[k] \in Targets(k)
        /\ guest = [stack |-> [i \in 0 .. StackTop - 1 |-> 0], slots |-> p, global |-> 0]
  BY DEF Init
<1>2. p \in [Slots -> Locations]
  BY DEF Locations, Targets
<1>3. guest \in Memories /\ host = guest
  BY <1>1, <1>2 DEF Memories, Words, Init
<1>4. cpu \in Cpus
  BY MachineAssumption DEF Init, Entry, Cpus, Locations, Words
<1>5. Typed
  BY <1>1, <1>3, <1>4, MachineAssumption DEF Typed, Init, Events
<1>6. event.kind = "none" /\ cpu.pc = Main /\ served = None
  BY DEF Init, None, Entry
<1> QED BY <1>5, <1>6 DEF Inv, EventSound, Idle, Running, Init, Position, ServedSound

-----------------------------------------------------------------------------
(* The guest's own steps *)

\* Steps in the program's text that raise an event or move the frame pointer.
LEMMA TextStep ==
  ASSUME Inv,
         \/ \E v \in Args : Store(v)
         \/ EnterFunction \/ LeaveFunction \/ ReturnFromMain \/ Svc \/ Brk
         \/ \E c \in Codes : SvcExit(c)
  PROVE  Inv'
<1> USE DEF Inv
<1>0. cpu \in Cpus /\ guest \in Memories /\ StackTop \in Nat
  BY MachineAssumption DEF Typed
<1>1. cpu.pc \in {Main, After} /\ event = None /\ Running
  <2>1. InText
    BY DEF Store, EnterFunction, LeaveFunction, ReturnFromMain, Svc, Brk, SvcExit
  <2> QED BY <2>1, LocationsApart DEF InText, InGuest, Position, Typed, None
<1>2. UNCHANGED <<host, exit, outcome, runs, call, served>>
  BY DEF Store, EnterFunction, LeaveFunction, ReturnFromMain, Svc, Brk, SvcExit, Raise
<1>3. guest' \in Memories /\ guest'.slots = guest.slots
  <2>1. CASE guest' = guest
    BY <1>0, <2>1
  <2>2. ASSUME NEW v \in Args, guest' = [guest EXCEPT !.global = v]
        PROVE  guest' \in Memories /\ guest'.slots = guest.slots
    BY <1>0, <2>2 DEF Memories, Words
  <2>3. CASE EnterFunction
    <3>1. cpu.sp - 1 \in 0 .. StackTop - 1 /\ guest' = [guest EXCEPT !.stack[cpu.sp - 1] = 0]
      BY <1>0, <2>3 DEF EnterFunction, Cpus
    <3> QED BY <1>0, <3>1 DEF Memories
  <2> QED BY <2>1, <2>2, <2>3
        DEF Store, LeaveFunction, ReturnFromMain, Svc, Brk, SvcExit, Raise
<1>4. /\ cpu' \in Cpus
      /\ cpu'.pc \in {Main, After} \/ (cpu'.pc = Null /\ event'.kind = "fault")
  <2>1. CASE EnterFunction
    BY <1>0, <1>1, <2>1 DEF EnterFunction, Cpus
  <2>2. CASE LeaveFunction
    BY <1>0, <1>1, <2>2 DEF LeaveFunction, Cpus
  <2>3. CASE ReturnFromMain
    BY <1>0, <1>1, <2>3 DEF ReturnFromMain, Cpus, Raise, Locations
  <2>4. ASSUME NEW c \in Codes, SvcExit(c)
        PROVE  cpu' \in Cpus /\ cpu'.pc \in {Main, After}
    BY <1>0, <1>1, <2>4 DEF SvcExit, Cpus, Words
  <2>5. CASE cpu' = cpu
    BY <1>0, <1>1, <2>5
  <2> QED BY <2>1, <2>2, <2>3, <2>4, <2>5 DEF Store, Svc, Brk
<1>5. /\ event' \in Events /\ event'.kind # "trampoline"
      /\ event'.kind = "syscall" => cpu'.pc \in {Main, After} /\ (event'.nr = "exit" => cpu'.x0 \in Codes)
  <2>1. CASE event' = None
    BY <2>1 DEF Events, None
  <2>2. CASE event' = [kind |-> "fault"] \/ event' = [kind |-> "breakpoint"]
    BY <2>2 DEF Events
  <2>3. CASE Svc
    <3>1. event' = [kind |-> "syscall", nr |-> "other"] /\ cpu' = cpu
      BY <2>3 DEF Svc, Raise
    <3> QED BY <1>1, <3>1 DEF Events
  <2>4. ASSUME NEW c \in Codes, SvcExit(c)
        PROVE  /\ event' \in Events /\ event'.kind # "trampoline"
               /\ cpu'.pc \in {Main, After} /\ cpu'.x0 \in Codes
    <3>1. event' = [kind |-> "syscall", nr |-> "exit"] /\ cpu' = [cpu EXCEPT !.x0 = c]
      BY <2>4 DEF SvcExit, Raise
    <3> QED BY <1>0, <1>1, <3>1 DEF Events, Cpus
  <2> QED BY <1>1, <2>1, <2>2, <2>3, <2>4
        DEF Store, EnterFunction, LeaveFunction, ReturnFromMain, Brk, Raise
<1>6. Typed'
  BY <1>2, <1>3, <1>4, <1>5 DEF Typed, Targets
<1>7. Position'
  BY <1>4 DEF Position
<1>8. EventSound'
  BY <1>5 DEF EventSound
<1>9. ServedSound'
  BY <1>2, <1>3 DEF ServedSound, Bound
<1>10. Idle'
  BY <1>1, <1>2 DEF Idle, Running
<1> QED BY <1>6, <1>7, <1>8, <1>9, <1>10 DEF LinkedImage

\* A call through a slot starts on one of the three ways.
LEMMA CallStep ==
  ASSUME Inv, NEW k \in Slots, NEW a \in Args, CallImport(k, a)
  PROVE  Inv'
<1> USE DEF Inv
<1>0. cpu \in Cpus /\ guest \in Memories /\ event = None
  BY DEF Typed, CallImport, InText, InGuest
<1>1. /\ cpu' = [cpu EXCEPT !.pc = guest.slots[k], !.lr = After, !.x0 = a]
      /\ call' = [kind |-> "call", slot |-> k, arg |-> a, sp |-> cpu.sp, ret |-> After]
      /\ served' = None
      /\ UNCHANGED <<guest, host, event, exit, outcome, runs>>
  BY DEF CallImport
<1>2. guest.slots[k] \in Targets(k) /\ guest.slots[k] \in Locations
  BY <1>0 DEF Typed, Memories
<1>3. cpu' \in Cpus /\ cpu'.pc = guest.slots[k] /\ cpu'.lr = After /\ cpu'.x0 = a /\ cpu'.sp = cpu.sp
  BY <1>0, <1>1, <1>2 DEF Cpus, Words
<1>4. call' \in Calls /\ call' # None /\ call'.slot = k /\ call'.arg = a /\ call'.sp = cpu.sp
  BY <1>0, <1>1 DEF Calls, None, Cpus
<1>5. Typed'
  BY <1>1, <1>3, <1>4 DEF Typed, Targets
<1>6. Position'
  <2>1. InCall'
    BY <1>1, <1>3, <1>4 DEF InCall
  <2>2. CASE guest.slots[k] = Stub(SymbolOf[k])
    BY <1>1, <1>3, <1>4, <2>1, <2>2 DEF Position, Bound
  <2>3. CASE guest.slots[k] \in {Helper(k), Gap}
    BY <1>1, <1>3, <1>4, <2>1, <2>3 DEF Position
  <2> QED BY <1>2, <2>2, <2>3 DEF Targets
<1>7. EventSound'
  <2>1. event'.kind = "none"
    BY <1>0, <1>1 DEF None
  <2> QED BY <2>1 DEF EventSound
<1>8. ServedSound' /\ Idle'
  BY <1>0, <1>1 DEF ServedSound, Idle
<1> QED BY <1>5, <1>6, <1>7, <1>8 DEF LinkedImage

\* __stub_helper pushes the offset of the slot that was called.
LEMMA HelperStep ==
  ASSUME Inv, StubHelper
  PROVE  Inv'
<1> USE DEF Inv
<1>0. cpu \in Cpus /\ guest \in Memories /\ event = None /\ StackTop \in Nat /\ Running
  BY MachineAssumption DEF Typed, StubHelper, InGuest
<1>1. /\ InCall /\ cpu.sp = call.sp /\ cpu.pc = Helper(call.slot) /\ call \in Calls
      /\ call.slot \in Slots
  <2>1. cpu.pc[1] = "helper"
    BY DEF StubHelper
  <2>2. cpu.pc \notin {Main, After, Null, Gap, Stub(Binder)}
    BY <2>1, LocationsApart
  <2>3. cpu.pc # Stub(SymbolOf[call.slot])
    BY <2>1, LocationsApart
  <2>4. InCall /\ cpu.sp = call.sp /\ cpu.pc = Helper(call.slot)
    BY <2>2, <2>3 DEF Position
  <2> QED BY <2>4 DEF InCall, Typed, Calls
<1>2. OffsetOf[call.slot] \in Nat /\ OffsetOf[cpu.pc[2]] = OffsetOf[call.slot]
  BY <1>1, MachineAssumption, LocationsApart
<1>3. /\ guest' = [guest EXCEPT !.stack[cpu.sp - 1] = OffsetOf[call.slot]]
      /\ cpu' = [cpu EXCEPT !.sp = @ - 1, !.pc = Stub(Binder)]
      /\ UNCHANGED <<host, event, exit, outcome, runs, call, served>>
  BY <1>2 DEF StubHelper
<1>4. cpu.sp - 1 \in 0 .. StackTop - 1 /\ cpu.sp - 1 \in 0 .. StackTop
  BY <1>0 DEF StubHelper, Cpus
<1>5. /\ guest' \in Memories /\ guest'.slots = guest.slots
      /\ guest'.stack[cpu.sp - 1] = OffsetOf[call.slot]
  BY <1>0, <1>2, <1>3, <1>4 DEF Memories
<1>6. /\ cpu' \in Cpus /\ cpu'.pc = Stub(Binder) /\ cpu'.sp = cpu.sp - 1
      /\ cpu'.lr = cpu.lr /\ cpu'.x0 = cpu.x0
  BY <1>0, <1>3, <1>4 DEF Cpus, Locations
<1>7. Typed'
  BY <1>3, <1>5, <1>6 DEF Typed, Targets
<1>8. Position'
  BY <1>1, <1>3, <1>5, <1>6 DEF Position, InCall
<1>9. EventSound'
  <2>1. event'.kind = "none"
    BY <1>0, <1>3 DEF None
  <2> QED BY <2>1 DEF EventSound
<1>10. ServedSound' /\ Idle'
  BY <1>0, <1>3, <1>5 DEF ServedSound, Bound, Idle
<1> QED BY <1>7, <1>8, <1>9, <1>10 DEF LinkedImage

\* The branch to the stub page and the overflow of the stack only raise an event.
LEMMA TrapStep ==
  ASSUME Inv, Trap \/ StackOverflow
  PROVE  Inv'
<1> USE DEF Inv
<1>0. cpu \in Cpus /\ cpu.pc \in Locations
  BY DEF Typed, Cpus
<1>1. UNCHANGED <<cpu, guest, host, exit, outcome, runs, call, served>>
  BY DEF Trap, StackOverflow, Raise
<1>2. /\ event' \in Events /\ event'.kind \in {"trampoline", "fault"}
      /\ event'.kind = "trampoline" => cpu.pc[1] = "stub" /\ event'.addr = cpu.pc
  BY <1>0 DEF Trap, StackOverflow, Raise, Events
<1>3. cpu.pc # Null
  BY LocationsApart DEF Trap, StackOverflow
<1>4. Typed'
  BY <1>1, <1>2 DEF Typed, Targets
<1>5. Position'
  BY <1>1, <1>3 DEF Position, InCall, Bound, Running
<1>6. EventSound' /\ ServedSound'
  BY <1>1, <1>2 DEF EventSound, ServedSound, Bound
<1>7. Idle'
  BY <1>1 DEF Idle, Running, Trap, StackOverflow, InGuest
<1> QED BY <1>4, <1>5, <1>6, <1>7 DEF LinkedImage

-----------------------------------------------------------------------------
(* Machine::run *)

\* The service of a trampoline finds the processor where the event says.
LEMMA AtStub ==
  ASSUME Inv, Trampoline
  PROVE  /\ event.addr = cpu.pc /\ cpu.pc[1] = "stub"
         /\ InCall /\ call \in Calls /\ call.slot \in Slots
         /\ \/ cpu.sp = call.sp /\ cpu.pc = Gap
            \/ cpu.sp = call.sp /\ cpu.pc = Stub(SymbolOf[call.slot]) /\ Bound(call.slot)
            \/ /\ cpu.sp = call.sp - 1 /\ cpu.pc = Stub(Binder)
               /\ guest.stack[cpu.sp] = OffsetOf[call.slot]
<1> USE DEF Inv
<1>1. event.addr = cpu.pc /\ cpu.pc[1] = "stub"
  BY DEF Trampoline, EventSound
<1>2. cpu.pc \notin {Main, After, Null} /\ cpu.pc # Helper(call.slot)
  BY <1>1, LocationsApart
<1>3. InCall
  BY <1>2 DEF Position
<1>4. call \in Calls
  BY <1>3 DEF InCall, Typed
<1> QED BY <1>1, <1>2, <1>3, <1>4 DEF Position, Calls

\* A service that returns to the caller of the import.
LEMMA ReturnStep ==
  ASSUME Inv, ServiceUnmapped \/ ServiceCall \/ BindGivesUp
  PROVE  Inv'
<1> USE DEF Inv
<1>0. Trampoline /\ cpu \in Cpus
  BY DEF ServiceUnmapped, ServiceCall, BindGivesUp, InBinder, Typed
<1>1. InCall /\ call.slot \in Slots
  BY <1>0, AtStub
<1>2. UNCHANGED <<guest, host, exit, outcome, runs, call>> /\ event' = None
  BY DEF ServiceUnmapped, ServiceCall, BindGivesUp
<1>3. cpu' \in Cpus /\ cpu'.pc = After
  <2>1. After \in Locations
    BY DEF Locations
  <2>2. CASE cpu' = [cpu EXCEPT !.pc = cpu.lr]
    BY <1>0, <1>1, <2>1, <2>2 DEF InCall, Cpus
  <2>3. ASSUME NEW r \in Args \cup {0}, cpu' = [cpu EXCEPT !.x0 = r, !.pc = cpu.lr]
        PROVE  cpu' \in Cpus /\ cpu'.pc = After
    BY <1>0, <1>1, <2>1, <2>3 DEF InCall, Cpus, Words
  <2> QED BY <2>2, <2>3 DEF ServiceUnmapped, ServiceCall, BindGivesUp
<1>4. Typed'
  BY <1>2, <1>3 DEF Typed, Targets, Events
<1>5. Position'
  BY <1>3 DEF Position
<1>6. EventSound'
  <2>1. event'.kind = "none"
    BY <1>2 DEF None
  <2> QED BY <2>1 DEF EventSound
<1>7. ServedSound'
  <2>1. CASE served' = served
    BY <1>2, <2>1 DEF ServedSound, Bound
  <2>2. CASE ServiceCall
    <3>1. /\ event.addr \notin {Gap, Stub(Binder)}
          /\ served' = [kind |-> "served", sym |-> event.addr[2], arg |-> cpu.x0, sp |-> cpu.sp]
      BY <2>2 DEF ServiceCall
    <3>2. event.addr = Stub(SymbolOf[call.slot]) /\ cpu.sp = call.sp /\ Bound(call.slot)
      BY <1>0, <3>1, AtStub
    <3>3. event.addr[2] = SymbolOf[call.slot]
      BY <3>2, LocationsApart
    <3> QED BY <1>1, <1>2, <3>1, <3>2, <3>3 DEF ServedSound, InCall, Bound
  <2> QED BY <2>1, <2>2 DEF ServiceUnmapped, BindGivesUp
<1>8. Idle'
  BY <1>2 DEF Idle
<1> QED BY <1>4, <1>5, <1>6, <1>7, <1>8 DEF LinkedImage

\* The binder finds the slot that was called, patches it and pops the frame.
LEMMA BindStep ==
  ASSUME Inv, BindLazy
  PROVE  Inv'
<1> USE DEF Inv
<1>0. Trampoline /\ event.addr = Stub(Binder) /\ cpu \in Cpus /\ guest \in Memories /\ StackTop \in Nat
  BY MachineAssumption DEF BindLazy, InBinder, Typed
<1>1. /\ InCall /\ call \in Calls /\ call.slot \in Slots /\ cpu.sp = call.sp - 1
      /\ guest.stack[cpu.sp] = OffsetOf[call.slot]
  BY <1>0, AtStub, LocationsApart
<1>2. PICK k \in Slots :
        /\ OffsetOf[k] = guest.stack[cpu.sp]
        /\ Patch(k)
        /\ cpu' = [cpu EXCEPT !.sp = @ + 1, !.pc = Stub(SymbolOf[k])]
  BY DEF BindLazy, LazySlots, Pushed, View
<1>3. k = call.slot
  BY <1>1, <1>2 DEF LinkedImage
<1>4. UNCHANGED <<exit, outcome, runs, call, served>> /\ event' = None
  BY DEF BindLazy
<1>5. cpu.sp \in Int /\ cpu.sp + 1 = call.sp /\ call.sp \in 0 .. StackTop
  BY <1>0, <1>1 DEF Cpus, Calls
<1>6. Stub(SymbolOf[k]) \in Locations /\ Stub(SymbolOf[k]) \in Targets(k)
  BY DEF Locations, Targets
<1>7. /\ cpu' \in Cpus /\ cpu'.pc = Stub(SymbolOf[k]) /\ cpu'.sp = call.sp
      /\ cpu'.lr = cpu.lr /\ cpu'.x0 = cpu.x0
  BY <1>0, <1>2, <1>5, <1>6 DEF Cpus
<1>8. /\ guest' \in Memories /\ host' = host
      /\ \A j \in Slots : guest'.slots[j] = guest.slots[j] \/ guest'.slots[j] = Stub(SymbolOf[j])
      /\ k \notin ReadOnlySlots => guest'.slots[k] = Stub(SymbolOf[k])
  <2>1. CASE k \in ReadOnlySlots
    BY <1>0, <1>2, <2>1 DEF Patch
  <2>2. CASE k \notin ReadOnlySlots
    <3>1. /\ guest' = [guest EXCEPT !.slots = [guest EXCEPT !.slots[k] = Stub(SymbolOf[k])].slots,
                                    !.global = [guest EXCEPT !.slots[k] = Stub(SymbolOf[k])].global]
          /\ host' = host
      BY <1>2, <2>2 DEF Patch, View
    <3>2. guest' = [guest EXCEPT !.slots = [guest.slots EXCEPT ![k] = Stub(SymbolOf[k])],
                                 !.global = guest.global]
      BY <1>0, <3>1 DEF Memories
    <3>3. guest'.slots = [guest.slots EXCEPT ![k] = Stub(SymbolOf[k])] /\ guest' \in Memories
      BY <1>0, <1>6, <3>2 DEF Memories
    <3> QED BY <1>0, <3>1, <3>3 DEF Memories
  <2> QED BY <2>1, <2>2
<1>9. Typed'
  <2>1. \A j \in Slots : guest'.slots[j] \in Targets(j)
    BY <1>8 DEF Typed, Targets
  <2> QED BY <1>4, <1>7, <1>8, <2>1 DEF Typed, Targets, Events
<1>10. Position'
  BY <1>1, <1>3, <1>4, <1>7, <1>8 DEF Position, InCall, Bound
<1>11. EventSound'
  <2>1. event'.kind = "none"
    BY <1>4 DEF None
  <2> QED BY <2>1 DEF EventSound
<1>12. ServedSound' /\ Idle'
  BY <1>1, <1>4 DEF ServedSound, InCall, Idle
<1> QED BY <1>9, <1>10, <1>11, <1>12 DEF LinkedImage

\* The end of a run, a system call and a new run leave the call in flight alone
\* or forget it.
LEMMA RunStep ==
  ASSUME Inv, ServiceSyscall \/ StopOnBreakpoint \/ StopOnFault \/ ResetToEntry
  PROVE  Inv'
<1> USE DEF Inv
<1>0. cpu \in Cpus /\ StackTop \in Nat /\ MaxRuns \in Nat /\ runs \in 1 .. MaxRuns
  BY MachineAssumption DEF Typed
<1>1. CASE ServiceSyscall
  <2>1. /\ cpu.pc \in {Main, After} /\ (event.nr = "exit" => cpu.x0 \in Codes)
        /\ event' = None /\ UNCHANGED <<guest, host, runs, call, served>>
        /\ exit' = IF event.nr = "exit" THEN cpu.x0 ELSE exit
    BY <1>1 DEF ServiceSyscall, EventSound
  <2>2. cpu' \in Cpus /\ cpu'.pc \in {Main, After}
    <3>1. PICK r \in Args \cup {0} : cpu' = [cpu EXCEPT !.x0 = r]
      BY <1>1 DEF ServiceSyscall
    <3> QED BY <1>0, <2>1, <3>1 DEF Cpus, Words
  <2>3. event' \in Events /\ event'.kind = "none"
    BY <2>1 DEF Events, None
  <2>4. Typed'
    BY <2>1, <2>2, <2>3 DEF Typed, Targets
  <2>5. Position' /\ EventSound' /\ Idle' /\ ServedSound'
    BY <2>1, <2>2, <2>3 DEF Position, EventSound, Idle, ServedSound, Bound
  <2> QED BY <2>4, <2>5 DEF LinkedImage
<1>2. CASE StopOnBreakpoint \/ StopOnFault
  <2>1. event' = None /\ UNCHANGED <<cpu, guest, host, exit, runs, call, served>> /\ ~ Running'
    BY <1>2 DEF StopOnBreakpoint, StopOnFault, Running, None
  <2>2. event' \in Events /\ event'.kind = "none"
    BY <2>1 DEF Events, None
  <2>3. Typed'
    BY <2>1, <2>2 DEF Typed, Targets
  <2>4. Position'
    BY <2>1 DEF Position, InCall, Bound
  <2>5. EventSound' /\ Idle' /\ ServedSound'
    BY <2>1, <2>2 DEF EventSound, Idle, ServedSound, Bound
  <2> QED BY <2>3, <2>4, <2>5 DEF LinkedImage
<1>3. CASE ResetToEntry
  <2>1. /\ cpu' = Entry /\ runs' = runs + 1 /\ runs < MaxRuns /\ call' = None /\ served' = None
        /\ UNCHANGED <<guest, host, event, exit>>
    BY <1>3 DEF ResetToEntry
  <2>2. cpu' \in Cpus /\ cpu'.pc = Main
    BY <1>0, <2>1 DEF Entry, Cpus, Locations, Words
  <2>3. event = None /\ event'.kind = "none"
    BY <1>3, <2>1 DEF ResetToEntry, Idle, None
  <2>4. Typed'
    BY <1>0, <2>1, <2>2 DEF Typed, Targets
  <2>5. Position' /\ EventSound' /\ Idle' /\ ServedSound'
    BY <2>1, <2>2, <2>3 DEF Position, EventSound, Idle, ServedSound
  <2> QED BY <2>4, <2>5 DEF LinkedImage
<1> QED BY <1>1, <1>2, <1>3

\* Every step preserves the invariant.
LEMMA NextInv == Inv /\ [Next]_vars => Inv'
<1> SUFFICES ASSUME Inv, [Next]_vars PROVE Inv'
  OBVIOUS
<1>1. CASE GuestChooses
  BY <1>1, TextStep, CallStep DEF GuestChooses
<1>2. CASE GuestContinues
  BY <1>2, HelperStep, TrapStep DEF GuestContinues
<1>3. CASE Service
  BY <1>3, ReturnStep, BindStep, RunStep DEF Service
<1>4. CASE ResetToEntry
  BY <1>4, RunStep
<1>5. CASE UNCHANGED vars
  BY <1>5 DEF vars, Inv, LinkedImage, Typed, Targets, EventSound, Idle, Running, Position,
     InCall, Bound, ServedSound
<1> QED BY <1>1, <1>2, <1>3, <1>4, <1>5 DEF Next

-----------------------------------------------------------------------------
(* Theorems *)

\* Straight through the slot or through the lazy binder, an import call reaches
\* the environment under the symbol of its slot, with the arguments and the
\* stack pointer of the caller.
THEOREM CallsArriveIntact == ~ Mirrored /\ LinkedImage /\ Spec => []CallArrivesIntact
<1>1. Inv => CallArrivesIntact
  <2> SUFFICES ASSUME Inv PROVE CallArrivesIntact
    OBVIOUS
  <2>1. cpu.pc \in Locations /\ cpu.sp \in 0 .. StackTop /\ cpu.lr \in {After, Null}
    BY DEF Inv, Typed, Cpus
  <2>2. cpu.pc[1] \in {"text", "stub", "helper", "null"}
    BY <2>1, LocationsApart DEF Locations, Inv
  <2>3. event.kind \in {"none", "syscall", "trampoline", "breakpoint", "fault"}
    BY DEF Inv, Typed, Events, None
  <2>4. TypeOK
    BY <2>1, <2>2, <2>3 DEF TypeOK, Inv, Typed
  <2> QED BY <2>4 DEF CallArrivesIntact, Inv, ServedSound
<1> QED BY <1>1, InitInv, NextInv, PTL DEF Spec

\* Once a call through a writable slot was served, the slot holds the stub of
\* its symbol: the binder is asked at most once for a slot.
THEOREM BinderPatchesForGood == ~ Mirrored /\ LinkedImage /\ Spec => []BinderPaysOnce
<1>1. Inv => BinderPaysOnce
  BY DEF BinderPaysOnce, Inv, ServedSound, Bound
<1> QED BY <1>1, InitInv, NextInv, PTL DEF Spec

\* The service of an import ends behind the call and, if the lazy table knows
\* the offset, with the stack pointer of the call.
THEOREM ReturnsBalanced == ~ Mirrored /\ LinkedImage /\ Spec => KnownReturnsBalanced
<1>1. Inv /\ [Next]_vars =>
        [(InFlight /\ event # None /\ cpu'.pc[1] = "text")
           => /\ cpu'.pc = call.ret
              /\ OffsetOf[call.slot] \in KnownOffsets => cpu'.sp = call.sp]_vars
  <2> SUFFICES ASSUME Inv, Next, InFlight, event # None, cpu'.pc[1] = "text"
               PROVE  /\ cpu'.pc = call.ret
                      /\ OffsetOf[call.slot] \in KnownOffsets => cpu'.sp = call.sp
    OBVIOUS
  <2>0. cpu \in Cpus /\ Running
    BY DEF Inv, Typed, InFlight
  <2>1. Service
    BY <2>0 DEF Next, GuestChooses, GuestContinues, Store, EnterFunction, LeaveFunction,
       ReturnFromMain, Svc, Brk, CallImport, SvcExit, StubHelper, StackOverflow, Trap,
       InText, InGuest, ResetToEntry
  <2>2. Trampoline
    <3>1. ~ ServiceSyscall
      <4>1. event.kind = "syscall" => cpu.pc[1] = "text"
        BY LocationsApart DEF Inv, EventSound
      <4> QED BY <4>1 DEF ServiceSyscall, InFlight
    <3>2. StopOnBreakpoint \/ StopOnFault => cpu' = cpu
      BY DEF StopOnBreakpoint, StopOnFault
    <3>3. StopOnBreakpoint \/ StopOnFault => event.kind # "trampoline"
      BY DEF StopOnBreakpoint, StopOnFault
    <3> QED BY <2>1, <3>1, <3>2, <3>3
          DEF Service, InFlight, ServiceUnmapped, ServiceCall, BindLazy, BindGivesUp, InBinder
  <2>3. /\ InCall /\ call \in Calls /\ call.slot \in Slots /\ event.addr = cpu.pc
        /\ cpu.pc # Stub(Binder) => cpu.sp = call.sp
        /\ cpu.pc = Stub(Binder) => guest.stack[cpu.sp] = OffsetOf[call.slot]
    BY <2>2, AtStub, LocationsApart DEF Inv
  <2>4. cpu.lr = After /\ call.ret = After
    BY <2>3 DEF InCall, Calls
  <2>5. CASE ServiceUnmapped \/ ServiceCall
    <3>1. cpu.pc # Stub(Binder)
      BY <2>3, <2>5, LocationsApart DEF ServiceUnmapped, ServiceCall, Inv
    <3>2. cpu'.pc = cpu.lr /\ cpu'.sp = cpu.sp
      BY <2>0, <2>5 DEF ServiceUnmapped, ServiceCall, Cpus
    <3> QED BY <2>3, <2>4, <3>1, <3>2
  <2>6. CASE BindGivesUp
    <3>1. cpu.pc = Stub(Binder) /\ LazySlots = {} /\ cpu' = [cpu EXCEPT !.pc = cpu.lr]
      BY <2>3, <2>6 DEF BindGivesUp, InBinder
    <3>2. OffsetOf[call.slot] \notin KnownOffsets
      BY <2>3, <3>1 DEF LazySlots, Pushed, View, Inv
    <3> QED BY <2>0, <2>4, <3>1, <3>2 DEF Cpus
  <2>7. ~ BindLazy
    <3>1. SUFFICES ASSUME BindLazy PROVE FALSE
      OBVIOUS
    <3>2. PICK k \in Slots : cpu' = [cpu EXCEPT !.sp = @ + 1, !.pc = Stub(SymbolOf[k])]
      BY <3>1 DEF BindLazy, LazySlots
    <3>3. cpu'.pc = Stub(SymbolOf[k])
      BY <2>0, <3>2 DEF Cpus
    <3> QED BY <3>3, LocationsApart DEF Inv
  <2> QED BY <2>1, <2>2, <2>5, <2>6, <2>7
        DEF Service, ServiceSyscall, StopOnBreakpoint, StopOnFault, Trampoline
<1> QED BY <1>1, InitInv, NextInv, PTL DEF Spec, KnownReturnsBalanced

-----------------------------------------------------------------------------
(* The executor, for launches that follow one another *)

\* What the statics and the registers hold while thread t is at a place.
RustState(t) == ctx[t].of = t /\ g_range = page[t] /\ ctx[t].pc = done[t]
GuestState(t) == RustState(t) /\ g_ctx = t /\ g_return = t /\ regs[t] = ctx[t]
TrapState(t) ==
  /\ GuestState(t)
  /\ trap[t].kind \in Kinds /\ trap[t].pc = regs[t].pc /\ regs[t].pc < MaxPc
ReturnState(t) ==
  /\ ctx[t].of = t /\ g_range = page[t]
  /\ trap[t].kind \in Kinds /\ done[t] < MaxPc
  /\ g_event = Expected[trap[t].kind]
  /\ trap[t].kind = "stub" => out_addr[t] = page[t]
  /\ ctx[t].pc = IF g_event = "syscall" THEN done[t] + 1 ELSE done[t]

\* The inductive invariant: at most one thread is active, and the statics are
\* about that one.
BackendInv ==
  /\ BackendTypeOK
  /\ \A t, u \in Threads : t # u => Inactive(t) \/ Inactive(u)
  /\ \A t \in Threads :
       /\ at[t] # "lost"
       /\ at[t] = "rust" => RustState(t)
       /\ at[t] = "guest" => GuestState(t)
       /\ at[t] = "trapped" => TrapState(t)
       /\ at[t] = "returned" => ReturnState(t)
  /\ ~ wild

\* The statics as the library loads them.
LEMMA BackendInitInv == BackendInit => BackendInv
<1> SUFFICES ASSUME BackendInit PROVE BackendInv
  OBVIOUS
<1>1. \A t \in Threads : at[t] = "idle"
  BY DEF BackendInit
<1>2. BackendTypeOK
  <2>1. 0 \in 0 .. MaxPc
    BY BackendAssumption
  <2> QED BY <2>1 DEF BackendInit, BackendTypeOK, NoTrap
<1> QED BY <1>1, <1>2 DEF BackendInit, BackendInv, Inactive

\* Machine::load sets the range for the only thread that is active.
LEMMA LoadInv ==
  ASSUME BackendInv, SerialLaunch, NEW t \in Threads, Load(t)
  PROVE  BackendInv'
<1> USE DEF BackendInv
<1>1. PICK p \in Pages \ used : /\ g_range' = p
                                /\ page' = [page EXCEPT ![t] = p]
                                /\ used' = used \cup {p}
  BY DEF Load, SetTrampolineRange
<1>2. /\ Inactive(t)
      /\ at' = [at EXCEPT ![t] = "rust"]
      /\ ctx' = [ctx EXCEPT ![t] = [of |-> t, pc |-> 0]]
      /\ trap' = [trap EXCEPT ![t] = NoTrap]
      /\ done' = [done EXCEPT ![t] = 0]
      /\ UNCHANGED <<regs, g_ctx, g_return, g_event, out_addr, wild>>
  BY DEF Load, Inactive
<1>3. \A u \in Threads \ {t} : Inactive(u) /\ at'[u] = at[u]
  BY <1>2 DEF SerialLaunch, Inactive, BackendTypeOK
<1>4. BackendTypeOK'
  BY <1>1, <1>2, BackendAssumption DEF BackendTypeOK, NoTrap, Kinds
<1>5. at'[t] = "rust" /\ RustState(t)'
  BY <1>1, <1>2 DEF BackendTypeOK, RustState
<1> QED BY <1>2, <1>3, <1>4, <1>5 DEF Inactive

\* resume points the statics at the thread that calls it.
LEMMA ResumeInv ==
  ASSUME BackendInv, NEW t \in Threads, Resume(t)
  PROVE  BackendInv'
<1> USE DEF BackendInv
<1>1. BackendTypeOK'
  BY DEF Resume, BackendTypeOK
<1>2. \A u \in Threads \ {t} : Inactive(u) /\ at'[u] = at[u]
  BY DEF Resume, Inactive, BackendTypeOK
<1>3. at'[t] = "guest" /\ GuestState(t)'
  BY DEF Resume, BackendTypeOK, GuestState, RustState
<1> QED BY <1>1, <1>2, <1>3 DEF Inactive, Resume

\* A trap leaves the statics alone.
LEMMA ExecuteInv ==
  ASSUME BackendInv, NEW t \in Threads, NEW kind \in Kinds, Execute(t, kind)
  PROVE  BackendInv'
<1> USE DEF BackendInv
<1>1. BackendTypeOK'
  BY DEF Execute, BackendTypeOK, statics
<1>2. \A u \in Threads \ {t} : Inactive(u) /\ at'[u] = at[u]
  BY DEF Execute, Inactive, BackendTypeOK
<1>3. at'[t] = "trapped" /\ TrapState(t)'
  BY DEF Execute, BackendTypeOK, TrapState, GuestState, RustState, statics
<1> QED BY <1>1, <1>2, <1>3 DEF Inactive, Execute

\* The classification by range and by instruction names the trap.
LEMMA ClassifyExact ==
  ASSUME NEW t \in Threads, TrapState(t)
  PROVE  /\ Classify(t) = Expected[trap[t].kind]
         /\ InRange(t) <=> trap[t].kind = "stub"
         /\ Classify(t) \in {"trampoline", "syscall", "breakpoint", "fault"}
BY DEF TrapState, GuestState, RustState, Classify, InRange, Expected, Kinds

\* The handler finds the statics of its own thread.
LEMMA TrapHandlerInv ==
  ASSUME BackendInv, NEW t \in Threads, TrapHandler(t)
  PROVE  BackendInv'
<1> USE DEF BackendInv
<1>1. at[t] = "trapped" /\ TrapState(t)
  BY DEF TrapHandler
<1>2. /\ g_ctx = t /\ g_return = t
      /\ ctx' = [ctx EXCEPT ![t] = [of |-> regs[t].of, pc |-> regs[t].pc + Advance(t)]]
      /\ g_event' = Expected[trap[t].kind]
      /\ out_addr' = IF trap[t].kind = "stub" THEN [out_addr EXCEPT ![t] = page[t]] ELSE out_addr
      /\ wild' = FALSE
      /\ at' = [at EXCEPT ![t] = "returned"]
      /\ UNCHANGED <<page, regs, trap, done, used, g_range, g_ctx, g_return>>
  BY <1>1, ClassifyExact DEF TrapHandler, TrapState, GuestState
<1>3. Advance(t) = IF g_event' = "syscall" THEN 1 ELSE 0
  BY <1>1, <1>2, ClassifyExact DEF Advance
<1>4. /\ regs[t].of = t /\ regs[t].pc = done[t] /\ regs[t].pc \in Nat /\ regs[t].pc < MaxPc
      /\ g_range = page[t] /\ trap[t].kind \in Kinds
  BY <1>1 DEF TrapState, GuestState, RustState, BackendTypeOK
<1>5. regs[t].pc + Advance(t) \in 0 .. MaxPc
  BY <1>3, <1>4, BackendAssumption
<1>6. BackendTypeOK'
  <2>1. g_event' \in {"trampoline", "syscall", "breakpoint", "fault"}
    BY <1>2, <1>4 DEF Expected, Kinds
  <2> QED BY <1>2, <1>4, <1>5, <2>1 DEF BackendTypeOK
<1>7. \A u \in Threads \ {t} : Inactive(u) /\ at'[u] = at[u]
  BY <1>1, <1>2 DEF Inactive, BackendTypeOK
<1>8. at'[t] = "returned" /\ ReturnState(t)'
  BY <1>2, <1>3, <1>4 DEF BackendTypeOK, ReturnState
<1> QED BY <1>2, <1>6, <1>7, <1>8 DEF Inactive

\* The service makes the guest continue behind the trap.
LEMMA ContinueInv ==
  ASSUME BackendInv, NEW t \in Threads, Continue(t)
  PROVE  BackendInv'
<1> USE DEF BackendInv
<1>1. at[t] = "returned" /\ ReturnState(t) /\ done[t] \in Nat /\ done[t] < MaxPc
  BY DEF Continue, ReturnState, BackendTypeOK
<1>2. ctx'[t] = [of |-> t, pc |-> done[t] + 1] /\ \A u \in Threads \ {t} : ctx'[u] = ctx[u]
  BY <1>1 DEF Continue, ReturnState, BackendTypeOK
<1>3. ctx' \in [Threads -> [of : Threads, pc : 0 .. MaxPc]]
  <2>1. done[t] + 1 \in 0 .. MaxPc
    BY <1>1, BackendAssumption
  <2>2. ctx' = [u \in Threads |-> ctx'[u]]
    BY DEF Continue, BackendTypeOK
  <2>3. \A u \in Threads : ctx'[u] \in [of : Threads, pc : 0 .. MaxPc]
    <3>1. [of |-> t, pc |-> done[t] + 1] \in [of : Threads, pc : 0 .. MaxPc]
      BY <2>1
    <3>2. \A u \in Threads : ctx[u] \in [of : Threads, pc : 0 .. MaxPc]
      BY DEF BackendTypeOK
    <3> QED BY <1>2, <3>1, <3>2
  <2> QED BY <2>2, <2>3
<1>4. done' = [done EXCEPT ![t] = done[t] + 1] /\ at' = [at EXCEPT ![t] = "rust"]
  BY DEF Continue
<1>5. UNCHANGED <<page, regs, trap, used, g_range, g_ctx, g_return, g_event, out_addr, wild>>
  BY DEF Continue, statics
<1>6. BackendTypeOK'
  BY <1>1, <1>3, <1>4, <1>5 DEF BackendTypeOK
<1>7. \A u \in Threads \ {t} : Inactive(u) /\ at'[u] = at[u]
  BY <1>1, <1>4 DEF Inactive, BackendTypeOK
<1>8. at'[t] = "rust" /\ RustState(t)'
  BY <1>1, <1>2, <1>4, <1>5 DEF BackendTypeOK, RustState, ReturnState
<1> QED BY <1>5, <1>6, <1>7, <1>8 DEF Inactive

\* A launch that ends makes room for the next one.
LEMMA StopInv ==
  ASSUME BackendInv, NEW t \in Threads, Stop(t)
  PROVE  BackendInv'
<1> USE DEF BackendInv
<1>1. BackendTypeOK'
  BY DEF Stop, BackendTypeOK, statics
<1>2. \A u \in Threads \ {t} : Inactive(u) /\ at'[u] = at[u]
  BY DEF Stop, Inactive, BackendTypeOK
<1>3. at'[t] = "stopped"
  BY DEF Stop, BackendTypeOK
<1> QED BY <1>1, <1>2, <1>3 DEF Inactive, Stop, statics

\* Every step of launches after one another keeps the invariant.
LEMMA BackendNextInv == BackendInv /\ [SerialNext]_backendVars => BackendInv'
<1> SUFFICES ASSUME BackendInv, [SerialNext]_backendVars PROVE BackendInv'
  OBVIOUS
<1>1. CASE SerialNext
  <2>1. PICK t \in Threads :
          \/ Load(t) \/ Resume(t) \/ TrapHandler(t) \/ Continue(t) \/ Stop(t)
          \/ \E kind \in Kinds : Execute(t, kind)
    BY <1>1 DEF SerialNext, BackendNext
  <2>2. SerialLaunch
    BY <1>1 DEF SerialNext
  <2> QED BY <2>1, <2>2, LoadInv, ResumeInv, TrapHandlerInv, ContinueInv, StopInv, ExecuteInv
<1>2. CASE UNCHANGED backendVars
  BY <1>2 DEF backendVars, statics, BackendInv, BackendTypeOK, Inactive, RustState, GuestState, TrapState, ReturnState
<1> QED BY <1>1, <1>2

-----------------------------------------------------------------------------
(* Theorems *)

\* When launches follow one another, on whatever threads, resume reports to each
\* the trap that its own guest took, with its own registers and stub page,
\* although the handler knows only the C statics.
THEOREM TrapReportedToItsLaunch == SerialSpec => []EventIsTheTrap
<1>1. BackendInv => EventIsTheTrap
  BY DEF BackendInv, EventIsTheTrap, ReturnState
<1> QED BY <1>1, BackendInitInv, BackendNextInv, PTL DEF SerialSpec

\* The traps of a guest are serviced in program order, each once: the handler
\* steps over a system call and the service of a stub over the call.
THEOREM TrapsServicedInOrder == SerialSpec => []ServicedInOrder
<1>1. BackendInv => ServicedInOrder
  BY DEF BackendInv, ServicedInOrder, TrapState, GuestState, RustState
<1> QED BY <1>1, BackendInitInv, BackendNextInv, PTL DEF SerialSpec

\* The handler always leaves through the frame of the thread that trapped; two
\* launches at the same time are what breaks this (run backend_threads).
THEOREM SerialJumpsToOwnFrame == SerialSpec => []JumpsToOwnFrame
<1>1. BackendInv => JumpsToOwnFrame
  BY DEF BackendInv, JumpsToOwnFrame
<1> QED BY <1>1, BackendInitInv, BackendNextInv, PTL DEF SerialSpec
=============================================================================
