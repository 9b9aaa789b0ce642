---------------------------- MODULE NativeBackend ----------------------------
(***************************************************************************)
(* The device executor, native/src/jit_exec.c: resume branches into the    *)
(* guest and the signal handler brings control back with siglongjmp.  Its  *)
(* state is C statics; every launch of the app is a thread that loads one  *)
(* image and then calls resume until its guest stops (session.rs).         *)
(*                                                                         *)
(* Abstraction.  A guest is a straight line of trapping instructions; its  *)
(* pc is the number of the next one.  A call of a stub traps in the page   *)
(* that the launch reserved, and the service makes the guest continue at   *)
(* the next instruction (pc = lr; see Machine).  Each of resume, the       *)
(* handler and the return to Rust is one step.  Vector registers are left  *)
(* out.                                                                    *)
(*                                                                         *)
(* Assumed: the handler is installed and the text is prepared, the two     *)
(* calls that ios_emu_jit.h asks its user for.  Nothing in the repository  *)
(* makes them yet.                                                         *)
(***************************************************************************)
EXTENDS Integers, FiniteSets

CONSTANTS
  Threads,          \* threads of the app that launch guests
  Pages,            \* addresses where stub pages may be reserved
  MaxPc,            \* bound on the trapping instructions of a guest
  NoThread, NoPage

ASSUME BackendAssumption ==
  NoThread \notin Threads /\ NoPage \notin Pages /\ MaxPc \in Nat

VARIABLES
  at,               \* where a thread is
  page,             \* the stub page of its launch
  ctx,              \* its CpuContext: whose registers, and the pc
  regs,             \* what the processor holds while it runs the guest
  trap,             \* history: the last trap, [kind, pc]
  done,             \* history: the traps of this launch that were serviced
  used,             \* stub pages reserved so far (never released)
  g_range, g_ctx, g_return, g_event, out_addr,      \* the statics
  wild              \* siglongjmp went to the frame of another thread

statics == <<g_range, g_ctx, g_return, g_event, out_addr>>
backendVars == <<at, page, ctx, regs, trap, done, used, statics, wild>>

Kinds == {"stub", "svc", "brk", "fault"}
NoTrap == [kind |-> "none", pc |-> 0]

BackendInit ==
  /\ at = [t \in Threads |-> "idle"]
  /\ page = [t \in Threads |-> NoPage]
  /\ ctx = [t \in Threads |-> [of |-> t, pc |-> 0]]
  /\ regs = ctx
  /\ trap = [t \in Threads |-> NoTrap]
  /\ done = [t \in Threads |-> 0]
  /\ used = {}
  /\ g_range = NoPage /\ g_ctx = NoThread /\ g_return = NoThread
  /\ g_event = "fault" /\ out_addr = [t \in Threads |-> NoPage]
  /\ wild = FALSE

\* Mutant: the range is set by the first launch only.
SetTrampolineRange_Once(p) == g_range' = IF g_range = NoPage THEN p ELSE g_range
(* ios_emu_native_set_trampoline_range *)
SetTrampolineRange(p) == g_range' = p

(* Machine::load: reserve a stub page, tell the handler, build the registers. *)
Load(t) ==
  /\ at[t] \in {"idle", "stopped"}
  /\ \E p \in Pages \ used :
       /\ SetTrampolineRange(p)
       /\ page' = [page EXCEPT ![t] = p]
       /\ used' = used \cup {p}
  /\ at' = [at EXCEPT ![t] = "rust"]
  /\ ctx' = [ctx EXCEPT ![t] = [of |-> t, pc |-> 0]]
  /\ trap' = [trap EXCEPT ![t] = NoTrap]
  /\ done' = [done EXCEPT ![t] = 0]
  /\ UNCHANGED <<regs, g_ctx, g_return, g_event, out_addr, wild>>

(* ios_emu_native_resume and install_and_branch *)
Resume(t) ==
  /\ at[t] = "rust"
  /\ g_ctx' = t /\ g_return' = t /\ g_event' = "fault"
  /\ regs' = [regs EXCEPT ![t] = ctx[t]]
  /\ at' = [at EXCEPT ![t] = "guest"]
  /\ UNCHANGED <<page, ctx, trap, done, used, g_range, out_addr, wild>>

(* The guest reaches its next trapping instruction; an svc traps because
   prepare_text rewrote it into a BRK. *)
Execute(t, kind) ==
  /\ at[t] = "guest" /\ regs[t].pc < MaxPc
  /\ trap' = [trap EXCEPT ![t] = [kind |-> kind, pc |-> regs[t].pc]]
  /\ at' = [at EXCEPT ![t] = "trapped"]
  /\ UNCHANGED <<page, ctx, regs, done, used, statics, wild>>

\* The handler's classification: by the range first, then by the instruction.
InRange(t) == trap[t].kind = "stub" /\ page[t] = g_range
Classify(t) ==
  CASE trap[t].kind = "fault" -> "fault"
    [] trap[t].kind # "fault" /\ InRange(t) -> "trampoline"
    [] trap[t].kind = "svc" -> "syscall"
    [] OTHER -> "breakpoint"

\* Mutant: the handler does not step over a system call.
Advance_Stay(t) == 0
\* "Advance past the trap so the next resume continues after it."
Advance(t) == IF Classify(t) = "syscall" THEN 1 ELSE 0

(* trap_handler: capture, classify, siglongjmp. *)
TrapHandler(t) ==
  /\ at[t] = "trapped"
  /\ ctx' = [ctx EXCEPT ![g_ctx] = [of |-> regs[t].of, pc |-> regs[t].pc + Advance(t)]]
  /\ g_event' = Classify(t)
  /\ out_addr' = IF InRange(t) THEN [out_addr EXCEPT ![g_ctx] = page[t]] ELSE out_addr
  /\ wild' = (wild \/ g_return # t)
  /\ at' = [at EXCEPT ![t] = IF g_return = t THEN "returned" ELSE "lost"]
  /\ UNCHANGED <<page, regs, trap, done, used, g_range, g_ctx, g_return>>

(* NativeExecutor::resume hands the event to Machine::run, which services it
   and goes on, or stops. *)
Continue(t) ==
  /\ at[t] = "returned" /\ g_event \in {"trampoline", "syscall"}
  /\ ctx' = IF g_event = "trampoline" THEN [ctx EXCEPT ![t].pc = @ + 1] ELSE ctx
  /\ done' = [done EXCEPT ![t] = @ + 1]
  /\ at' = [at EXCEPT ![t] = "rust"]
  /\ UNCHANGED <<page, regs, trap, used, statics, wild>>

Stop(t) ==
  /\ at[t] = "returned" /\ g_event # "trampoline"
  /\ at' = [at EXCEPT ![t] = "stopped"]
  /\ UNCHANGED <<page, ctx, regs, trap, done, used, statics, wild>>

BackendNext ==
  \E t \in Threads :
    \/ Load(t) \/ Resume(t) \/ TrapHandler(t) \/ Continue(t) \/ Stop(t)
    \/ \E kind \in Kinds : Execute(t, kind)

BackendSpec == BackendInit /\ [][BackendNext]_backendVars

\* Launches after one another, each on a thread of its own: no image is loaded
\* while the guest of another thread has not stopped.
Inactive(t) == at[t] \in {"idle", "stopped"}
SerialLaunch ==
  \A t \in Threads :
    (Inactive(t) /\ ~ Inactive(t)') => \A u \in Threads \ {t} : Inactive(u)
SerialNext == BackendNext /\ SerialLaunch
SerialSpec == BackendInit /\ [][SerialNext]_backendVars

-----------------------------------------------------------------------------
(* Properties *)

\* The statics and the contexts have their types.
BackendTypeOK ==
  /\ at \in [Threads -> {"idle", "rust", "guest", "trapped", "returned", "stopped", "lost"}]
  /\ page \in [Threads -> Pages \cup {NoPage}]
  /\ ctx \in [Threads -> [of : Threads, pc : 0 .. MaxPc]]
  /\ regs \in [Threads -> [of : Threads, pc : 0 .. MaxPc]]
  /\ trap \in [Threads -> [kind : Kinds \cup {"none"}, pc : 0 .. MaxPc]]
  /\ done \in [Threads -> Nat] /\ used \subseteq Pages
  /\ out_addr \in [Threads -> Pages \cup {NoPage}] /\ wild \in BOOLEAN
  /\ g_range \in Pages \cup {NoPage}
  /\ g_ctx \in Threads \cup {NoThread} /\ g_return \in Threads \cup {NoThread}
  /\ g_event \in {"trampoline", "syscall", "breakpoint", "fault"}

Expected == [stub |-> "trampoline", svc |-> "syscall", brk |-> "breakpoint", fault |-> "fault"]

\* What resume gives back to a launch is the trap that the guest of that launch
\* took: its own registers, the event of its instruction, its own stub page.
\* It holds of any number of launches after one another.
EventIsTheTrap ==
  /\ BackendTypeOK
  /\ \A t \in Threads : at[t] = "returned" =>
       /\ ctx[t].of = t
       /\ g_event = Expected[trap[t].kind]
       /\ trap[t].kind = "stub" => out_addr[t] = page[t]

\* Every trapping instruction of a guest is serviced exactly once, in program
\* order: a system call is neither repeated nor jumped over.
ServicedInOrder == \A t \in Threads : at[t] = "trapped" => trap[t].pc = done[t]

\* The handler never leaves through the frame of another thread's resume.
JumpsToOwnFrame == ~ wild
=============================================================================
