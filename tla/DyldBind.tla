------------------------------ MODULE DyldBind ------------------------------
(***************************************************************************)
(* Import binding: the two opcode interpreters of loader/src/dyld/bind.rs, *)
(* the StubResolver of loader/src/dyld/linker.rs, and the parts of         *)
(* build_process (core/src/loader.rs, steps 2 and 8) that use them.        *)
(*                                                                         *)
(* The eager stream is read by parse_bind_info only.  The lazy stream is   *)
(* read twice, by parse_bind_info (its pointers are bound eagerly too) and *)
(* by parse_lazy_bind_info (the table of dyld_stub_binder); here the two   *)
(* readers take their steps together, one opcode at a time.                *)
(*                                                                         *)
(* Abstraction.  An opcode carries its decoded operand and its length in   *)
(* bytes; LEB128 and C-string decoding, the library ordinal and the bind   *)
(* type, which no later step reads, are left out.  A truncated operand or  *)
(* an unknown opcode makes build_process fail and is not modelled.  Guest  *)
(* memory is kept by the byte, as far as binding writes it: a slot may lie *)
(* at any address that a stream computes, across another slot or in        *)
(* another segment than the one it names.                                  *)
(***************************************************************************)
EXTENDS Integers, Sequences, FiniteSets

CONSTANTS
  Symbols,              \* imported names
  NoSymbol,             \* the empty name a parser starts with
  Segments,             \* segment indices that a stream may name
  SegRuntime,           \* seg_runtime: the runtime bases of the mapped ones
  Writable,             \* the regions that are writable in step 2: base and size
  Offsets,              \* offsets in a segment given by SET_SEGMENT_AND_OFFSET
  Addends, Steps, Counts,           \* operands of the other opcodes
  OffsetWord,           \* 2^64: offsets, addresses and pointers wrap
  Ptr,                  \* pointer size, 8
  StubBase, Stride,     \* trampoline_base, trampoline_stride
  MaxEager, MaxLazy     \* bounds: opcodes in the two streams

VARIABLES
  phase,        \* "eager" | "bindEager" | "lazy" | "bindLazy" | "table" | "done"
  nops, last,   \* opcodes read of the current stream: how many, the last one
  cur,          \* parse_bind_info: current segment, offset, symbol, addend
  records,      \* parse_bind_info: the BindRecords of the current stream
  lcur,         \* parse_lazy_bind_info: seq_start and the current values
  lazies,       \* parse_lazy_bind_info: the LazyBinds
  bound,        \* how many records of the current stream are applied
  forward, reverse, next,       \* StubResolver
  mem,          \* bytes written by binding: address -> pointer, byte of it
  lazy_binds    \* ProcessImage::lazy_binds

vars == <<phase, nops, last, cur, records, lcur, lazies, bound, forward, reverse, next,
          mem, lazy_binds>>

Mapped == DOMAIN SegRuntime       \* the segments with a runtime base (not __PAGEZERO)

ASSUME BindAssumption ==
  /\ StubBase \in Nat /\ Stride \in Nat \ {0}
  /\ OffsetWord \in Nat \ {0} /\ Ptr \in Nat \ {0}
  /\ \A g \in Mapped : SegRuntime[g] \in Nat
  /\ \A w \in Writable : w.base \in Nat /\ w.size \in Nat
  /\ Offsets \subseteq 0 .. OffsetWord - 1 /\ Addends \subseteq Int
  /\ Steps \subseteq Nat /\ Counts \subseteq Nat
  /\ NoSymbol \notin Symbols
  /\ MaxEager \in Nat /\ MaxLazy \in Nat

-----------------------------------------------------------------------------
Empty == [seg |-> 0, off |-> 0, sym |-> NoSymbol, addend |-> 0]
LazyEmpty == [start |-> 0, p |-> 0, seg |-> 0, off |-> 0, sym |-> NoSymbol]

Op(name, arg, len) == [op |-> name, arg |-> arg, len |-> len]

\* The opcodes of a stream.  A lazy sequence is set segment and offset, set
\* symbol, DO_BIND, DONE (doc of parse_lazy_bind_info); the compact forms of
\* DO_BIND occur in the eager stream only.
CommonOps ==
       {Op("DONE", << >>, 1), Op("DO_BIND", << >>, 1)}
  \cup {Op("SET_SYMBOL", <<s>>, 3) : s \in Symbols}
  \cup {Op("SET_SEGMENT_AND_OFFSET", <<g, o>>, 2) : g \in Segments, o \in Offsets}
EagerOps == CommonOps
  \cup {Op("SET_ADDEND", <<a>>, 2) : a \in Addends}
  \cup {Op("ADD_ADDR", <<d>>, 2) : d \in Steps}
  \cup {Op("DO_BIND_ADD_ADDR_ULEB", <<d>>, 2) : d \in Steps}
  \cup {Op("DO_BIND_ADD_ADDR_IMM_SCALED", <<k>>, 1) : k \in Counts}
  \cup {Op("DO_BIND_ULEB_TIMES_SKIPPING_ULEB", <<n, d>>, 3) : n \in Counts, d \in Steps}

Wrap(n) == n % OffsetWord

\* How far a bind opcode moves the offset after each pointer, and how many
\* pointers it binds.
Stride1(o) ==
  CASE o.op = "DO_BIND" -> Ptr
    [] o.op = "DO_BIND_ADD_ADDR_ULEB" -> Ptr + o.arg[1]
    [] o.op = "DO_BIND_ADD_ADDR_IMM_SCALED" -> Ptr + o.arg[1] * Ptr
    [] o.op = "DO_BIND_ULEB_TIMES_SKIPPING_ULEB" -> Ptr + o.arg[2]
    [] OTHER -> 0
Times(o) ==
  CASE o.op \in {"DO_BIND", "DO_BIND_ADD_ADDR_ULEB", "DO_BIND_ADD_ADDR_IMM_SCALED"} -> 1
    [] o.op = "DO_BIND_ULEB_TIMES_SKIPPING_ULEB" -> o.arg[1]
    [] OTHER -> 0

(* One iteration of the loop of parse_bind_info. *)
ParseBind(o) ==
  /\ cur' = CASE o.op = "SET_SYMBOL" -> [cur EXCEPT !.sym = o.arg[1]]
              [] o.op = "SET_ADDEND" -> [cur EXCEPT !.addend = o.arg[1]]
              [] o.op = "SET_SEGMENT_AND_OFFSET" ->
                   [cur EXCEPT !.seg = o.arg[1], !.off = o.arg[2]]
              [] o.op = "ADD_ADDR" -> [cur EXCEPT !.off = Wrap(@ + o.arg[1])]
              [] OTHER -> [cur EXCEPT !.off = Wrap(@ + Times(o) * Stride1(o))]
  /\ records' = records \o
       [k \in 1 .. Times(o) |-> [cur EXCEPT !.off = Wrap(@ + (k - 1) * Stride1(o))]]

\* Mutant: DONE leaves seq_start where it was.
ParseLazy_KeepStart(o) ==
  /\ lcur' = CASE o.op = "SET_SYMBOL" -> [lcur EXCEPT !.p = @ + o.len, !.sym = o.arg[1]]
               [] o.op = "SET_SEGMENT_AND_OFFSET" ->
                    [lcur EXCEPT !.p = @ + o.len, !.seg = o.arg[1], !.off = o.arg[2]]
               [] OTHER -> [lcur EXCEPT !.p = @ + o.len]
  /\ lazies' = IF o.op = "DO_BIND"
               THEN Append(lazies, [offset |-> lcur.start, seg |-> lcur.seg,
                                    off |-> lcur.off, sym |-> lcur.sym])
               ELSE lazies

(* One iteration of the loop of parse_lazy_bind_info: DO_BIND does not move
   the offset, DONE starts the next sequence at the following byte. *)
ParseLazy(o) ==
  LET p == lcur.p + o.len IN
  /\ lcur' = CASE o.op = "DONE" -> [lcur EXCEPT !.p = p, !.start = p]
               [] o.op = "SET_SYMBOL" -> [lcur EXCEPT !.p = p, !.sym = o.arg[1]]
               [] o.op = "SET_SEGMENT_AND_OFFSET" ->
                    [lcur EXCEPT !.p = p, !.seg = o.arg[1], !.off = o.arg[2]]
               [] o.op = "ADD_ADDR" -> [lcur EXCEPT !.p = p, !.off = Wrap(@ + o.arg[1])]
               [] OTHER -> [lcur EXCEPT !.p = p]
  /\ lazies' = IF o.op = "DO_BIND"
               THEN Append(lazies, [offset |-> lcur.start, seg |-> lcur.seg,
                                    off |-> lcur.off, sym |-> lcur.sym])
               ELSE lazies

-----------------------------------------------------------------------------
Init ==
  /\ phase = "eager"
  /\ nops = 0 /\ last = "DONE"
  /\ cur = Empty /\ records = << >>
  /\ lcur = LazyEmpty /\ lazies = << >>
  /\ bound = 0
  /\ forward = << >> /\ reverse = << >> /\ next = StubBase
  /\ mem = << >>
  /\ lazy_binds = << >>

(* parse_bind_info reads an opcode of the eager stream. *)
ReadEager(o) ==
  /\ phase = "eager" /\ nops < MaxEager
  /\ ParseBind(o)
  /\ nops' = nops + 1 /\ last' = o.op
  /\ UNCHANGED <<phase, lcur, lazies, bound, forward, reverse, next, mem, lazy_binds>>

\* GuestAddr + u64; the bytes of two pointers meet.
Target(seg, off) == Wrap(SegRuntime[seg] + off)
Overlap(a, b) == a < b + Ptr /\ b < a + Ptr

\* The shape of a linker's lazy stream: each sequence names a slot clear of the
\* earlier ones, then a symbol, then binds once, then ends.
Apart(g, o, h, p) == g \in Mapped /\ h \in Mapped => ~ Overlap(Target(g, o), Target(h, p))
LazyShape(o) ==
  /\ o.op = "SET_SEGMENT_AND_OFFSET" =>
       /\ last = "DONE"
       /\ \A i \in DOMAIN lazies : Apart(lazies[i].seg, lazies[i].off, o.arg[1], o.arg[2])
  /\ o.op = "SET_SYMBOL" => last = "SET_SEGMENT_AND_OFFSET"
  /\ o.op = "DO_BIND" => last = "SET_SYMBOL"
  /\ o.op = "DONE" => last \in {"DO_BIND", "DONE"}

(* Both readers take an opcode of the lazy stream. *)
ReadLazy(o) ==
  /\ phase = "lazy" /\ nops < MaxLazy /\ LazyShape(o)
  /\ ParseBind(o) /\ ParseLazy(o)
  /\ nops' = nops + 1 /\ last' = o.op
  /\ UNCHANGED <<phase, bound, forward, reverse, next, mem, lazy_binds>>

(* The end of a stream: build_process goes on to apply its records. *)
EndStream ==
  /\ \/ phase = "eager" /\ phase' = "bindEager"
     \/ phase = "lazy" /\ phase' = "bindLazy"
  /\ UNCHANGED <<nops, last, cur, records, lcur, lazies, bound, forward, reverse, next, mem, lazy_binds>>

Extend(f, key, value) == [k \in DOMAIN f \cup {key} |-> IF k = key THEN value ELSE f[k]]

\* Mutants: next does not move; every call hands out a new stub.
Resolve_SameNext(sym) ==
  IF sym \in DOMAIN forward
  THEN UNCHANGED <<forward, reverse, next>>
  ELSE /\ forward' = Extend(forward, sym, next)
       /\ reverse' = Extend(reverse, next, sym)
       /\ next' = next
Resolve_AlwaysNew(sym) ==
  /\ forward' = Extend(forward, sym, next)
  /\ reverse' = Extend(reverse, next, sym)
  /\ next' = next + Stride

(* StubResolver::resolve: the stub of a known symbol, or the next free one. *)
Resolve(sym) ==
  IF sym \in DOMAIN forward
  THEN UNCHANGED <<forward, reverse, next>>
  ELSE /\ forward' = Extend(forward, sym, next)
       /\ reverse' = Extend(reverse, next, sym)
       /\ next' = next + Stride

\* write_u64 succeeds: one writable region holds all the bytes.  Its effect.
WriteOk(a) == \E w \in Writable : w.base <= a /\ a + Ptr <= w.base + w.size
Bytes(a) == a .. a + Ptr - 1
Stored(m, a, v) == [x \in DOMAIN m \cup Bytes(a) |-> IF x \in Bytes(a) THEN <<v, x - a>> ELSE m[x]]

\* The pointer that a bind writes: the stub plus the addend, as a u64.
Pointer(stub, addend) == Wrap(stub + addend)

(* One record of step 2: skipped when its segment is not mapped; otherwise its
   symbol gets a stub, and the stub plus the addend is written at the target,
   wherever that lies (a write that fails is only logged). *)
BindRecord ==
  /\ phase \in {"bindEager", "bindLazy"} /\ bound < Len(records)
  /\ LET r == records[bound + 1]
         a == Target(r.seg, r.off) IN
       IF r.seg \in Mapped
       THEN /\ Resolve(r.sym)
            /\ mem' = IF WriteOk(a) THEN Stored(mem, a, Pointer(forward'[r.sym], r.addend)) ELSE mem
       ELSE UNCHANGED <<forward, reverse, next, mem>>
  /\ bound' = bound + 1
  /\ UNCHANGED <<phase, nops, last, cur, records, lcur, lazies, lazy_binds>>

(* The eager stream is applied: parse the lazy one with fresh locals. *)
StartLazy ==
  /\ phase = "bindEager" /\ bound = Len(records)
  /\ phase' = "lazy"
  /\ nops' = 0 /\ last' = "DONE" /\ cur' = Empty /\ records' = << >> /\ bound' = 0
  /\ UNCHANGED <<lcur, lazies, forward, reverse, next, mem, lazy_binds>>

(* The lazy stream is applied: step 8 builds the table from the LazyBinds. *)
StartTable ==
  /\ phase = "bindLazy" /\ bound = Len(records)
  /\ phase' = "table" /\ bound' = 0
  /\ UNCHANGED <<nops, last, cur, records, lcur, lazies, forward, reverse, next, mem, lazy_binds>>

TableEntry ==
  /\ phase = "table" /\ bound < Len(lazies)
  /\ LET l == lazies[bound + 1] IN
       lazy_binds' = IF l.seg \in Mapped
                     THEN Extend(lazy_binds, l.offset, [sym |-> l.sym, slot |-> Target(l.seg, l.off)])
                     ELSE lazy_binds
  /\ bound' = bound + 1
  /\ UNCHANGED <<phase, nops, last, cur, records, lcur, lazies, forward, reverse, next, mem>>

Finish ==
  /\ phase = "table" /\ bound = Len(lazies)
  /\ phase' = "done"
  /\ UNCHANGED <<nops, last, cur, records, lcur, lazies, bound, forward, reverse, next, mem, lazy_binds>>

Next ==
  \/ \E o \in EagerOps : ReadEager(o)
  \/ \E o \in CommonOps : ReadLazy(o)
  \/ EndStream \/ BindRecord \/ StartLazy \/ StartTable \/ TableEntry \/ Finish

Spec == Init /\ [][Next]_vars

-----------------------------------------------------------------------------
(* Properties *)

Cursor == [seg : Segments \cup {0}, off : 0 .. OffsetWord - 1,
           sym : Symbols \cup {NoSymbol}, addend : Addends \cup {0}]

\* The locals of the two parsers, the records and the stub tables have the
\* types of the code's fields.
TypeOK ==
  /\ phase \in {"eager", "bindEager", "lazy", "bindLazy", "table", "done"}
  /\ nops \in 0 .. (IF MaxEager < MaxLazy THEN MaxLazy ELSE MaxEager)
  /\ cur \in Cursor
  /\ \A i \in DOMAIN records : records[i] \in Cursor
  /\ bound \in 0 .. (IF phase = "table" \/ phase = "done" THEN Len(lazies) ELSE Len(records))
  /\ DOMAIN forward \subseteq Symbols \cup {NoSymbol}

\* StubResolver gives every distinct symbol a stub of its own, inside the
\* bytes that used() reports, and the executor's reverse table undoes the
\* forward one exactly.
StubTableExact ==
  /\ TypeOK
  /\ \A s \in DOMAIN forward : forward[s] \in DOMAIN reverse /\ reverse[forward[s]] = s
  /\ \A a \in DOMAIN reverse : /\ reverse[a] \in DOMAIN forward /\ forward[reverse[a]] = a
                               /\ StubBase <= a /\ a + Stride <= next

\* The bytes that binding writes are those of the last record that covers
\* them: every applied record whose write succeeded has its whole pointer, stub
\* plus addend, in memory, except for bytes that a later record wrote over,
\* whichever segment that one names; no later record moves a stub.
Written(r) == r.seg \in Mapped /\ WriteOk(Target(r.seg, r.off))
SlotsHoldStubs ==
  phase \in {"bindEager", "bindLazy"} =>
    \A i \in 1 .. bound : Written(records[i]) =>
      \A x \in Bytes(Target(records[i].seg, records[i].off)) :
        \/ \E j \in i + 1 .. bound :
             Written(records[j]) /\ x \in Bytes(Target(records[j].seg, records[j].off))
        \/ /\ x \in DOMAIN mem
           /\ mem[x] = <<Pointer(forward[records[i].sym], records[i].addend),
                        x - Target(records[i].seg, records[i].off)>>

\* "Every one of these symbols already has a stub from step 2", and the two
\* readers of the lazy stream agree: each lazy entry is found under the offset
\* of its own sequence, and the slot that dyld_stub_binder would patch already
\* holds the stub it would write there, in all its bytes.
LazyTableExact ==
  phase = "done" =>
    /\ \A k \in DOMAIN lazy_binds : lazy_binds[k].sym \in DOMAIN forward
    /\ \A i \in DOMAIN lazies : lazies[i].seg \in Mapped =>
         LET entry == [sym |-> lazies[i].sym, slot |-> Target(lazies[i].seg, lazies[i].off)] IN
         /\ lazies[i].offset \in DOMAIN lazy_binds
         /\ lazy_binds[lazies[i].offset] = entry
         /\ WriteOk(entry.slot) => \A x \in Bytes(entry.slot) :
              x \in DOMAIN mem /\ mem[x] = <<Pointer(forward[entry.sym], 0), x - entry.slot>>
=============================================================================
